-------------------------- MODULE MuxStreamProofs --------------------------
(***************************************************************************)
(* Proofs about MuxStream for every value of its constants.  FlowInv is    *)
(* shown to be inductive, one step per action; the bound on the bytes in   *)
(* between, the range of the window, the wake-up property and the          *)
(* refinement of BoundedStream follow from it.  KeptInv, inductive on top  *)
(* of FlowInv, adds that no byte and no credit is lost: the order of reads *)
(* and the causes of a panic and of a stalled writer follow from both.     *)
(***************************************************************************)
EXTENDS MuxStream, TLAPS

-----------------------------------------------------------------------------
(* Queues: what taking the first element and adding a last one preserve.    *)

\* A set whose members have integer bounds, such as Frame and Span.
Bounded(T) == \A f \in T : f.lo \in Int /\ f.hi \in Int

\* Span and Frame are such sets.
LEMMA FrameBounded == Bounded(Frame) /\ Bounded(Span)
  BY DEF Bounded, Frame, Span

\* The elements of a queue without its first, and the first.
LEMMA TailElements ==
  ASSUME NEW T, NEW q \in Seq(T), q # <<>>
  PROVE  /\ Tail(q) \in Seq(T) /\ Head(q) \in T /\ Head(q) = q[1]
         /\ Len(q) \in Nat /\ 1 <= Len(q) /\ Len(Tail(q)) = Len(q) - 1
         /\ \A i \in 1..Len(Tail(q)) : Tail(q)[i] = q[i + 1]
  OBVIOUS

\* The elements of a queue with one more at its end.
LEMMA AppendElements ==
  ASSUME NEW T, NEW q \in Seq(T), NEW f \in T
  PROVE  /\ Append(q, f) \in Seq(T)
         /\ Len(q) \in Nat /\ Len(Append(q, f)) = Len(q) + 1
         /\ \A i \in 1..Len(q) : Append(q, f)[i] = q[i]
         /\ Append(q, f)[Len(q) + 1] = f
  OBVIOUS

\* Taking the first element keeps the order of the rest.
LEMMA TailSorted ==
  ASSUME NEW T, Bounded(T), NEW q \in Seq(T), q # <<>>, Sorted(q)
  PROVE  Sorted(Tail(q))
  <1>1. SUFFICES ASSUME NEW i \in 1..Len(Tail(q)), NEW j \in 1..Len(Tail(q)), i < j,
                        Live(Tail(q)[i]), Live(Tail(q)[j])
                 PROVE  Tail(q)[i].hi <= Tail(q)[j].lo
    BY DEF Sorted
  <1>2. i + 1 \in 1..Len(q) /\ j + 1 \in 1..Len(q) /\ i + 1 < j + 1
    BY <1>1, TailElements
  <1>3. Tail(q)[i] = q[i + 1] /\ Tail(q)[j] = q[j + 1]
    BY <1>1, TailElements
  <1> QED BY <1>1, <1>2, <1>3 DEF Sorted

\* Taking the first element keeps the order between two queues.
LEMMA TailPrecedes ==
  ASSUME NEW T, NEW q \in Seq(T), q # <<>>, NEW p
  PROVE  /\ Precedes(q, p) => Precedes(Tail(q), p)
         /\ Precedes(p, q) => Precedes(p, Tail(q))
  <1>1. \A i \in 1..Len(Tail(q)) : i + 1 \in 1..Len(q) /\ Tail(q)[i] = q[i + 1]
    BY TailElements
  <1> QED BY <1>1 DEF Precedes

\* Taking the first element keeps the bounds of the rest.
LEMMA TailWithin ==
  ASSUME NEW T, NEW q \in Seq(T), q # <<>>, NEW a, NEW b, Within(q, a, b)
  PROVE  /\ Within(Tail(q), a, b)
         /\ Head(q).lo <= Head(q).hi
         /\ Live(Head(q)) => a <= Head(q).lo /\ Head(q).hi <= b
  <1>1. \A i \in 1..Len(Tail(q)) : i + 1 \in 1..Len(q) /\ Tail(q)[i] = q[i + 1]
    BY TailElements
  <1>2. 1 \in 1..Len(q) /\ Head(q) = q[1]
    BY TailElements
  <1> QED BY <1>1, <1>2 DEF Within

\* What follows a taken element lies beyond it.
LEMMA HeadBounds ==
  ASSUME NEW T, NEW q \in Seq(T), q # <<>>, Live(Head(q)), NEW a, NEW b
  PROVE  /\ Sorted(q) /\ Within(q, a, b) => Within(Tail(q), Head(q).hi, b)
         /\ \A p : Precedes(q, p) /\ Within(p, a, b) => Within(p, Head(q).hi, b)
  <1>1. \A i \in 1..Len(Tail(q)) : i + 1 \in 1..Len(q) /\ Tail(q)[i] = q[i + 1] /\ 1 < i + 1
    BY TailElements
  <1>2. 1 \in 1..Len(q) /\ Head(q) = q[1]
    BY TailElements
  <1>3. Sorted(q) /\ Within(q, a, b) => Within(Tail(q), Head(q).hi, b)
    BY <1>1, <1>2 DEF Sorted, Within
  <1>4. \A p : Precedes(q, p) /\ Within(p, a, b) => Within(p, Head(q).hi, b)
    BY <1>2 DEF Precedes, Within
  <1> QED BY <1>3, <1>4

\* Adding a last element that lies beyond the others keeps them sorted.
LEMMA AppendSorted ==
  ASSUME NEW T, NEW q \in Seq(T), NEW f \in T, Sorted(q),
         Live(f) => \A i \in 1..Len(q) : Live(q[i]) => q[i].hi <= f.lo
  PROVE  Sorted(Append(q, f))
  <1>1. SUFFICES ASSUME NEW i \in 1..Len(Append(q, f)), NEW j \in 1..Len(Append(q, f)),
                        i < j, Live(Append(q, f)[i]), Live(Append(q, f)[j])
                 PROVE  Append(q, f)[i].hi <= Append(q, f)[j].lo
    BY DEF Sorted
  <1>2. i \in 1..Len(q) /\ Append(q, f)[i] = q[i]
    BY <1>1, AppendElements
  <1>3. CASE j \in 1..Len(q)
    <2>1. Append(q, f)[j] = q[j]
      BY <1>3, AppendElements
    <2> QED BY <1>1, <1>2, <1>3, <2>1 DEF Sorted
  <1>4. CASE j = Len(q) + 1
    <2>1. Append(q, f)[j] = f
      BY <1>4, AppendElements
    <2> QED BY <1>1, <1>2, <2>1
  <1> QED BY <1>3, <1>4, AppendElements

\* Adding a last element keeps the order between two queues.
LEMMA AppendPrecedes ==
  ASSUME NEW T, NEW q \in Seq(T), NEW f \in T, NEW p
  PROVE  /\ Precedes(q, p) /\ (Live(f) => \A j \in 1..Len(p) : Live(p[j]) => f.hi <= p[j].lo)
              => Precedes(Append(q, f), p)
         /\ Precedes(p, q) /\ (Live(f) => \A j \in 1..Len(p) : Live(p[j]) => p[j].hi <= f.lo)
              => Precedes(p, Append(q, f))
  <1>1. \A i \in 1..Len(Append(q, f)) :
          \/ i \in 1..Len(q) /\ Append(q, f)[i] = q[i]
          \/ Append(q, f)[i] = f
    BY AppendElements
  <1> QED BY <1>1 DEF Precedes

\* Adding a last element within the bounds keeps the bounds.
LEMMA AppendWithin ==
  ASSUME NEW T, NEW q \in Seq(T), NEW f \in T, NEW a, NEW b, Within(q, a, b),
         f.lo <= f.hi, Live(f) => a <= f.lo /\ f.hi <= b
  PROVE  Within(Append(q, f), a, b)
  <1>1. \A i \in 1..Len(Append(q, f)) :
          \/ i \in 1..Len(q) /\ Append(q, f)[i] = q[i]
          \/ Append(q, f)[i] = f
    BY AppendElements
  <1> QED BY <1>1 DEF Within

\* Bounds may be widened.
LEMMA WidenWithin ==
  ASSUME NEW T, Bounded(T), NEW q \in Seq(T), NEW a \in Int, NEW b \in Int,
         NEW c \in Int, NEW d \in Int, Within(q, a, b), c <= a, b <= d
  PROVE  Within(q, c, d)
  <1>1. \A i \in 1..Len(q) : q[i] \in T
    OBVIOUS
  <1> QED BY <1>1 DEF Within, Bounded

\* A FIN added by try_send, or dropped, disturbs no order.
LEMMA TrySendFinKeeps ==
  ASSUME NEW q \in Seq(Frame), NEW p \in TrySendFin(q)
  PROVE  /\ p \in Seq(Frame)
         /\ Sorted(q) => Sorted(p)
         /\ \A x : Precedes(x, q) => Precedes(x, p)
         /\ \A a, b : Within(q, a, b) => Within(p, a, b)
         /\ WorthReporting(q) => WorthReporting(p)
  <1>1. NewFin \in Frame /\ ~Live(NewFin) /\ NewFin.lo <= NewFin.hi /\ NewFin.t # "WIN"
    BY DEF NewFin, Frame, Live
  <1>2. CASE p = q
    BY <1>2
  <1>3. CASE p = Append(q, NewFin)
    <2>1. p \in Seq(Frame)
      BY <1>1, <1>3, AppendElements
    <2>2. Sorted(q) => Sorted(p)
      BY <1>1, <1>3, AppendSorted
    <2>3. \A x : Precedes(x, q) => Precedes(x, p)
      BY <1>1, <1>3, AppendPrecedes
    <2>4. \A a, b : Within(q, a, b) => Within(p, a, b)
      BY <1>1, <1>3, AppendWithin
    <2>5. WorthReporting(q) => WorthReporting(p)
      <3>1. \A i \in 1..Len(p) : (i \in 1..Len(q) /\ p[i] = q[i]) \/ p[i] = NewFin
        BY <1>1, <1>3, AppendElements
      <3> QED BY <1>1, <3>1 DEF WorthReporting
    <2> QED BY <2>1, <2>2, <2>3, <2>4, <2>5
  <1> QED BY <1>2, <1>3 DEF TrySendFin

\* Two queues one behind the other, in order and within bounds.
Lane(w, q, a, b) ==
    /\ Sorted(w) /\ Sorted(q) /\ Precedes(w, q)
    /\ Within(w, a, b) /\ Within(q, a, b)

\* Moving the first element of the back queue to the front one keeps the lane.
LEMMA MoveKeeps ==
  ASSUME NEW w \in Seq(Frame), NEW q \in Seq(Frame), q # <<>>,
         NEW a \in Int, NEW b \in Int, Lane(w, q, a, b)
  PROVE  /\ Append(w, Head(q)) \in Seq(Frame) /\ Tail(q) \in Seq(Frame)
         /\ Lane(Append(w, Head(q)), Tail(q), a, b)
         /\ \A x : Precedes(x, w) /\ Precedes(x, q) => Precedes(x, Append(w, Head(q)))
         /\ \A x : Precedes(x, q) => Precedes(x, Tail(q))
         /\ WorthReporting(w) /\ WorthReporting(q)
              => WorthReporting(Append(w, Head(q))) /\ WorthReporting(Tail(q))
  <1> DEFINE f == Head(q)
  <1>1. f \in Frame /\ Tail(q) \in Seq(Frame) /\ 1 \in 1..Len(q) /\ f = q[1]
    BY TailElements
  <1>2. Append(w, f) \in Seq(Frame)
    BY <1>1, AppendElements
  <1>3. \A i \in 1..Len(Tail(q)) : i + 1 \in 1..Len(q) /\ Tail(q)[i] = q[i + 1] /\ 1 < i + 1
    BY TailElements
  <1>4. \A i \in 1..Len(w) : Live(f) /\ Live(w[i]) => w[i].hi <= f.lo
    BY <1>1 DEF Lane, Precedes
  <1>5. \A i \in 1..Len(Tail(q)) : Live(f) /\ Live(Tail(q)[i]) => f.hi <= Tail(q)[i].lo
    BY <1>1, <1>3 DEF Lane, Sorted
  <1>6. Sorted(Append(w, f))
    BY <1>1, <1>4, AppendSorted DEF Lane
  <1>7. Sorted(Tail(q))
    BY TailSorted, FrameBounded DEF Lane
  <1>8. Precedes(w, Tail(q))
    BY TailPrecedes DEF Lane
  <1>9. Precedes(Append(w, f), Tail(q))
    BY <1>1, <1>5, <1>8, AppendPrecedes
  <1>10. Within(Tail(q), a, b) /\ f.lo <= f.hi /\ (Live(f) => a <= f.lo /\ f.hi <= b)
    BY TailWithin DEF Lane
  <1>11. Within(Append(w, f), a, b)
    BY <1>1, <1>10, AppendWithin DEF Lane
  <1>12. ASSUME NEW x, Precedes(x, w), Precedes(x, q)
         PROVE  Precedes(x, Append(w, f))
    <2>1. \A j \in 1..Len(x) : Live(f) /\ Live(x[j]) => x[j].hi <= f.lo
      BY <1>1, <1>12 DEF Precedes
    <2> QED BY <1>1, <1>12, <2>1, AppendPrecedes
  <1>13. ASSUME NEW x, Precedes(x, q)
         PROVE  Precedes(x, Tail(q))
    BY <1>13, TailPrecedes
  <1>14. WorthReporting(w) /\ WorthReporting(q)
           => WorthReporting(Append(w, f)) /\ WorthReporting(Tail(q))
    <2>1. \A i \in 1..Len(Append(w, f)) :
             (i \in 1..Len(w) /\ Append(w, f)[i] = w[i]) \/ Append(w, f)[i] = f
      BY <1>1, AppendElements
    <2> QED BY <1>1, <1>3, <2>1 DEF WorthReporting
  <1> QED BY <1>1, <1>2, <1>6, <1>7, <1>9, <1>10, <1>11, <1>12, <1>13, <1>14 DEF Lane

\* The invariant, with its queues seen as lanes.
LEMMA Lanes ==
  ASSUME CreditOnce, DataOrder
  PROVE  /\ Lane(wire["r"], outq["r"], Applied, Reported)
         /\ Lane(wire["w"], outq["w"], recv_buf.hi, Sent)
  BY DEF CreditOnce, DataOrder, Lane

\* The empty buffer close() may queue disturbs no order either.
LEMMA MarkerKeeps ==
  ASSUME NEW d \in Seq(Span)
  PROVE  LET m == Append(d, EmptySpan(0)) IN
         /\ m \in Seq(Span)
         /\ Sorted(d) => Sorted(m)
         /\ \A x : Precedes(d, x) => Precedes(m, x)
         /\ \A a, b : Within(d, a, b) => Within(m, a, b)
  <1> DEFINE f == EmptySpan(0)
  <1>1. f \in Span /\ ~Live(f) /\ f.lo <= f.hi
    BY DEF EmptySpan, Span, Live
  <1>2. Append(d, f) \in Seq(Span)
    BY <1>1, AppendElements
  <1>3. Sorted(d) => Sorted(Append(d, f))
    BY <1>1, AppendSorted
  <1>4. \A x : Precedes(d, x) => Precedes(Append(d, f), x)
    BY <1>1, AppendPrecedes
  <1>5. \A a, b : Within(d, a, b) => Within(Append(d, f), a, b)
    BY <1>1, AppendWithin
  <1> QED BY <1>2, <1>3, <1>4, <1>5

\* What a wake-up may do to the writer.
LEMMA WakeEffect ==
  ASSUME TypeOK, Wake
  PROVE  /\ wpc' \in WriterStates /\ waker' \in BOOLEAN /\ notified' \in BOOLEAN
         /\ wpc' = wpc \/ (wpc = "parked" /\ wpc' = "ready")
  BY DEF TypeOK, Wake, WriterStates

\* What handle_fin_event may do to the state.
LEMMA HandleFinEffect ==
  ASSUME TypeOK, NEW e \in Ends, NEW q \in Seq(Frame), HandleFin(e, q)
  PROVE  /\ mapped' \in [Ends -> BOOLEAN] /\ closed' \in [Ends -> BOOLEAN]
         /\ wpc' \in WriterStates /\ waker' \in BOOLEAN /\ notified' \in BOOLEAN
         /\ wpc' = wpc \/ (wpc = "parked" /\ wpc' = "ready")
         /\ data' \in Seq(Span)
         /\ Sorted(data) => Sorted(data')
         /\ \A x : Precedes(data, x) => Precedes(data', x)
         /\ \A a, b : Within(data, a, b) => Within(data', a, b)
         /\ \E p \in TrySendFin(q) : outq' = [outq EXCEPT ![e] = p]
  <1>1. /\ mapped' \in [Ends -> BOOLEAN] /\ closed' \in [Ends -> BOOLEAN]
        /\ \E p \in TrySendFin(q) : outq' = [outq EXCEPT ![e] = p]
    BY DEF TypeOK, HandleFin, TrySendFin
  <1>2. /\ wpc' \in WriterStates /\ waker' \in BOOLEAN /\ notified' \in BOOLEAN
        /\ wpc' = wpc \/ (wpc = "parked" /\ wpc' = "ready")
    <2>1. CASE Wake
      BY <2>1, WakeEffect
    <2>2. CASE UNCHANGED <<waker, wpc, notified>>
      BY <2>2 DEF TypeOK
    <2> QED BY <2>1, <2>2 DEF HandleFin
  <1>3. data' = data \/ data' = Append(data, EmptySpan(0))
    BY DEF HandleFin
  <1>4. /\ data' \in Seq(Span)
        /\ Sorted(data) => Sorted(data')
        /\ \A x : Precedes(data, x) => Precedes(data', x)
        /\ \A a, b : Within(data, a, b) => Within(data', a, b)
    <2>1. data \in Seq(Span)
      BY DEF TypeOK
    <2> QED BY <1>3, <2>1, MarkerKeeps
  <1> QED BY <1>1, <1>2, <1>4

-----------------------------------------------------------------------------
(* FlowInv is inductive.                                                    *)

\* Every initial state satisfies the invariant: all queues are empty.
LEMMA FlowInit == Init => FlowInv
  <1> SUFFICES ASSUME Init PROVE FlowInv
    OBVIOUS
  <1> USE StreamAssumption
  <1>1. <<>> \in Seq(Frame) /\ <<>> \in Seq(Span) /\ Len(<<>>) = 0
    OBVIOUS
  <1>2. /\ Sorted(<<>>) /\ Precedes(<<>>, <<>>) /\ WorthReporting(<<>>)
        /\ \A a, b : Within(<<>>, a, b)
    BY <1>1 DEF Sorted, Precedes, WorthReporting, Within
  <1>3. outq["r"] = <<>> /\ outq["w"] = <<>> /\ wire["r"] = <<>> /\ wire["w"] = <<>>
    BY DEF Init, Ends
  <1>4. TypeOK
    <2>1. closed \in [Ends -> BOOLEAN] /\ mapped \in [Ends -> BOOLEAN]
      BY DEF Init
    <2>2. outq \in [Ends -> Seq(Frame)] /\ wire \in [Ends -> Seq(Frame)]
      BY <1>1 DEF Init
    <2>3. recv_buf \in Span /\ data \in Seq(Span) /\ offer \in Seq(Span)
      BY <1>1 DEF Init, Span, EmptySpan
    <2>4. rpc \in ReaderStates /\ wpc \in WriterStates
      BY DEF Init, ReaderStates, WriterStates
    <2>5. /\ send_buf_window \in Int /\ total_send_bytes \in Nat /\ queued \in Nat
          /\ recv_buf_size \in Nat /\ total_recv_bytes \in Nat
      BY DEF Init
    <2>6. waker \in BOOLEAN /\ notified \in BOOLEAN /\ listed \in BOOLEAN
      BY DEF Init
    <2> QED BY <2>1, <2>2, <2>3, <2>4, <2>5, <2>6 DEF TypeOK
  <1>5. CreditOnce
    BY <1>2, <1>3 DEF Init, CreditOnce, Applied, Reported
  <1>6. WriterFlow
    BY DEF Init, WriterFlow
  <1>7. DataOrder
    BY <1>1, <1>2, <1>3 DEF Init, DataOrder, EmptySpan, Sent
  <1> QED BY <1>4, <1>5, <1>6, <1>7 DEF FlowInv

\* A step of the writing half other than Write leaves every queue as it is
\* or adds a FIN to the writer's own.
LEMMA WriterFlowStep ==
  ASSUME FlowInv, WriterStep
  PROVE  FlowInv'
  <1> USE StreamAssumption
  <1> USE DEF FlowInv
  <1>1. CASE WriteClosed
    <2>1. TypeOK' /\ WriterFlow'
      BY <1>1 DEF WriteClosed, TypeOK, WriterFlow, rvars, WriterStates
    <2>2. CreditOnce' /\ DataOrder'
      BY <1>1 DEF WriteClosed, CreditOnce, DataOrder, rvars, Applied, Reported, Sent
    <2> QED BY <2>1, <2>2
  <1>2. CASE CheckWindow
    <2>1. TypeOK' /\ WriterFlow'
      BY <1>2 DEF CheckWindow, TypeOK, WriterFlow, rvars, WriterStates
    <2>2. CreditOnce' /\ DataOrder'
      BY <1>2 DEF CheckWindow, CreditOnce, DataOrder, rvars, Applied, Reported, Sent
    <2> QED BY <2>1, <2>2
  <1>3. CASE StoreWaker
    <2>1. TypeOK' /\ WriterFlow'
      BY <1>3 DEF StoreWaker, TypeOK, WriterFlow, rvars, WriterStates
    <2>2. CreditOnce' /\ DataOrder'
      BY <1>3 DEF StoreWaker, CreditOnce, DataOrder, rvars, Applied, Reported, Sent
    <2> QED BY <2>1, <2>2
  <1>4. CASE QueueFull
    <2>1. TypeOK' /\ WriterFlow'
      BY <1>4 DEF QueueFull, TypeOK, WriterFlow, rvars, WriterStates
    <2>2. CreditOnce' /\ DataOrder'
      BY <1>4 DEF QueueFull, CreditOnce, DataOrder, rvars, Applied, Reported, Sent
    <2> QED BY <2>1, <2>2
  <1>5. ASSUME NEW n \in 1..Peek, Write(n)
        PROVE  FlowInv'
    <2> DEFINE f == NewData(Sent, n)
               q == outq["w"]
    <2>1. f \in Frame /\ f.lo = Sent /\ f.hi = Sent + n /\ q \in Seq(Frame) /\ Sent \in Nat
      BY DEF NewData, Frame, Sent, TypeOK, Ends
    <2>2. /\ outq'["w"] = Append(q, f) /\ outq'["r"] = outq["r"]
          /\ wire' = wire /\ data' = data /\ offer' = offer /\ recv_buf' = recv_buf
          /\ total_recv_bytes' = total_recv_bytes /\ recv_buf_size' = recv_buf_size
          /\ send_buf_window' = send_buf_window /\ total_send_bytes' = total_send_bytes
          /\ queued' = n /\ wpc = "passed" /\ wpc' = "queued"
          /\ n <= (IF Sent = 0 THEN Peek ELSE Chunk)
      BY <1>5 DEF Write, rvars, TypeOK, Ends
    <2>3. Sent' = Sent + n
      BY <2>2 DEF Sent, TypeOK, WriterFlow
    <2>4. TypeOK'
      BY <1>5, <2>1, AppendElements DEF Write, rvars, TypeOK, Ends, WriterStates
    <2>5. CreditOnce'
      BY <2>2 DEF CreditOnce, Applied, Reported
    <2>6. WriterFlow'
      BY <2>2 DEF WriterFlow, CreditOnce, Applied, TypeOK, Sent
    <2>7. DataOrder'
      <3>1. /\ data \in Seq(Span) /\ offer \in Seq(Span) /\ wire["w"] \in Seq(Frame)
            /\ recv_buf.hi \in Int /\ recv_buf.lo \in Int
        BY DEF TypeOK, Ends, Span
      <3>2. /\ Within(data, recv_buf.hi, Sent') /\ Within(offer, recv_buf.hi, Sent')
            /\ Within(wire["w"], recv_buf.hi, Sent') /\ Within(q, recv_buf.hi, Sent')
        BY <2>1, <2>3, <3>1, WidenWithin, FrameBounded DEF DataOrder
      <3>3. Within(Append(q, f), recv_buf.hi, Sent')
        BY <2>1, <2>3, <3>1, <3>2, AppendWithin DEF DataOrder
      <3>4. Sorted(Append(q, f))
        BY <2>1, AppendSorted DEF DataOrder, Within
      <3>5. /\ Precedes(data, Append(q, f)) /\ Precedes(offer, Append(q, f))
            /\ Precedes(wire["w"], Append(q, f))
        BY <2>1, AppendPrecedes DEF DataOrder, Within
      <3> QED BY <2>1, <2>2, <2>3, <3>1, <3>2, <3>3, <3>4, <3>5 DEF DataOrder
    <2> QED BY <2>4, <2>5, <2>6, <2>7
  <1>6. CASE Account
    <2>1. TypeOK' /\ WriterFlow'
      BY <1>6 DEF Account, TypeOK, WriterFlow, rvars, WriterStates
    <2>2. Applied' = Applied /\ Reported' = Reported /\ Sent' = Sent
      BY <1>6 DEF Account, rvars, Applied, Reported, Sent, TypeOK
    <2>3. CreditOnce' /\ DataOrder'
      BY <1>6, <2>2 DEF Account, CreditOnce, DataOrder, rvars
    <2> QED BY <2>1, <2>3
  <1>7. CASE Shutdown
    <2>1. TypeOK' /\ WriterFlow'
      BY <1>7 DEF Shutdown, TypeOK, WriterFlow, rvars, WriterStates
    <2>2. CreditOnce' /\ DataOrder'
      BY <1>7 DEF Shutdown, CreditOnce, DataOrder, rvars, Applied, Reported, Sent
    <2> QED BY <2>1, <2>2
  <1>8. CASE OtherHalfWakes
    <2>1. TypeOK' /\ WriterFlow'
      BY <1>8 DEF OtherHalfWakes, TypeOK, WriterFlow, rvars, WriterStates
    <2>2. CreditOnce' /\ DataOrder'
      BY <1>8 DEF OtherHalfWakes, CreditOnce, DataOrder, rvars, Applied, Reported, Sent
    <2> QED BY <2>1, <2>2
  <1>9. CASE CloseWriter
    <2>1. PICK p \in TrySendFin(outq["w"]) : outq' = [outq EXCEPT !["w"] = p]
      BY <1>9 DEF CloseWriter
    <2>2. outq["w"] \in Seq(Frame) /\ outq'["w"] = p /\ outq'["r"] = outq["r"]
      BY <2>1 DEF TypeOK, Ends
    <2>3. /\ p \in Seq(Frame)
          /\ Sorted(outq["w"]) => Sorted(p)
          /\ \A x : Precedes(x, outq["w"]) => Precedes(x, p)
          /\ \A a, b : Within(outq["w"], a, b) => Within(p, a, b)
      BY <2>2, TrySendFinKeeps
    <2>4. TypeOK' /\ WriterFlow'
      BY <1>9, <2>1, <2>3 DEF CloseWriter, TypeOK, WriterFlow, rvars, WriterStates, Ends
    <2>5. CreditOnce' /\ DataOrder'
      BY <1>9, <2>2, <2>3 DEF CloseWriter, CreditOnce, DataOrder, rvars, Applied, Reported, Sent
    <2> QED BY <2>4, <2>5
  <1> QED BY <1>1, <1>2, <1>3, <1>4, <1>5, <1>6, <1>7, <1>8, <1>9 DEF WriterStep

\* What inc_recv_buf_window may do: the credit is for the bytes not yet
\* reported, and is beyond every credit on its way.
LEMMA IncRecvKeeps ==
  ASSUME FlowInv, NEW n \in Nat, IncRecvBufWindow(n),
         UNCHANGED <<send_buf_window, total_send_bytes, wire>>
  PROVE  /\ outq' \in [Ends -> Seq(Frame)] /\ outq'["w"] = outq["w"]
         /\ recv_buf_size' \in Nat /\ total_recv_bytes' \in Nat
         /\ total_recv_bytes' = total_recv_bytes + n
         /\ CreditOnce'
  <1> USE StreamAssumption
  <1> DEFINE sz == recv_buf_size + n
             upto == total_recv_bytes + n
             q == outq["r"]
             f == NewWindowUpdate(upto - sz, upto)
  <1>1. /\ q \in Seq(Frame) /\ wire["r"] \in Seq(Frame) /\ outq["w"] \in Seq(Frame)
        /\ recv_buf_size \in Nat /\ total_recv_bytes \in Nat
        /\ Applied \in Int /\ Reported \in Int /\ sz \in Nat /\ upto \in Nat
    BY DEF FlowInv, TypeOK, Ends, Applied, Reported
  <1>2. PICK res \in Report(sz, upto) :
          outq' = [outq EXCEPT !["r"] = res[1]] /\ recv_buf_size' = res[2]
    BY DEF IncRecvBufWindow
  <1>3. total_recv_bytes' = upto /\ Applied' = Applied /\ wire' = wire
    BY DEF IncRecvBufWindow, Applied
  <1>4. \/ res[1] = q /\ res[2] \in {sz, 0}
        \/ res[1] = Append(q, f) /\ res[2] = 0 /\ MinReport <= sz
    <2>1. \/ res = <<q, sz>> \/ res = <<q, 0>>
          \/ res = <<Append(q, f), 0>> /\ ~(sz < MinReport)
      BY <1>2 DEF Report
    <2> QED BY <1>1, <2>1
  <1>5. upto - sz = Reported /\ Reported \in Nat
    BY <1>1 DEF Reported, FlowInv, CreditOnce
  <1>6. f \in Frame /\ f.lo = Reported /\ f.hi = upto /\ f.t = "WIN" /\ Size(f) = sz
    BY <1>1, <1>5 DEF NewWindowUpdate, Frame, Size
  <1> HIDE DEF f, sz, upto
  <1>7. /\ res[1] \in Seq(Frame) /\ res[2] \in Nat
        /\ outq'["r"] = res[1] /\ outq'["w"] = outq["w"]
    <2>1. Append(q, f) \in Seq(Frame)
      BY <1>1, <1>6, AppendElements
    <2>2. res[1] \in Seq(Frame) /\ res[2] \in Nat
      <3>1. CASE res[1] = q /\ res[2] \in {sz, 0}
        BY <1>1, <3>1
      <3>2. CASE res[1] = Append(q, f) /\ res[2] = 0
        BY <2>1, <3>2
      <3> QED BY <1>4, <3>1, <3>2
    <2>3. outq'["r"] = res[1] /\ outq'["w"] = outq["w"]
      BY <1>2 DEF FlowInv, TypeOK, Ends
    <2> QED BY <2>2, <2>3
  <1>8. outq' \in [Ends -> Seq(Frame)]
    BY <1>2, <1>7 DEF FlowInv, TypeOK, Ends
  <1>9. Reported' = upto - res[2] /\ Reported <= Reported' /\ Reported' \in Int
    BY <1>1, <1>2, <1>3, <1>4, <1>5 DEF Reported
  <1>10. Within(wire["r"], Applied, Reported') /\ Within(q, Applied, Reported')
    BY <1>1, <1>9, WidenWithin, FrameBounded DEF FlowInv, CreditOnce
  <1>11. /\ Sorted(res[1]) /\ Precedes(wire["r"], res[1])
         /\ Within(res[1], Applied, Reported') /\ WorthReporting(res[1])
    <2>1. CASE res[1] = q
      BY <1>10, <2>1 DEF FlowInv, CreditOnce
    <2>2. CASE res[1] = Append(q, f) /\ res[2] = 0 /\ MinReport <= sz
      <3>1. Sorted(Append(q, f))
        BY <1>1, <1>6, AppendSorted DEF FlowInv, CreditOnce, Within
      <3>2. Precedes(wire["r"], Append(q, f))
        BY <1>1, <1>6, AppendPrecedes DEF FlowInv, CreditOnce, Within
      <3>3. Reported' = upto
        BY <1>1, <1>9, <2>2
      <3>4. Within(Append(q, f), Applied, Reported')
        <4>1. f.lo <= f.hi /\ Applied <= f.lo /\ f.hi <= Reported'
          BY <1>1, <1>5, <1>6, <3>3 DEF FlowInv, CreditOnce
        <4> QED BY <1>1, <1>6, <1>10, <4>1, AppendWithin
      <3>5. WorthReporting(Append(q, f))
        <4>1. \A i \in 1..Len(Append(q, f)) :
                (i \in 1..Len(q) /\ Append(q, f)[i] = q[i]) \/ Append(q, f)[i] = f
          BY <1>1, <1>6, AppendElements
        <4> QED BY <1>6, <2>2, <4>1 DEF WorthReporting, FlowInv, CreditOnce
      <3> QED BY <2>2, <3>1, <3>2, <3>4, <3>5
    <2> QED BY <1>4, <2>1, <2>2
  <1>12. CreditOnce'
    BY <1>1, <1>3, <1>7, <1>9, <1>10, <1>11 DEF FlowInv, CreditOnce
  <1>13. recv_buf_size' \in Nat /\ total_recv_bytes' \in Nat
    BY <1>1, <1>2, <1>3, <1>7
  <1>14. total_recv_bytes' = total_recv_bytes + n
    BY <1>3 DEF upto
  <1> QED BY <1>7, <1>8, <1>12, <1>13, <1>14

\* Queues emptied by the end of the reading half keep every order.
LEMMA EmptyKeeps ==
  /\ <<>> \in Seq(Span) /\ Sorted(<<>>)
  /\ \A x : Precedes(<<>>, x)
  /\ \A a, b : Within(<<>>, a, b)
  <1>1. <<>> \in Seq(Span) /\ Len(<<>>) = 0
    OBVIOUS
  <1> QED BY <1>1 DEF Sorted, Precedes, Within

\* An end of the reading half: the data queue is emptied or left, and a FIN
\* may be added to the reader's own queue.
LEMMA ReaderEndKeeps ==
  ASSUME FlowInv,
         data' \in {data, <<>>, Append(data, EmptySpan(0))},
         rpc' \in ReaderStates, closed' \in [Ends -> BOOLEAN],
         \E p \in TrySendFin(outq["r"]) : outq' = [outq EXCEPT !["r"] = p],
         UNCHANGED <<mapped, wire, wvars, offer, recv_buf, recv_buf_size,
                     total_recv_bytes, listed>>
  PROVE  FlowInv'
  <1>1. PICK p \in TrySendFin(outq["r"]) : outq' = [outq EXCEPT !["r"] = p]
    OBVIOUS
  <1>2. outq["r"] \in Seq(Frame) /\ outq'["r"] = p /\ outq'["w"] = outq["w"]
    BY <1>1 DEF FlowInv, TypeOK, Ends
  <1>3. /\ p \in Seq(Frame)
        /\ Sorted(outq["r"]) => Sorted(p)
        /\ \A x : Precedes(x, outq["r"]) => Precedes(x, p)
        /\ \A a, b : Within(outq["r"], a, b) => Within(p, a, b)
        /\ WorthReporting(outq["r"]) => WorthReporting(p)
    BY <1>2, TrySendFinKeeps
  <1>4. /\ data' \in Seq(Span)
        /\ Sorted(data) => Sorted(data')
        /\ \A x : Precedes(data, x) => Precedes(data', x)
        /\ \A a, b : Within(data, a, b) => Within(data', a, b)
    <2>1. data \in Seq(Span)
      BY DEF FlowInv, TypeOK
    <2>2. CASE data' = data
      BY <2>1, <2>2
    <2>3. CASE data' = <<>>
      BY <2>3, EmptyKeeps
    <2>4. CASE data' = Append(data, EmptySpan(0))
      BY <2>1, <2>4, MarkerKeeps
    <2> QED BY <2>2, <2>3, <2>4
  <1>5. TypeOK'
    <2>1. outq' \in [Ends -> Seq(Frame)]
      BY <1>1, <1>3 DEF FlowInv, TypeOK, Ends
    <2> QED BY <1>4, <2>1 DEF FlowInv, TypeOK, wvars
  <1>6. CreditOnce' /\ WriterFlow'
    BY <1>2, <1>3 DEF FlowInv, CreditOnce, WriterFlow, Applied, Reported, wvars
  <1>7. DataOrder'
    BY <1>2, <1>4 DEF FlowInv, DataOrder, Sent, wvars
  <1> QED BY <1>5, <1>6, <1>7 DEF FlowInv

\* A step of the reading half.
LEMMA ReaderFlowStep ==
  ASSUME FlowInv, ReaderStep
  PROVE  FlowInv'
  <1> USE StreamAssumption
  <1> DEFINE NoFin == \E p \in TrySendFin(outq["r"]) : outq' = [outq EXCEPT !["r"] = p]
  <1>0. /\ outq' = outq => NoFin
        /\ closed' = [closed EXCEPT !["r"] = TRUE] => closed' \in [Ends -> BOOLEAN]
        /\ closed \in [Ends -> BOOLEAN] /\ rpc \in ReaderStates
    BY DEF FlowInv, TypeOK, TrySendFin, Ends
  <1> HIDE DEF NoFin
  <1>1. CASE Split
    BY <1>0, <1>1, ReaderEndKeeps DEF Split, ReaderStates, NoFin
  <1>2. CASE ConnectFail
    <2>1. data' \in {data, <<>>, Append(data, EmptySpan(0))}
      <3>1. Append(<<>>, EmptySpan(0)) = <<EmptySpan(0)>>
        OBVIOUS
      <3> QED BY <1>2, <3>1 DEF ConnectFail
    <2> QED BY <1>0, <1>2, <2>1, ReaderEndKeeps DEF ConnectFail, ReaderStates
  <1>3. CASE ReadClosed
    BY <1>0, <1>3, ReaderEndKeeps DEF ReadClosed, ReaderStates, NoFin
  <1>4. CASE ReadRest
    <2>1. CASE Size(recv_buf) > Chunk
      BY <1>0, <1>4, <2>1, ReaderEndKeeps DEF ReadRest, ReaderStates, NoFin
    <2>2. CASE ~(Size(recv_buf) > Chunk)
      <3> DEFINE n == Size(recv_buf)
      <3>1. /\ IncRecvBufWindow(n) /\ recv_buf' = EmptySpan(recv_buf.hi)
            /\ UNCHANGED <<rpc, data, closed, mapped, wire, wvars, offer, listed>>
        BY <1>4, <2>2 DEF ReadRest
      <3>2. recv_buf.lo \in Nat /\ recv_buf.hi \in Nat /\ n = recv_buf.hi - recv_buf.lo /\ n > 0
        BY <1>4 DEF ReadRest, FlowInv, TypeOK, Span, Size
      <3>3. n \in Nat
        BY <3>2
      <3> HIDE DEF n
      <3>4. /\ outq' \in [Ends -> Seq(Frame)] /\ outq'["w"] = outq["w"]
            /\ recv_buf_size' \in Nat /\ total_recv_bytes' \in Nat
            /\ total_recv_bytes' = total_recv_bytes + n
            /\ CreditOnce'
        BY <3>1, <3>3, IncRecvKeeps DEF wvars
      <3>5. recv_buf' \in Span /\ recv_buf'.lo = recv_buf.hi /\ recv_buf'.hi = recv_buf.hi
        BY <3>1, <3>2 DEF EmptySpan, Span
      <3>6. TypeOK' /\ WriterFlow'
        BY <3>1, <3>4, <3>5 DEF FlowInv, TypeOK, WriterFlow, wvars
      <3>7. DataOrder'
        <4>1. Sent' = Sent /\ total_recv_bytes' <= recv_buf.hi
          BY <3>1, <3>2, <3>4 DEF FlowInv, TypeOK, DataOrder, Sent, wvars
        <4> QED BY <3>1, <3>2, <3>4, <3>5, <4>1 DEF FlowInv, DataOrder
      <3> QED BY <3>4, <3>6, <3>7 DEF FlowInv
    <2> QED BY <2>1, <2>2
  <1>5. CASE ReadNext
    <2> DEFINE b == Head(data)
               n == IF Size(b) > Chunk THEN Chunk ELSE Size(b)
    <2>1. /\ data \in Seq(Span) /\ data # <<>> /\ Size(recv_buf) = 0
          /\ recv_buf.lo \in Nat /\ recv_buf.hi \in Nat
      BY <1>5 DEF ReadNext, FlowInv, TypeOK, Span
    <2>2. b \in Span /\ b.lo \in Nat /\ b.hi \in Nat /\ b.lo <= b.hi
      <3>1. b \in Span
        BY <2>1, TailElements
      <3>2. b.lo <= b.hi
        BY <2>1, TailWithin DEF FlowInv, DataOrder
      <3> QED BY <3>1, <3>2 DEF Span
    <2>3. n \in Nat /\ b.lo + n <= b.hi /\ n <= Chunk
      BY <2>2 DEF Size
    <2>4. CASE n = 0
      BY <1>0, <1>5, <2>4, ReaderEndKeeps DEF ReadNext, ReaderStates, NoFin
    <2>5. CASE n # 0
      <3>1. /\ IncRecvBufWindow(n) /\ data' = Tail(data)
            /\ recv_buf' = [lo |-> b.lo + n, hi |-> b.hi]
            /\ UNCHANGED <<closed, rpc, mapped, wire, wvars, offer, listed>>
        BY <1>5, <2>5 DEF ReadNext
      <3>2. Live(b)
        BY <2>2, <2>3, <2>5 DEF Live
      <3> HIDE DEF n
      <3>4. /\ outq' \in [Ends -> Seq(Frame)] /\ outq'["w"] = outq["w"]
            /\ recv_buf_size' \in Nat /\ total_recv_bytes' \in Nat
            /\ total_recv_bytes' = total_recv_bytes + n
            /\ CreditOnce'
        BY <2>3, <3>1, IncRecvKeeps DEF wvars
      <3>5. recv_buf' \in Span /\ recv_buf'.lo = b.lo + n /\ recv_buf'.hi = b.hi
        BY <2>2, <2>3, <3>1 DEF Span
      <3>6. data' \in Seq(Span)
        BY <2>1, <3>1, TailElements
      <3>7. TypeOK' /\ WriterFlow'
        BY <3>1, <3>4, <3>5, <3>6 DEF FlowInv, TypeOK, WriterFlow, wvars
      <3>8. Sent' = Sent
        BY <3>1 DEF Sent, wvars
      <3>9. recv_buf.hi <= b.lo /\ b.hi <= Sent
        BY <2>1, <3>2, TailWithin DEF FlowInv, DataOrder
      <3>10. /\ Within(Tail(data), b.hi, Sent) /\ Within(offer, b.hi, Sent)
             /\ Within(wire["w"], b.hi, Sent) /\ Within(outq["w"], b.hi, Sent)
        BY <2>1, <3>2, HeadBounds DEF FlowInv, DataOrder
      <3>11. /\ Sorted(Tail(data)) /\ Precedes(Tail(data), offer)
             /\ Precedes(Tail(data), wire["w"]) /\ Precedes(Tail(data), outq["w"])
        BY <2>1, TailSorted, TailPrecedes, FrameBounded DEF FlowInv, DataOrder
      <3>12. total_recv_bytes' <= b.lo + n
        BY <2>1, <2>2, <2>3, <3>4, <3>9 DEF FlowInv, TypeOK, DataOrder
      <3>13. DataOrder'
        BY <2>3, <3>1, <3>4, <3>5, <3>8, <3>9, <3>10, <3>11, <3>12 DEF FlowInv, DataOrder
      <3> QED BY <3>4, <3>7, <3>13 DEF FlowInv
    <2> QED BY <2>4, <2>5
  <1>6. CASE LocalWriteFails
    BY <1>0, <1>6, ReaderEndKeeps DEF LocalWriteFails, ReaderStates, NoFin
  <1>7. CASE OtherHalfShutdown
    BY <1>0, <1>7, ReaderEndKeeps DEF OtherHalfShutdown, ReaderStates, NoFin, rvars
  <1>8. CASE CloseReader
    BY <1>0, <1>8, ReaderEndKeeps DEF CloseReader, ReaderStates
  <1> QED BY <1>1, <1>2, <1>3, <1>4, <1>5, <1>6, <1>7, <1>8 DEF ReaderStep

\* What the two kinds of event that meet handle_fin_event do to the state.
FinEffect(e, q) ==
    /\ mapped' \in [Ends -> BOOLEAN] /\ closed' \in [Ends -> BOOLEAN]
    /\ wpc' \in WriterStates /\ waker' \in BOOLEAN /\ notified' \in BOOLEAN
    /\ wpc' = wpc \/ (wpc = "parked" /\ wpc' = "ready")
    /\ data' \in Seq(Span)
    /\ Sorted(data) => Sorted(data')
    /\ \A x : Precedes(data, x) => Precedes(data', x)
    /\ \A a, b : Within(data, a, b) => Within(data', a, b)
    /\ \E p \in TrySendFin(q) : outq' = [outq EXCEPT ![e] = p]

\* The event coroutine of an end takes a local event and sends it on.
LEMMA ForwardFlow ==
  ASSUME FlowInv, NEW e \in Ends, Forward(e)
  PROVE  FlowInv'
  <1> DEFINE q == outq[e]
             f == Head(q)
             w == Append(wire[e], f)
  <1>1. /\ q \in Seq(Frame) /\ q # <<>> /\ wire[e] \in Seq(Frame)
        /\ outq["r"] \in Seq(Frame) /\ outq["w"] \in Seq(Frame)
    BY DEF Forward, FlowInv, TypeOK, Ends
  <1>2. Tail(q) \in Seq(Frame)
    BY <1>1, TailElements
  <1>3. FinEffect(e, Tail(q))
    <2>1. CASE f.t = "FIN"
      <3>1. HandleFin(e, Tail(q))
        BY <2>1 DEF Forward
      <3> QED BY <1>2, <3>1, HandleFinEffect DEF FlowInv, FinEffect
    <2>2. CASE f.t # "FIN"
      BY <2>2 DEF Forward, FinEffect, FlowInv, TypeOK, TrySendFin
    <2> QED BY <2>1, <2>2
  <1>4. /\ wire' = [wire EXCEPT ![e] = w]
        /\ UNCHANGED <<send_buf_window, total_send_bytes, queued, offer, recv_buf,
                       recv_buf_size, total_recv_bytes, rpc, listed>>
    BY DEF Forward
  <1>5. PICK p \in TrySendFin(Tail(q)) : outq' = [outq EXCEPT ![e] = p]
    BY <1>3 DEF FinEffect
  <1>6. /\ p \in Seq(Frame)
        /\ Sorted(Tail(q)) => Sorted(p)
        /\ \A x : Precedes(x, Tail(q)) => Precedes(x, p)
        /\ \A a, b : Within(Tail(q), a, b) => Within(p, a, b)
        /\ WorthReporting(Tail(q)) => WorthReporting(p)
    BY <1>2, TrySendFinKeeps
  <1>7. Applied \in Int /\ Reported \in Int /\ recv_buf.hi \in Int /\ Sent \in Int
    BY StreamAssumption DEF FlowInv, TypeOK, Applied, Reported, Sent, Span
  <1>8. w \in Seq(Frame)
    BY <1>1, TailElements, AppendElements
  <1>9. TypeOK'
    <2>1. outq' \in [Ends -> Seq(Frame)] /\ wire' \in [Ends -> Seq(Frame)]
      BY <1>4, <1>5, <1>6, <1>8 DEF FlowInv, TypeOK
    <2> QED BY <1>3, <1>4, <2>1 DEF FlowInv, TypeOK, FinEffect
  <1>10. WriterFlow'
    BY <1>3, <1>4 DEF FlowInv, WriterFlow, FinEffect
  <1>11. Applied' = Applied /\ Reported' = Reported /\ Sent' = Sent
    BY <1>4 DEF Applied, Reported, Sent
  <1>12. CASE e = "r"
    <2>1. /\ outq'["r"] = p /\ wire'["r"] = w
          /\ outq'["w"] = outq["w"] /\ wire'["w"] = wire["w"]
      BY <1>4, <1>5, <1>12 DEF FlowInv, TypeOK, Ends
    <2>2. Lane(wire["r"], q, Applied, Reported)
      BY <1>12, Lanes DEF FlowInv
    <2>3. /\ Lane(w, Tail(q), Applied, Reported)
          /\ WorthReporting(wire["r"]) /\ WorthReporting(q)
               => WorthReporting(w) /\ WorthReporting(Tail(q))
      BY <1>1, <1>7, <1>12, <2>2, MoveKeeps
    <2>4. CreditOnce'
      BY <1>6, <1>11, <1>12, <2>1, <2>3 DEF FlowInv, CreditOnce, Lane
    <2>5. DataOrder'
      BY <1>3, <1>4, <1>11, <2>1 DEF FlowInv, DataOrder, FinEffect
    <2> QED BY <1>9, <1>10, <2>4, <2>5 DEF FlowInv
  <1>13. CASE e = "w"
    <2>1. /\ outq'["w"] = p /\ wire'["w"] = w
          /\ outq'["r"] = outq["r"] /\ wire'["r"] = wire["r"]
      BY <1>4, <1>5, <1>13 DEF FlowInv, TypeOK, Ends
    <2>2. Lane(wire["w"], q, recv_buf.hi, Sent)
      BY <1>13, Lanes DEF FlowInv
    <2>3. /\ Lane(w, Tail(q), recv_buf.hi, Sent)
          /\ \A x : Precedes(x, wire["w"]) /\ Precedes(x, q) => Precedes(x, w)
          /\ \A x : Precedes(x, q) => Precedes(x, Tail(q))
      BY <1>1, <1>7, <1>13, <2>2, MoveKeeps
    <2>4. CreditOnce'
      BY <1>11, <2>1 DEF FlowInv, CreditOnce
    <2>5. /\ Sorted(w) /\ Sorted(p) /\ Precedes(w, p)
          /\ Within(w, recv_buf.hi, Sent) /\ Within(p, recv_buf.hi, Sent)
      BY <1>6, <2>3 DEF Lane
    <2>6. /\ Precedes(data, w) /\ Precedes(data, p)
          /\ Precedes(offer, w) /\ Precedes(offer, p)
      BY <1>6, <1>13, <2>3 DEF FlowInv, DataOrder
    <2>7. DataOrder'
      BY <1>3, <1>4, <1>11, <2>1, <2>5, <2>6 DEF FlowInv, DataOrder, FinEffect
    <2> QED BY <1>9, <1>10, <2>4, <2>7 DEF FlowInv
  <1> QED BY <1>12, <1>13 DEF Ends

\* The event coroutine of an end takes a FIN of the other end.
LEMMA RecvFinFlow ==
  ASSUME FlowInv, NEW e \in Ends, RecvFin(e)
  PROVE  FlowInv'
  <1> DEFINE o == Other(e)
             w == Tail(wire[o])
  <1>1. /\ outq[e] \in Seq(Frame) /\ o \in Ends /\ wire[o] \in Seq(Frame) /\ wire[o] # <<>>
        /\ outq["r"] \in Seq(Frame) /\ outq["w"] \in Seq(Frame)
        /\ (e = "r" => o = "w") /\ (e = "w" => o = "r")
    BY DEF RecvFin, FlowInv, TypeOK, Ends, Other
  <1>2. FinEffect(e, outq[e])
    BY <1>1, HandleFinEffect DEF RecvFin, FlowInv, FinEffect
  <1>3. /\ wire' = [wire EXCEPT ![o] = w]
        /\ UNCHANGED <<send_buf_window, total_send_bytes, queued, offer, recv_buf,
                       recv_buf_size, total_recv_bytes, rpc, listed>>
    BY DEF RecvFin
  <1>4. PICK p \in TrySendFin(outq[e]) : outq' = [outq EXCEPT ![e] = p]
    BY <1>2 DEF FinEffect
  <1>5. /\ p \in Seq(Frame)
        /\ Sorted(outq[e]) => Sorted(p)
        /\ \A x : Precedes(x, outq[e]) => Precedes(x, p)
        /\ \A a, b : Within(outq[e], a, b) => Within(p, a, b)
        /\ WorthReporting(outq[e]) => WorthReporting(p)
    BY <1>1, TrySendFinKeeps
  <1>6. /\ w \in Seq(Frame)
        /\ Sorted(wire[o]) => Sorted(w)
        /\ \A x : Precedes(x, wire[o]) => Precedes(x, w)
        /\ \A x : Precedes(wire[o], x) => Precedes(w, x)
        /\ \A a, b : Within(wire[o], a, b) => Within(w, a, b)
        /\ WorthReporting(wire[o]) => WorthReporting(w)
    <2>1. w \in Seq(Frame) /\ \A i \in 1..Len(w) : i + 1 \in 1..Len(wire[o]) /\ w[i] = wire[o][i + 1]
      BY <1>1, TailElements
    <2>2. WorthReporting(wire[o]) => WorthReporting(w)
      BY <2>1 DEF WorthReporting
    <2>3. Sorted(wire[o]) => Sorted(w)
      BY <1>1, TailSorted, FrameBounded
    <2>4. /\ \A x : Precedes(x, wire[o]) => Precedes(x, w)
          /\ \A x : Precedes(wire[o], x) => Precedes(w, x)
      BY <1>1, TailPrecedes
    <2>5. \A a, b : Within(wire[o], a, b) => Within(w, a, b)
      BY <1>1, TailWithin
    <2> QED BY <2>1, <2>2, <2>3, <2>4, <2>5
  <1>7. TypeOK'
    <2>1. outq' \in [Ends -> Seq(Frame)] /\ wire' \in [Ends -> Seq(Frame)]
      BY <1>1, <1>3, <1>4, <1>5, <1>6 DEF FlowInv, TypeOK
    <2> QED BY <1>2, <1>3, <2>1 DEF FlowInv, TypeOK, FinEffect
  <1>8. WriterFlow'
    BY <1>2, <1>3 DEF FlowInv, WriterFlow, FinEffect
  <1>9. Applied' = Applied /\ Reported' = Reported /\ Sent' = Sent
    BY <1>3 DEF Applied, Reported, Sent
  <1>10. CASE e = "r"
    <2>1. /\ outq'["r"] = p /\ wire'["r"] = wire["r"]
          /\ outq'["w"] = outq["w"] /\ wire'["w"] = w
      BY <1>1, <1>3, <1>4, <1>10 DEF FlowInv, TypeOK, Ends
    <2>2. CreditOnce'
      BY <1>5, <1>9, <1>10, <2>1 DEF FlowInv, CreditOnce
    <2>3. DataOrder'
      BY <1>1, <1>2, <1>3, <1>6, <1>9, <1>10, <2>1 DEF FlowInv, DataOrder, FinEffect
    <2> QED BY <1>7, <1>8, <2>2, <2>3 DEF FlowInv
  <1>11. CASE e = "w"
    <2>1. /\ outq'["w"] = p /\ wire'["w"] = wire["w"]
          /\ outq'["r"] = outq["r"] /\ wire'["r"] = w
      BY <1>1, <1>3, <1>4, <1>11 DEF FlowInv, TypeOK, Ends
    <2>2. CreditOnce'
      BY <1>1, <1>6, <1>9, <1>11, <2>1 DEF FlowInv, CreditOnce
    <2>3. DataOrder'
      BY <1>2, <1>3, <1>5, <1>9, <1>11, <2>1 DEF FlowInv, DataOrder, FinEffect
    <2> QED BY <1>7, <1>8, <2>2, <2>3 DEF FlowInv
  <1> QED BY <1>10, <1>11 DEF Ends

\* A queue of one element with the bounds of the frame it came from.
LEMMA SingleKeeps ==
  ASSUME NEW f, NEW g, g.lo = f.lo, g.hi = f.hi
  PROVE  /\ \A x : (\A j \in 1..Len(x) : Live(f) /\ Live(x[j]) => f.hi <= x[j].lo)
                     => Precedes(<<g>>, x)
         /\ \A x : (\A j \in 1..Len(x) : Live(f) /\ Live(x[j]) => x[j].hi <= f.lo)
                     => Precedes(x, <<g>>)
         /\ \A a, b : f.lo <= f.hi /\ (Live(f) => a <= f.lo /\ f.hi <= b)
                     => Within(<<g>>, a, b)
  <1>1. Len(<<g>>) = 1 /\ <<g>>[1] = g /\ \A i \in 1..1 : i = 1
    OBVIOUS
  <1> QED BY <1>1 DEF Precedes, Within, Live

\* The reading end takes a DATA frame: it is offered, or dropped.
LEMMA RecvDataFlow ==
  ASSUME FlowInv, RecvData
  PROVE  FlowInv'
  <1> DEFINE w == wire["w"]
             f == Head(w)
             g == [lo |-> f.lo, hi |-> f.hi]
  <1>1. /\ w \in Seq(Frame) /\ w # <<>> /\ offer = <<>>
        /\ outq["w"] \in Seq(Frame) /\ data \in Seq(Span)
    BY DEF RecvData, FlowInv, TypeOK, Ends
  <1>2. /\ wire' = [wire EXCEPT !["w"] = Tail(w)]
        /\ offer' = <<g>> \/ offer' = <<>>
        /\ UNCHANGED <<closed, mapped, outq, wvars, data, recv_buf, recv_buf_size,
                       total_recv_bytes, rpc, listed>>
    BY DEF RecvData
  <1>3. Tail(w) \in Seq(Frame) /\ f \in Frame /\ 1 \in 1..Len(w) /\ f = w[1]
    BY <1>1, TailElements
  <1>4. g \in Span /\ g.lo = f.lo /\ g.hi = f.hi
    BY <1>3 DEF Frame, Span
  <1>5. wire'["w"] = Tail(w) /\ wire'["r"] = wire["r"]
    BY <1>2 DEF FlowInv, TypeOK, Ends
  <1>6. offer' \in Seq(Span) /\ Len(offer') <= 1
    <2> HIDE DEF g
    <2>1. <<g>> \in Seq(Span) /\ Len(<<g>>) = 1 /\ <<>> \in Seq(Span) /\ Len(<<>>) = 0
      BY <1>4
    <2>2. CASE offer' = <<g>>
      BY <2>1, <2>2
    <2>3. CASE offer' = <<>>
      BY <2>1, <2>3
    <2> QED BY <1>2, <2>2, <2>3
  <1>7. TypeOK'
    <2>1. wire' \in [Ends -> Seq(Frame)]
      BY <1>2, <1>3 DEF FlowInv, TypeOK
    <2> QED BY <1>2, <1>6, <2>1 DEF FlowInv, TypeOK, wvars
  <1>8. CreditOnce' /\ WriterFlow'
    BY <1>2, <1>5 DEF FlowInv, CreditOnce, WriterFlow, Applied, Reported, wvars
  <1>9. /\ Sorted(Tail(w)) /\ Precedes(Tail(w), outq["w"]) /\ Precedes(data, Tail(w))
        /\ Within(Tail(w), recv_buf.hi, Sent)
        /\ f.lo <= f.hi /\ (Live(f) => recv_buf.hi <= f.lo /\ f.hi <= Sent)
    BY <1>1, TailSorted, TailPrecedes, TailWithin, FrameBounded DEF FlowInv, DataOrder
  <1>10. /\ Precedes(data, offer') /\ Precedes(offer', Tail(w))
         /\ Precedes(offer', outq["w"]) /\ Within(offer', recv_buf.hi, Sent)
    <2>1. CASE offer' = <<>>
      <3>1. Len(<<>>) = 0
        OBVIOUS
      <3> QED BY <2>1, <3>1 DEF Precedes, Within
    <2>2. CASE offer' = <<g>>
      <3>1. \A j \in 1..Len(data) : Live(f) /\ Live(data[j]) => data[j].hi <= f.lo
        BY <1>3 DEF FlowInv, DataOrder, Precedes
      <3>2. \A j \in 1..Len(outq["w"]) : Live(f) /\ Live(outq["w"][j]) => f.hi <= outq["w"][j].lo
        BY <1>3 DEF FlowInv, DataOrder, Precedes
      <3>3. \A j \in 1..Len(Tail(w)) : Live(f) /\ Live(Tail(w)[j]) => f.hi <= Tail(w)[j].lo
        <4>1. \A j \in 1..Len(Tail(w)) : j + 1 \in 1..Len(w) /\ Tail(w)[j] = w[j + 1] /\ 1 < j + 1
          BY <1>1, TailElements
        <4>2. Sorted(w)
          BY DEF FlowInv, DataOrder
        <4>3. \A j \in 1..Len(w) : 1 < j /\ Live(f) /\ Live(w[j]) => f.hi <= w[j].lo
          BY <1>3, <4>2 DEF Sorted
        <4> QED BY <4>1, <4>3
      <3> HIDE DEF g
      <3>4. Precedes(data, <<g>>)
        BY <1>4, <3>1, SingleKeeps, Zenon
      <3>5. Precedes(<<g>>, Tail(w)) /\ Precedes(<<g>>, outq["w"])
        BY <1>4, <3>2, <3>3, SingleKeeps, Zenon
      <3>6. Within(<<g>>, recv_buf.hi, Sent)
        BY <1>4, <1>9, SingleKeeps, Zenon
      <3> QED BY <2>2, <3>4, <3>5, <3>6
    <2> QED BY <1>2, <2>1, <2>2
  <1>11. DataOrder'
    BY <1>2, <1>5, <1>6, <1>9, <1>10 DEF FlowInv, DataOrder, Sent, wvars
  <1> QED BY <1>7, <1>8, <1>11 DEF FlowInv

\* offer_data ends: the buffer is queued for the reader, or dropped.
LEMMA OfferDataFlow ==
  ASSUME FlowInv, OfferData
  PROVE  FlowInv'
  <1> DEFINE g == offer[1]
             d == Append(data, g)
  <1>1. /\ offer \in Seq(Span) /\ offer # <<>> /\ data \in Seq(Span) /\ 1 \in 1..Len(offer)
        /\ g \in Span
    BY DEF OfferData, FlowInv, TypeOK
  <1>2. /\ offer' = <<>> /\ (data' = d \/ data' = data)
        /\ UNCHANGED <<closed, mapped, outq, wire, wvars, recv_buf, recv_buf_size,
                       total_recv_bytes, rpc, listed>>
    BY DEF OfferData
  <1>3. d \in Seq(Span)
    BY <1>1, AppendElements
  <1>4. /\ \A j \in 1..Len(data) : Live(g) /\ Live(data[j]) => data[j].hi <= g.lo
        /\ \A j \in 1..Len(wire["w"]) : Live(g) /\ Live(wire["w"][j]) => g.hi <= wire["w"][j].lo
        /\ \A j \in 1..Len(outq["w"]) : Live(g) /\ Live(outq["w"][j]) => g.hi <= outq["w"][j].lo
        /\ g.lo <= g.hi /\ (Live(g) => recv_buf.hi <= g.lo /\ g.hi <= Sent)
    BY <1>1 DEF FlowInv, DataOrder, Precedes, Within
  <1>5. /\ Sorted(d) /\ Precedes(d, wire["w"]) /\ Precedes(d, outq["w"])
        /\ Within(d, recv_buf.hi, Sent)
    BY <1>1, <1>4, AppendSorted, AppendPrecedes, AppendWithin DEF FlowInv, DataOrder
  <1>6. /\ <<>> \in Seq(Span) /\ Len(<<>>) = 0 /\ \A x : Precedes(<<>>, x) /\ Precedes(x, <<>>)
        /\ \A a, b : Within(<<>>, a, b)
    <2>1. <<>> \in Seq(Span) /\ Len(<<>>) = 0
      OBVIOUS
    <2> QED BY <2>1 DEF Precedes, Within
  <1>7. TypeOK'
    BY <1>2, <1>3, <1>6 DEF FlowInv, TypeOK, wvars
  <1>8. CreditOnce' /\ WriterFlow'
    BY <1>2 DEF FlowInv, CreditOnce, WriterFlow, Applied, Reported, wvars
  <1>9. DataOrder'
    <2> HIDE DEF d
    <2>1. Len(offer') <= 1 /\ Sent' = Sent
      BY <1>2, <1>6 DEF Sent, wvars
    <2>2. CASE data' = d
      BY <1>2, <1>5, <1>6, <2>1, <2>2 DEF FlowInv, DataOrder
    <2>3. CASE data' = data
      BY <1>2, <1>6, <2>1, <2>3 DEF FlowInv, DataOrder
    <2> QED BY <1>2, <2>2, <2>3
  <1> QED BY <1>7, <1>8, <1>9 DEF FlowInv

\* The writing end applies a credit, or drops it with the stream.
LEMMA UpdateSendWindowFlow ==
  ASSUME FlowInv, UpdateSendWindow
  PROVE  FlowInv'
  <1> USE StreamAssumption
  <1> DEFINE w == wire["r"]
             f == Head(w)
  <1>1. w \in Seq(Frame) /\ w # <<>> /\ f.t = "WIN" /\ outq["r"] \in Seq(Frame)
    BY DEF UpdateSendWindow, FlowInv, TypeOK, Ends
  <1>2. Tail(w) \in Seq(Frame) /\ f \in Frame /\ 1 \in 1..Len(w) /\ f = w[1]
    BY <1>1, TailElements
  <1>3. f.lo \in Nat /\ f.hi \in Nat /\ Size(f) = f.hi - f.lo /\ MinReport <= Size(f) /\ Live(f)
    BY <1>1, <1>2 DEF FlowInv, CreditOnce, WorthReporting, Frame, Size, Live
  <1>4. /\ wire' = [wire EXCEPT !["r"] = Tail(w)]
        /\ \/ send_buf_window' = send_buf_window + Size(f)
           \/ send_buf_window' = send_buf_window
        /\ Wake \/ UNCHANGED <<waker, wpc, notified>>
        /\ UNCHANGED <<closed, mapped, outq, total_send_bytes, queued, rvars, listed>>
    BY DEF UpdateSendWindow
  <1>5. /\ wpc' \in WriterStates /\ waker' \in BOOLEAN /\ notified' \in BOOLEAN
        /\ wpc' = wpc \/ (wpc = "parked" /\ wpc' = "ready")
    BY <1>4, WakeEffect DEF FlowInv, TypeOK
  <1>6. wire'["r"] = Tail(w) /\ wire'["w"] = wire["w"]
    BY <1>4 DEF FlowInv, TypeOK, Ends
  <1>7. send_buf_window' \in Int /\ send_buf_window <= send_buf_window'
    <2>1. send_buf_window \in Int /\ Size(f) \in Nat
      BY <1>3 DEF FlowInv, TypeOK
    <2> QED BY <1>4, <2>1
  <1>8. TypeOK'
    <2>1. wire' \in [Ends -> Seq(Frame)]
      BY <1>2, <1>4 DEF FlowInv, TypeOK
    <2> QED BY <1>4, <1>5, <1>7, <2>1 DEF FlowInv, TypeOK, rvars
  <1>9. WriterFlow'
    <2>1. queued' = queued /\ queued \in Nat /\ send_buf_window \in Int
      BY <1>4 DEF FlowInv, TypeOK
    <2>2. CASE wpc' = wpc
      <3>1. WriterFlow
        BY DEF FlowInv
      <3>2. -Chunk <= send_buf_window'
        BY <1>7, <2>1, <3>1 DEF WriterFlow
      <3>3. wpc' = "passed" => 0 <= send_buf_window'
        BY <1>7, <2>1, <2>2, <3>1 DEF WriterFlow
      <3>4. ASSUME wpc' = "queued"
            PROVE  0 < queued' /\ queued' <= send_buf_window' + Chunk
        <4>1. 0 < queued /\ queued <= send_buf_window + Chunk /\ Chunk \in Nat
          BY <2>2, <3>1, <3>4 DEF WriterFlow
        <4>2. send_buf_window' \in Int
          BY <1>7
        <4>3. send_buf_window <= send_buf_window'
          BY <1>7
        <4>4. \A i, j, k, l \in Int : i <= j + k /\ j <= l => i <= l + k
          OBVIOUS
        <4>5. queued <= send_buf_window' + Chunk
          <5>1. Chunk \in Int /\ queued \in Int /\ send_buf_window \in Int
            BY <2>1, <4>1
          <5> QED BY <4>1, <4>2, <4>3, <4>4, <5>1
        <4> QED BY <2>1, <4>1, <4>5
      <3> QED BY <2>1, <2>2, <3>1, <3>2, <3>3, <3>4 DEF WriterFlow
    <2>3. CASE wpc = "parked" /\ wpc' = "ready"
      BY <1>7, <2>1, <2>3 DEF FlowInv, WriterFlow
    <2> QED BY <1>5, <2>2, <2>3
  <1>10. DataOrder'
    BY <1>4, <1>6 DEF FlowInv, DataOrder, Sent, rvars
  <1>11. CreditOnce'
    <2>1. /\ Applied <= f.lo /\ f.hi <= Reported
          /\ Sorted(Tail(w)) /\ Precedes(Tail(w), outq["r"])
          /\ Within(Tail(w), Applied, Reported) /\ Within(outq["r"], Applied, Reported)
      BY <1>1, <1>3, TailSorted, TailPrecedes, TailWithin, FrameBounded DEF FlowInv, CreditOnce
    <2>2. Within(Tail(w), f.hi, Reported) /\ Within(outq["r"], f.hi, Reported)
      BY <1>1, <1>3, HeadBounds DEF FlowInv, CreditOnce
    <2>3. WorthReporting(Tail(w)) /\ WorthReporting(outq["r"])
      <3>1. \A i \in 1..Len(Tail(w)) : i + 1 \in 1..Len(w) /\ Tail(w)[i] = w[i + 1]
        BY <1>1, TailElements
      <3> QED BY <3>1 DEF FlowInv, CreditOnce, WorthReporting
    <2>4. Reported' = Reported /\ Reported \in Int /\ Applied \in Int
      BY <1>4 DEF Reported, Applied, rvars, FlowInv, TypeOK
    <2>5. Applied' \in Int /\ 0 <= Applied' /\ (Applied' = Applied \/ Applied' <= f.hi)
      <3>1. /\ send_buf_window \in Int /\ total_send_bytes \in Nat
            /\ total_send_bytes' = total_send_bytes /\ 0 <= Applied
        BY <1>4 DEF FlowInv, TypeOK, CreditOnce
      <3>2. CASE send_buf_window' = send_buf_window
        BY <3>1, <3>2 DEF Applied
      <3>3. CASE send_buf_window' = send_buf_window + Size(f)
        <4>1. Applied' = Applied + Size(f)
          BY <1>3, <3>1, <3>3 DEF Applied
        <4> QED BY <1>3, <2>1, <2>4, <3>1, <4>1
      <3> QED BY <1>4, <3>2, <3>3
    <2>6. Within(Tail(w), Applied', Reported) /\ Within(outq["r"], Applied', Reported)
      <3>1. CASE Applied' = Applied
        BY <2>1, <3>1
      <3>2. CASE Applied' <= f.hi
        <4> DEFINE t == Tail(w)
        <4> HIDE DEF f, w, t
        <4>1. f.hi \in Int /\ Applied' \in Int /\ Reported \in Int
          BY <1>3, <2>4, <2>5
        <4>2. Within(Tail(w), Applied', Reported)
          <5>1. t \in Seq(Frame) /\ Within(t, f.hi, Reported)
            BY <1>2, <2>2 DEF t
          <5>2. Within(t, Applied', Reported)
            BY <3>2, <4>1, <5>1, WidenWithin, FrameBounded
          <5> QED BY <5>2 DEF t
        <4>3. Within(outq["r"], Applied', Reported)
          BY <1>1, <2>2, <3>2, <4>1, WidenWithin, FrameBounded
        <4> QED BY <4>2, <4>3
      <3> QED BY <2>5, <3>1, <3>2
    <2>7. Applied' <= Reported
      BY <1>3, <2>1, <2>4, <2>5 DEF FlowInv, CreditOnce
    <2> QED BY <1>4, <1>6, <2>1, <2>3, <2>4, <2>5, <2>6, <2>7 DEF FlowInv, CreditOnce
  <1> QED BY <1>8, <1>9, <1>10, <1>11 DEF FlowInv

\* Every step preserves the invariant.
LEMMA FlowStep == FlowInv /\ [Next]_vars => FlowInv'
  <1> SUFFICES ASSUME FlowInv, [Next]_vars PROVE FlowInv'
    OBVIOUS
  <1>1. CASE WriterStep
    BY <1>1, WriterFlowStep
  <1>2. CASE ReaderStep
    BY <1>2, ReaderFlowStep
  <1>3. CASE EventStep
    BY <1>3, ForwardFlow, RecvFinFlow, RecvDataFlow, OfferDataFlow, UpdateSendWindowFlow
       DEF EventStep
  <1>4. CASE Retire \/ UNCHANGED vars
    <2>1. /\ UNCHANGED <<closed, mapped, outq, wire, wvars, rvars>>
          /\ listed' = FALSE \/ listed' = listed
      BY <1>4 DEF Retire, vars
    <2>2. TypeOK' /\ WriterFlow'
      BY <2>1 DEF FlowInv, TypeOK, WriterFlow, wvars, rvars
    <2>3. CreditOnce' /\ DataOrder'
      BY <2>1 DEF FlowInv, CreditOnce, DataOrder, Applied, Reported, Sent, wvars, rvars
    <2> QED BY <2>2, <2>3 DEF FlowInv
  <1> QED BY <1>1, <1>2, <1>3, <1>4 DEF Next

\* Credits are exact, poll_write keeps its checks and bytes keep their order,
\* in every state of every stream, whatever the window and the queue sizes.
THEOREM FlowCorrect == Spec => []FlowInv
  <1>1. Init => FlowInv
    BY FlowInit
  <1>2. FlowInv /\ [Next]_vars => FlowInv'
    BY FlowStep
  <1> QED BY <1>1, <1>2, PTL DEF Spec

\* The variables keep their types (MuxStreamState's counters included).
THEOREM TypeCorrect == Spec => []TypeOK
  <1>1. FlowInv => TypeOK
    BY DEF FlowInv
  <1> QED BY <1>1, FlowCorrect, PTL

\* What FlowInv says of the counters of the two ends.
LEMMA FlowBounds ==
  FlowInv => BufferBound /\ WindowRange /\ total_recv_bytes <= Sent
  <1> SUFFICES ASSUME FlowInv PROVE BufferBound /\ WindowRange /\ total_recv_bytes <= Sent
    OBVIOUS
  <1> USE StreamAssumption
  <1>1. total_recv_bytes <= Sent
    BY DEF FlowInv, TypeOK, DataOrder, Sent, Span
  <1>2. BufferBound
    BY DEF FlowInv, TypeOK, CreditOnce, WriterFlow, BufferBound, Applied, Reported, Sent
  <1>3. WindowRange
    BY <1>1 DEF FlowInv, TypeOK, CreditOnce, WriterFlow, WindowRange, Applied, Reported, Sent
  <1> QED BY <1>1, <1>2, <1>3

\* The bytes of a stream between its two relays never exceed the send window
\* and one write, for every window, report threshold and buffer size.
THEOREM BufferBounded == Spec => []BufferBound
  BY FlowBounds, FlowCorrect, PTL

\* The send window stays within -Chunk .. Window, but for the write that is
\* queued and not yet counted.
THEOREM WindowInRange == Spec => []WindowRange
  BY FlowBounds, FlowCorrect, PTL

-----------------------------------------------------------------------------
(* Wake-ups.                                                                *)

\* A parked writer left its waker behind.
ParkedHasWaker == wpc = "parked" => waker

\* It does in every reachable state.
LEMMA ParkedStored == Spec => []ParkedHasWaker
  <1>1. Init => ParkedHasWaker
    BY DEF Init, ParkedHasWaker
  <1>2. ParkedHasWaker /\ [Next]_vars => ParkedHasWaker'
    <2> SUFFICES ASSUME ParkedHasWaker, [Next]_vars PROVE ParkedHasWaker'
      OBVIOUS
    <2>1. CASE WriterStep
      BY <2>1 DEF WriterStep, WriteClosed, CheckWindow, StoreWaker, QueueFull, Write, Account,
         Shutdown, OtherHalfWakes, CloseWriter, ParkedHasWaker
    <2>2. CASE ReaderStep
      <3>1. UNCHANGED <<wpc, waker>>
        BY <2>2 DEF ReaderStep, Split, ConnectFail, ReadClosed, ReadRest, ReadNext,
           LocalWriteFails, OtherHalfShutdown, CloseReader, wvars
      <3> QED BY <3>1 DEF ParkedHasWaker
    <2>3. CASE EventStep
      <3>1. Wake \/ UNCHANGED <<wpc, waker>>
        BY <2>3 DEF EventStep, Forward, RecvFin, HandleFin, RecvData, OfferData,
           UpdateSendWindow, wvars
      <3> QED BY <3>1 DEF ParkedHasWaker, Wake
    <2>4. CASE Retire \/ UNCHANGED vars
      BY <2>4 DEF Retire, vars, wvars, ParkedHasWaker
    <2> QED BY <2>1, <2>2, <2>3, <2>4 DEF Next
  <1> QED BY <1>1, <1>2, PTL DEF Spec

\* update_send_window and close() never leave a parked writer asleep for
\* nothing, whatever the sizes: only a waker stored after a stale check does.
\* It rests on Chunk < MinReport: a credit reopens any window that blocks.
THEOREM WakeupsNotLost == Spec => WakeupLostOnlyByStaleCheck
  <1>1. FlowInv /\ ParkedHasWaker /\ [Next]_vars
          => [AsleepForNothing' => AsleepForNothing \/ wpc = "checked"]_vars
    <2> SUFFICES ASSUME FlowInv, ParkedHasWaker, [Next]_vars,
                        wpc' = "parked", send_buf_window' >= 0 \/ closed'["w"],
                        wpc # "checked"
                 PROVE  AsleepForNothing
      BY DEF AsleepForNothing
    <2> USE StreamAssumption
    <2>1. CASE WriterStep
      BY <2>1 DEF WriterStep, WriteClosed, CheckWindow, StoreWaker, QueueFull, Write, Account,
         Shutdown, OtherHalfWakes, CloseWriter, AsleepForNothing, FlowInv, TypeOK
    <2>2. CASE ReaderStep
      <3>1. UNCHANGED <<wpc, send_buf_window>> /\ closed'["w"] = closed["w"]
        BY <2>2 DEF ReaderStep, Split, ConnectFail, ReadClosed, ReadRest, ReadNext,
           LocalWriteFails, OtherHalfShutdown, CloseReader, wvars, FlowInv, TypeOK, Ends
      <3> QED BY <3>1 DEF AsleepForNothing
    <2>3. ASSUME NEW e \in Ends, Forward(e) \/ RecvFin(e)
          PROVE  AsleepForNothing
      <3>1. /\ send_buf_window' = send_buf_window
            /\ \/ Wake
               \/ wpc' = wpc /\ closed'["w"] = closed["w"]
        BY <2>3 DEF Forward, RecvFin, HandleFin, FlowInv, TypeOK, Ends
      <3> QED BY <3>1 DEF Wake, ParkedHasWaker, AsleepForNothing
    <2>4. CASE RecvData \/ OfferData
      <3>1. UNCHANGED <<wpc, send_buf_window, closed>>
        BY <2>4 DEF RecvData, OfferData, wvars
      <3> QED BY <3>1 DEF AsleepForNothing
    <2>5. CASE UpdateSendWindow
      <3> DEFINE f == Head(wire["r"])
      <3>1. wpc = "parked" /\ waker
        BY <2>5 DEF UpdateSendWindow, Wake, ParkedHasWaker
      <3>2. MinReport <= Size(f) /\ Size(f) \in Int
        <4>1. wire["r"] \in Seq(Frame) /\ wire["r"] # <<>> /\ f.t = "WIN"
          BY <2>5 DEF UpdateSendWindow, FlowInv, TypeOK, Ends
        <4>2. f \in Frame /\ 1 \in 1..Len(wire["r"]) /\ f = wire["r"][1]
          BY <4>1, TailElements
        <4> QED BY <4>1, <4>2 DEF FlowInv, CreditOnce, WorthReporting, Frame, Size
      <3>3. CASE mapped["w"]
        <4>1. send_buf_window' = send_buf_window + Size(f)
          BY <2>5, <3>3 DEF UpdateSendWindow
        <4>2. send_buf_window' > 0
          BY <3>2, <4>1 DEF FlowInv, TypeOK, WriterFlow
        <4>3. Wake
          BY <2>5, <3>3, <4>2 DEF UpdateSendWindow
        <4> QED BY <3>1, <4>3 DEF Wake
      <3>4. CASE ~mapped["w"]
        BY <2>5, <3>1, <3>4 DEF UpdateSendWindow, AsleepForNothing
      <3> QED BY <3>3, <3>4
    <2>6. CASE Retire \/ UNCHANGED vars
      BY <2>6 DEF Retire, vars, wvars, AsleepForNothing
    <2> QED BY <2>1, <2>2, <2>3, <2>4, <2>5, <2>6 DEF Next, EventStep
  <1> QED BY <1>1, FlowCorrect, ParkedStored, PTL DEF Spec, WakeupLostOnlyByStaleCheck

-----------------------------------------------------------------------------
(* Refinement.                                                              *)

\* One direction of a stream implements the bounded pipe: what was accepted is
\* handed over in number and order, within the bound, and not after a close.
THEOREM StreamIsPipe == Spec => ImplementsPipe
  <1> DEFINE open == ~closed["r"] /\ rpc \in {"connecting", "open"}
  <1>1. Init => Pipe!PipeInit
    BY DEF Init, Pipe!PipeInit, Sent, Ends
  <1>2. FlowInv' => BufferBound' /\ (total_recv_bytes <= Sent)'
    BY FlowBounds, PTL
  <1>3. FlowInv /\ FlowInv' /\ [Next]_vars => [Pipe!PipeNext]_(Pipe!pvars)
    <2> SUFFICES ASSUME FlowInv, FlowInv', [Next]_vars
                 PROVE  Pipe!PipeNext \/ UNCHANGED Pipe!pvars
      OBVIOUS
    <2>0. ASSUME Sent' = Sent, total_recv_bytes' = total_recv_bytes, open' => open
          PROVE  Pipe!PipeNext \/ UNCHANGED Pipe!pvars
      BY <2>0 DEF Pipe!PipeNext, Pipe!Close, Pipe!pvars
    <2>1. CASE WriterStep
      <3>1. ASSUME NEW n \in 1..Peek, Write(n)
            PROVE  Pipe!Accept
        <4>1. Sent' = Sent + n /\ Sent \in Nat
          BY <3>1 DEF Write, Sent, FlowInv, TypeOK, WriterFlow
        <4>2. UNCHANGED <<total_recv_bytes, closed, rpc>>
          BY <3>1 DEF Write, rvars
        <4>3. BufferBound'
          BY <1>2
        <4> QED BY <4>1, <4>2, <4>3 DEF Pipe!Accept, BufferBound
      <3>2. CASE ~ \E n \in 1..Peek : Write(n)
        <4>1. UNCHANGED <<total_recv_bytes, rpc>> /\ closed'["r"] = closed["r"]
          BY <2>1, <3>2 DEF WriterStep, WriteClosed, CheckWindow, StoreWaker, QueueFull, Account,
             Shutdown, OtherHalfWakes, CloseWriter, rvars, FlowInv, TypeOK, Ends
        <4>2. Sent' = Sent
          <5>1. CASE Account
            BY <5>1 DEF Account, FlowInv, TypeOK, Sent
          <5>2. CASE ~Account
            BY <2>1, <3>2, <5>2 DEF WriterStep, WriteClosed, CheckWindow, StoreWaker, QueueFull,
               Shutdown, OtherHalfWakes, CloseWriter, Sent
          <5> QED BY <5>1, <5>2
        <4> QED BY <2>0, <4>1, <4>2
      <3> QED BY <3>1, <3>2 DEF Pipe!PipeNext
    <2>2. ASSUME NEW n \in Nat \ {0}, total_recv_bytes' = total_recv_bytes + n, open, open',
                 UNCHANGED wvars
          PROVE  Pipe!HandOver
      <3>1. Sent' = Sent
        BY <2>2 DEF Sent, wvars
      <3>2. total_recv_bytes' <= Sent
        BY <1>2, <3>1
      <3> QED BY <2>2, <3>1, <3>2 DEF Pipe!HandOver, FlowInv, TypeOK
    <2>3. CASE ReadRest
      <3>1. CASE Size(recv_buf) > Chunk
        BY <2>0, <2>3, <3>1 DEF ReadRest, Sent, wvars
      <3>2. CASE ~(Size(recv_buf) > Chunk)
        <4>1. Size(recv_buf) \in Nat \ {0}
          <5>1. recv_buf.lo \in Nat /\ recv_buf.hi \in Nat /\ Size(recv_buf) > 0
            BY <2>3 DEF ReadRest, FlowInv, TypeOK, Span
          <5>2. recv_buf.hi - recv_buf.lo \in Int
            BY <5>1
          <5> QED BY <5>1, <5>2 DEF Size
        <4>2. total_recv_bytes' = total_recv_bytes + Size(recv_buf) /\ open /\ open' /\ UNCHANGED wvars
          BY <2>3, <3>2 DEF ReadRest, IncRecvBufWindow
        <4> QED BY <2>2, <4>1, <4>2 DEF Pipe!PipeNext
      <3> QED BY <3>1, <3>2
    <2>4. CASE ReadNext
      <3> DEFINE b == Head(data)
                 n == IF Size(b) > Chunk THEN Chunk ELSE Size(b)
      <3>1. n \in Nat
        <4>1. data \in Seq(Span) /\ data # <<>>
          BY <2>4 DEF ReadNext, FlowInv, TypeOK
        <4>2. b \in Span /\ b.lo <= b.hi
          BY <4>1, TailElements, TailWithin DEF FlowInv, DataOrder
        <4> QED BY <4>2, StreamAssumption DEF Size, Span
      <3>2. CASE n = 0
        <4>1. UNCHANGED <<total_recv_bytes, wvars>> /\ rpc' = "done"
          BY <2>4, <3>2 DEF ReadNext
        <4> QED BY <2>0, <4>1 DEF Sent, wvars
      <3>3. CASE n # 0
        <4>1. total_recv_bytes' = total_recv_bytes + n /\ open /\ open' /\ UNCHANGED wvars
          BY <2>4, <3>3 DEF ReadNext, IncRecvBufWindow
        <4> QED BY <2>2, <3>1, <3>3, <4>1 DEF Pipe!PipeNext
      <3> QED BY <3>2, <3>3
    <2>5. CASE \/ Split \/ ConnectFail \/ ReadClosed \/ LocalWriteFails
               \/ OtherHalfShutdown \/ CloseReader
      <3>1. UNCHANGED <<total_recv_bytes, wvars>> /\ (open' => open)
        BY <2>5 DEF Split, ConnectFail, ReadClosed, LocalWriteFails, OtherHalfShutdown,
           CloseReader, rvars, FlowInv, TypeOK, Ends
      <3> QED BY <2>0, <3>1 DEF Sent, wvars
    <2>6. CASE EventStep
      <3>1. UNCHANGED <<total_recv_bytes, total_send_bytes, queued, rpc>>
        BY <2>6 DEF EventStep, Forward, RecvFin, RecvData, OfferData, UpdateSendWindow,
           rvars, wvars
      <3>2. closed'["r"] = FALSE => closed["r"] = FALSE
        BY <2>6 DEF EventStep, Forward, RecvFin, HandleFin, RecvData, OfferData,
           UpdateSendWindow, FlowInv, TypeOK, Ends
      <3> QED BY <2>0, <3>1, <3>2 DEF Sent, FlowInv, TypeOK, Ends
    <2>7. CASE Retire \/ UNCHANGED vars
      BY <2>0, <2>7 DEF Retire, vars, wvars, rvars, Sent
    <2> QED BY <2>1, <2>3, <2>4, <2>5, <2>6, <2>7 DEF Next, ReaderStep
  <1> QED BY <1>1, <1>3, FlowCorrect, PTL DEF Spec, ImplementsPipe, Pipe!PipeSpec

-----------------------------------------------------------------------------
(* No byte is lost while both ends have the stream: order alone (FlowInv)   *)
(* does not say that nothing is missing between two frames.                 *)

\* The elements of a queue.
Elems(q) == {q[i] : i \in 1..Len(q)}

\* The frames an end has sent or is about to send.
InFlight(e) == Elems(wire[e]) \cup Elems(outq[e])

\* An element of the set S has byte b.
Holds(S, b) == \E f \in S : f.lo <= b /\ b < f.hi

\* A FIN has no bytes and a DATA frame has some.
FinEmpty(S) == \A f \in S : f.t = "FIN" => ~Live(f)
DataLive(S) == \A f \in S : f.t = "DATA" => Live(f)
AllLive(S) == \A f \in S : Live(f)

\* Only the first frame of the stream is longer than the relay's buffer.
Short(S) == \A f \in S : f.lo > 0 => Size(f) <= Chunk

\* Every byte between the reader and the writer is in one of the four queues
\* a frame crosses, or in the rest of the frame being read.
BytesKept ==
    \A b \in Nat : total_recv_bytes <= b /\ b < Sent =>
        \/ recv_buf.lo <= b /\ b < recv_buf.hi
        \/ Holds(Elems(data), b) \/ Holds(Elems(offer), b)
        \/ Holds(InFlight("w"), b)

\* Every reported byte whose credit was not applied is in a frame on its way.
CreditKept ==
    \A b \in Nat : Applied <= b /\ b < Reported => Holds(InFlight("r"), b)

\* The shape of the frames on their way.
FramesInv ==
    /\ FinEmpty(InFlight("w")) /\ FinEmpty(InFlight("r"))
    /\ DataLive(InFlight("w")) /\ AllLive(Elems(offer))

\* The sizes of the frames on their way and of the rest of the one being read.
ShortInv ==
    /\ Short(Elems(data)) /\ Short(Elems(offer)) /\ Short(InFlight("w"))
    /\ Size(recv_buf) > 0 => recv_buf.lo = Chunk
    /\ rpc = "panic" => Size(recv_buf) > Chunk

\* The reading half is on and the map of its session has the stream.
Reading == rpc \in {"connecting", "open"} /\ mapped["r"]

\* The inductive invariant behind InOrder, PanicOnlyOnFirstFrame and
\* StallHasCause, on top of FlowInv.
KeptInv ==
    /\ FramesInv
    /\ ShortInv
    /\ ~mapped["r"] => closed["r"]
    /\ Reading => BytesKept /\ AllLive(Elems(data))
    /\ listed /\ mapped["w"] => CreditKept

\* The elements of the queues the actions build.
LEMMA ElemsOf ==
  /\ Elems(<<>>) = {}
  /\ \A g : Elems(<<g>>) = {g}
  <1>1. Len(<<>>) = 0 /\ \A g : Len(<<g>>) = 1 /\ <<g>>[1] = g
    OBVIOUS
  <1> QED BY <1>1 DEF Elems

\* Taking the first element of a queue takes it from its elements.
LEMMA ElemsTail ==
  ASSUME NEW T, NEW q \in Seq(T), q # <<>>
  PROVE  /\ Elems(q) = {Head(q)} \cup Elems(Tail(q))
         /\ Elems(q) \subseteq T
  <1>1. /\ Head(q) = q[1] /\ Len(q) \in Nat /\ 1 <= Len(q) /\ Len(Tail(q)) = Len(q) - 1
        /\ \A i \in 1..Len(Tail(q)) : Tail(q)[i] = q[i + 1]
    BY TailElements
  <1>2. ASSUME NEW i \in 1..Len(q)
        PROVE  q[i] \in {Head(q)} \cup Elems(Tail(q))
    <2>1. CASE i = 1
      BY <1>1, <2>1
    <2>2. CASE i # 1
      <3>1. i - 1 \in 1..Len(Tail(q)) /\ (i - 1) + 1 = i
        BY <1>1, <2>2
      <3>2. Tail(q)[i - 1] = q[i]
        BY <1>1, <3>1
      <3> QED BY <3>1, <3>2 DEF Elems
    <2> QED BY <2>1, <2>2
  <1>3. ASSUME NEW i \in 1..Len(Tail(q))
        PROVE  Tail(q)[i] \in Elems(q)
    <2>1. i + 1 \in 1..Len(q) /\ Tail(q)[i] = q[i + 1]
      BY <1>1
    <2> QED BY <2>1 DEF Elems
  <1>4. Head(q) \in Elems(q)
    <2>1. 1 \in 1..Len(q)
      BY <1>1
    <2> QED BY <1>1, <2>1 DEF Elems
  <1>5. Elems(q) \subseteq T
    BY DEF Elems
  <1>6. Elems(q) \subseteq {Head(q)} \cup Elems(Tail(q))
    BY <1>2 DEF Elems
  <1>7. Elems(Tail(q)) \subseteq Elems(q)
    BY <1>3 DEF Elems
  <1> QED BY <1>4, <1>5, <1>6, <1>7

\* Adding a last element adds it to the elements.
LEMMA ElemsAppend ==
  ASSUME NEW T, NEW q \in Seq(T), NEW f \in T
  PROVE  Elems(Append(q, f)) = Elems(q) \cup {f}
  <1>1. /\ Len(q) \in Nat /\ Len(Append(q, f)) = Len(q) + 1
        /\ \A i \in 1..Len(q) : Append(q, f)[i] = q[i]
        /\ Append(q, f)[Len(q) + 1] = f
    BY AppendElements
  <1>2. ASSUME NEW i \in 1..Len(Append(q, f))
        PROVE  Append(q, f)[i] \in Elems(q) \cup {f}
    <2>1. CASE i \in 1..Len(q)
      BY <1>1, <2>1 DEF Elems
    <2>2. CASE i = Len(q) + 1
      BY <1>1, <2>2
    <2> QED BY <1>1, <2>1, <2>2
  <1>3. ASSUME NEW i \in 1..Len(q)
        PROVE  q[i] \in Elems(Append(q, f))
    <2>1. i \in 1..Len(Append(q, f)) /\ Append(q, f)[i] = q[i]
      BY <1>1
    <2> QED BY <2>1 DEF Elems
  <1>4. f \in Elems(Append(q, f))
    <2>1. Len(q) + 1 \in 1..Len(Append(q, f))
      BY <1>1
    <2> QED BY <1>1, <2>1 DEF Elems
  <1>5. Elems(Append(q, f)) \subseteq Elems(q) \cup {f}
    BY <1>2 DEF Elems
  <1>6. Elems(q) \subseteq Elems(Append(q, f))
    BY <1>3 DEF Elems
  <1> QED BY <1>4, <1>5, <1>6

\* try_send(FIN) adds a FIN or nothing.
LEMMA ElemsTrySendFin ==
  ASSUME NEW q \in Seq(Frame), NEW p \in TrySendFin(q)
  PROVE  Elems(q) \subseteq Elems(p) /\ Elems(p) \subseteq Elems(q) \cup {NewFin}
  <1>1. NewFin \in Frame
    BY DEF NewFin, Frame
  <1>2. CASE p = q
    BY <1>2
  <1>3. CASE p = Append(q, NewFin)
    <2>1. Elems(p) = Elems(q) \cup {NewFin}
      BY <1>1, <1>3, ElemsAppend
    <2> QED BY <2>1
  <1> QED BY <1>2, <1>3 DEF TrySendFin

\* The elements of typed queues have the type of the queue.
LEMMA ElemsTyped ==
  ASSUME TypeOK
  PROVE  /\ \A e \in Ends : InFlight(e) \subseteq Frame
         /\ Elems(data) \subseteq Span /\ Elems(offer) \subseteq Span
  <1>1. ASSUME NEW T, NEW q \in Seq(T) PROVE Elems(q) \subseteq T
    BY DEF Elems
  <1>2. /\ \A e \in Ends : wire[e] \in Seq(Frame) /\ outq[e] \in Seq(Frame)
        /\ data \in Seq(Span) /\ offer \in Seq(Span)
    BY DEF TypeOK
  <1> QED BY <1>1, <1>2 DEF InFlight

\* What is on its way at end e changes by FINs only.
OnlyFins(e) ==
    /\ InFlight(e)' \subseteq InFlight(e) \cup {NewFin}
    /\ \A f \in InFlight(e) : f.t = "FIN" \/ f \in InFlight(e)'

\* A step that hands no byte on keeps the invariant: it only moves frames
\* towards the other end, adds or takes FINs, or ends a half.
LEMMA KeptWithoutBytes ==
  ASSUME FlowInv, KeptInv, OnlyFins("w"), OnlyFins("r"),
         UNCHANGED <<offer, recv_buf, total_recv_bytes>>,
         Sent' = Sent, Applied' = Applied, Reported' = Reported,
         Reading' => Reading /\ data' = data,
         Elems(data') \subseteq Elems(data) \cup {EmptySpan(0)},
         listed' => listed, mapped'["w"] => mapped["w"],
         ~mapped'["r"] => closed'["r"],
         rpc' = "panic" => Size(recv_buf) > Chunk \/ rpc = "panic"
  PROVE  KeptInv'
  <1>1. NewFin.t = "FIN" /\ NewFin.lo = 0 /\ NewFin.hi = 0 /\ ~Live(NewFin) /\ ~(NewFin.lo > 0)
    BY DEF NewFin, Live
  <1>2. ASSUME NEW e \in Ends, OnlyFins(e), FinEmpty(InFlight(e)),
               NEW b \in Nat, Holds(InFlight(e), b)
        PROVE  Holds(InFlight(e)', b)
    <2>1. PICK f \in InFlight(e) : f.lo <= b /\ b < f.hi
      BY <1>2 DEF Holds
    <2>2. f.lo \in Nat /\ f.hi \in Nat
      BY ElemsTyped DEF Frame, FlowInv
    <2>3. f.t # "FIN"
      BY <1>2, <2>1, <2>2 DEF FinEmpty, Live
    <2>4. f \in InFlight(e)'
      BY <1>2, <2>3 DEF OnlyFins
    <2> QED BY <2>1, <2>4 DEF Holds
  <1>3. FramesInv'
    <2>1. FinEmpty(InFlight("w"))' /\ FinEmpty(InFlight("r"))' /\ DataLive(InFlight("w"))'
      BY <1>1 DEF KeptInv, FramesInv, OnlyFins, FinEmpty, DataLive
    <2> QED BY <2>1 DEF KeptInv, FramesInv
  <1>4. ShortInv'
    <2>1. Short(InFlight("w"))'
      BY <1>1 DEF KeptInv, ShortInv, OnlyFins, Short
    <2>2. Short(Elems(data))'
      <3>1. ~(EmptySpan(0).lo > 0)
        BY DEF EmptySpan
      <3> QED BY <3>1 DEF KeptInv, ShortInv, Short
    <2> QED BY <2>1, <2>2 DEF KeptInv, ShortInv
  <1>5. ASSUME Reading' PROVE BytesKept' /\ AllLive(Elems(data))'
    <2>1. Reading /\ data' = data
      BY <1>5
    <2>2. BytesKept'
      <3>1. SUFFICES ASSUME NEW b \in Nat, total_recv_bytes <= b, b < Sent
                     PROVE  \/ recv_buf.lo <= b /\ b < recv_buf.hi
                            \/ Holds(Elems(data), b) \/ Holds(Elems(offer), b)
                            \/ Holds(InFlight("w")', b)
        BY <2>1 DEF BytesKept
      <3>2. Holds(InFlight("w"), b) => Holds(InFlight("w")', b)
        BY <1>2 DEF KeptInv, FramesInv, Ends
      <3> QED BY <2>1, <3>1, <3>2 DEF KeptInv, BytesKept
    <2> QED BY <2>1, <2>2 DEF KeptInv
  <1>6. ASSUME listed', mapped'["w"] PROVE CreditKept'
    <2>1. SUFFICES ASSUME NEW b \in Nat, Applied <= b, b < Reported
                   PROVE  Holds(InFlight("r")', b)
      BY DEF CreditKept
    <2>2. Holds(InFlight("r"), b)
      BY <1>6, <2>1 DEF KeptInv, CreditKept
    <2> QED BY <1>2, <2>2 DEF KeptInv, FramesInv, Ends
  <1> QED BY <1>3, <1>4, <1>5, <1>6 DEF KeptInv

\* The bytes handed over next are the first ones not yet handed over, while
\* the stream is open: what FlowInv and KeptInv say together.
LEMMA KeptInOrder ==
  ASSUME FlowInv, KeptInv
  PROVE  InOrder
  <1> SUFFICES ASSUME rpc = "open", ~closed["r"]
               PROVE  /\ Size(recv_buf) > 0 => recv_buf.lo = total_recv_bytes
                      /\ Size(recv_buf) = 0 /\ data # <<>> => Head(data).lo = total_recv_bytes
    BY DEF InOrder
  <1>1. BytesKept /\ AllLive(Elems(data))
    BY DEF KeptInv, Reading
  <1>2. /\ total_recv_bytes \in Nat /\ recv_buf.lo \in Nat /\ recv_buf.hi \in Nat /\ Sent \in Nat
        /\ Size(recv_buf) = recv_buf.hi - recv_buf.lo
        /\ total_recv_bytes <= recv_buf.lo /\ recv_buf.lo <= recv_buf.hi /\ recv_buf.hi <= Sent
    BY DEF FlowInv, TypeOK, DataOrder, Span, Sent, Size
  <1>3. ASSUME NEW c \in Nat, total_recv_bytes < c, c <= Sent, c <= recv_buf.lo \/ Size(recv_buf) = 0,
               \A S \in {Elems(data), Elems(offer), InFlight("w")} :
                  \A f \in S : Live(f) => c <= f.lo
        PROVE  FALSE
    <2>1. \/ recv_buf.lo <= total_recv_bytes /\ total_recv_bytes < recv_buf.hi
          \/ \E S \in {Elems(data), Elems(offer), InFlight("w")} : Holds(S, total_recv_bytes)
      BY <1>1, <1>2, <1>3 DEF BytesKept
    <2>2. CASE recv_buf.lo <= total_recv_bytes /\ total_recv_bytes < recv_buf.hi
      BY <1>2, <1>3, <2>2
    <2>3. ASSUME NEW S \in {Elems(data), Elems(offer), InFlight("w")}, Holds(S, total_recv_bytes)
          PROVE  FALSE
      <3>1. PICK f \in S : f.lo <= total_recv_bytes /\ total_recv_bytes < f.hi
        BY <2>3 DEF Holds
      <3>2. f.lo \in Nat /\ f.hi \in Nat
        BY <2>3, ElemsTyped DEF FlowInv, Frame, Span, Ends
      <3>3. Live(f)
        BY <1>2, <3>1, <3>2 DEF Live
      <3> QED BY <1>2, <1>3, <3>1, <3>2, <3>3
    <2> QED BY <2>1, <2>2, <2>3
  <1>4. \A S \in {Elems(data), Elems(offer), InFlight("w")} :
           \A f \in S : Live(f) => recv_buf.hi <= f.lo
    BY DEF FlowInv, DataOrder, Within, Elems, InFlight
  <1>5. ASSUME Size(recv_buf) > 0, total_recv_bytes < recv_buf.lo PROVE FALSE
    <2>1. \A S \in {Elems(data), Elems(offer), InFlight("w")} :
             \A f \in S : Live(f) => recv_buf.lo <= f.lo
      <3>1. ASSUME NEW S \in {Elems(data), Elems(offer), InFlight("w")}, NEW f \in S, Live(f)
            PROVE  recv_buf.lo <= f.lo
        <4>1. f.lo \in Nat
          BY <3>1, ElemsTyped DEF FlowInv, Frame, Span, Ends
        <4>2. recv_buf.hi <= f.lo
          BY <1>4, <3>1
        <4> QED BY <1>2, <4>1, <4>2
      <3> QED BY <3>1
    <2> QED BY <1>2, <1>3, <1>5, <2>1
  <1>6. ASSUME Size(recv_buf) = 0, data # <<>>, total_recv_bytes # Head(data).lo PROVE FALSE
    <2> DEFINE h == Head(data)
    <2>1. /\ data \in Seq(Span) /\ h \in Span /\ h = data[1] /\ 1 \in 1..Len(data)
          /\ h \in Elems(data) /\ h.lo \in Nat /\ h.hi \in Nat
      <3>1. data \in Seq(Span)
        BY DEF FlowInv, TypeOK
      <3>2. h \in Span /\ h = data[1] /\ 1 \in 1..Len(data)
        BY <1>6, <3>1, TailElements
      <3>3. h \in Elems(data)
        BY <1>6, <3>1, ElemsTail
      <3>4. h.lo \in Nat /\ h.hi \in Nat
        BY <3>2 DEF Span
      <3> QED BY <3>1, <3>2, <3>3, <3>4
    <2>2. Live(h) /\ recv_buf.hi <= h.lo /\ h.hi <= Sent
      BY <1>1, <2>1 DEF AllLive, FlowInv, DataOrder, Within
    <2>3. \A f \in Elems(data) : Live(f) => f = h \/ h.hi <= f.lo
      <3>1. ASSUME NEW i \in 1..Len(data), Live(data[i])
            PROVE  data[i] = h \/ h.hi <= data[i].lo
        <4>1. CASE i = 1
          BY <2>1, <4>1
        <4>2. CASE 1 < i
          BY <2>1, <2>2, <3>1, <4>2 DEF FlowInv, DataOrder, Sorted
        <4> QED BY <4>1, <4>2
      <3> QED BY <3>1 DEF Elems
    <2>4. \A f \in Elems(offer) \cup InFlight("w") : Live(f) => h.hi <= f.lo
      BY <2>1, <2>2 DEF FlowInv, DataOrder, Precedes, Elems, InFlight
    <2>5. \A S \in {Elems(data), Elems(offer), InFlight("w")} :
             \A f \in S : Live(f) => h.lo <= f.lo
      <3>1. ASSUME NEW S \in {Elems(data), Elems(offer), InFlight("w")}, NEW f \in S, Live(f)
            PROVE  h.lo <= f.lo
        <4>1. f.lo \in Nat
          BY <3>1, ElemsTyped DEF FlowInv, Frame, Span, Ends
        <4>2. f = h \/ h.hi <= f.lo
          BY <2>3, <2>4, <3>1
        <4> QED BY <2>1, <2>2, <4>1, <4>2 DEF Live
      <3> QED BY <3>1
    <2>6. total_recv_bytes < h.lo /\ h.lo <= Sent
      BY <1>2, <1>6, <2>1, <2>2 DEF Live
    <2> QED BY <1>3, <1>6, <2>1, <2>5, <2>6
  <1> QED BY <1>2, <1>5, <1>6

\* The writing half: Write adds the bytes it counts as sent, the other steps
\* add a FIN at most.
LEMMA WriterKept ==
  ASSUME FlowInv, KeptInv, WriterStep
  PROVE  KeptInv'
  <1> USE StreamAssumption
  <1>0. outq["w"] \in Seq(Frame) /\ outq \in [Ends -> Seq(Frame)] /\ closed \in [Ends -> BOOLEAN]
    BY DEF FlowInv, TypeOK, Ends
  <1>1. ASSUME NEW n \in 1..Peek, Write(n)
        PROVE  KeptInv'
    <2> DEFINE f == NewData(Sent, n)
    <2>1. Sent \in Nat /\ f \in Frame /\ f.t = "DATA" /\ f.lo = Sent /\ f.hi = Sent + n /\ Live(f)
      BY DEF NewData, Frame, Sent, FlowInv, TypeOK, Live
    <2>2. /\ outq'["w"] = Append(outq["w"], f) /\ outq'["r"] = outq["r"]
          /\ UNCHANGED <<wire, data, offer, recv_buf, total_recv_bytes, recv_buf_size,
                         send_buf_window, total_send_bytes, rpc, mapped, closed, listed>>
          /\ queued = 0 /\ queued' = n /\ (Sent = 0 \/ n <= Chunk)
      BY <1>0, <1>1 DEF Write, rvars, Ends, FlowInv, WriterFlow
    <2>3. Sent' = Sent + n
      BY <2>2 DEF Sent, FlowInv, TypeOK
    <2>4. InFlight("w")' = InFlight("w") \cup {f} /\ InFlight("r")' = InFlight("r")
      BY <1>0, <2>1, <2>2, ElemsAppend DEF InFlight
    <2> HIDE DEF f
    <2>5. FramesInv'
      <3>1. FinEmpty(InFlight("w"))' /\ DataLive(InFlight("w"))'
        BY <2>1, <2>4 DEF KeptInv, FramesInv, FinEmpty, DataLive
      <3> QED BY <2>2, <2>4, <3>1 DEF KeptInv, FramesInv
    <2>6. ShortInv'
      <3>1. f.lo > 0 => Size(f) <= Chunk
        BY <2>1, <2>2 DEF Size
      <3>2. Short(InFlight("w"))'
        BY <2>4, <3>1 DEF KeptInv, ShortInv, Short
      <3> QED BY <2>2, <3>2 DEF KeptInv, ShortInv
    <2>7. ASSUME Reading PROVE BytesKept'
      <3>1. SUFFICES ASSUME NEW b \in Nat, total_recv_bytes <= b, b < Sent + n
                     PROVE  \/ recv_buf.lo <= b /\ b < recv_buf.hi
                            \/ Holds(Elems(data), b) \/ Holds(Elems(offer), b)
                            \/ Holds(InFlight("w") \cup {f}, b)
        BY <2>2, <2>3, <2>4 DEF BytesKept
      <3>2. CASE b < Sent
        BY <2>7, <3>1, <3>2 DEF KeptInv, BytesKept, Holds
      <3>3. CASE Sent <= b
        BY <2>1, <3>1, <3>3 DEF Holds
      <3> QED BY <2>1, <3>2, <3>3
    <2>8. Applied' = Applied /\ Reported' = Reported
      BY <2>2 DEF Applied, Reported
    <2> QED BY <2>2, <2>4, <2>5, <2>6, <2>7, <2>8 DEF KeptInv, Reading, CreditKept
  <1>2. CASE ~ \E n \in 1..Peek : Write(n)
    <2>1. /\ UNCHANGED <<wire, data, offer, recv_buf, total_recv_bytes, recv_buf_size,
                         rpc, mapped, listed>>
          /\ closed'["r"] = closed["r"]
      BY <1>0, <1>2 DEF WriterStep, WriteClosed, CheckWindow, StoreWaker, QueueFull, Account,
         Shutdown, OtherHalfWakes, CloseWriter, rvars, Ends
    <2>2. Sent' = Sent /\ Applied' = Applied /\ Reported' = Reported
      <3>1. CASE Account
        BY <3>1 DEF Account, FlowInv, TypeOK, Sent, Applied, Reported, rvars
      <3>2. CASE ~Account
        BY <1>2, <3>2 DEF WriterStep, WriteClosed, CheckWindow, StoreWaker, QueueFull,
           Shutdown, OtherHalfWakes, CloseWriter, Sent, Applied, Reported, rvars
      <3> QED BY <3>1, <3>2
    <2>3. \E p \in TrySendFin(outq["w"]) : outq'["w"] = p /\ outq'["r"] = outq["r"]
      <3>1. CASE CloseWriter
        BY <1>0, <3>1 DEF CloseWriter, Ends
      <3>2. CASE ~CloseWriter
        BY <1>2, <3>2 DEF WriterStep, WriteClosed, CheckWindow, StoreWaker, QueueFull, Account,
           Shutdown, OtherHalfWakes, TrySendFin
      <3> QED BY <3>1, <3>2
    <2>4. OnlyFins("w") /\ OnlyFins("r")
      BY <1>0, <2>1, <2>3, ElemsTrySendFin DEF OnlyFins, InFlight
    <2>5. Reading' => Reading /\ data' = data
      BY <2>1 DEF Reading
    <2> QED BY <2>1, <2>2, <2>4, <2>5, KeptWithoutBytes DEF KeptInv, ShortInv
  <1> QED BY <1>1, <1>2

\* What inc_recv_buf_window adds to the reports on their way: nothing, or the
\* bytes that are no longer unreported.
LEMMA IncRecvKept ==
  ASSUME FlowInv, KeptInv, NEW n \in Nat, IncRecvBufWindow(n),
         UNCHANGED <<send_buf_window, total_send_bytes, wire, listed, mapped>>
  PROVE  /\ InFlight("w")' = InFlight("w")
         /\ FinEmpty(InFlight("r"))'
         /\ listed /\ mapped["w"] => CreditKept'
  <1> USE StreamAssumption
  <1> DEFINE sz == recv_buf_size + n
             upto == total_recv_bytes + n
             q == outq["r"]
             f == NewWindowUpdate(upto - sz, upto)
  <1>1. /\ q \in Seq(Frame) /\ recv_buf_size \in Nat /\ total_recv_bytes \in Nat
        /\ Applied \in Int /\ Reported \in Int /\ sz \in Nat /\ upto \in Nat
        /\ outq \in [Ends -> Seq(Frame)]
    BY DEF FlowInv, TypeOK, Ends, Applied, Reported
  <1>2. PICK res \in Report(sz, upto) :
          outq' = [outq EXCEPT !["r"] = res[1]] /\ recv_buf_size' = res[2]
    BY DEF IncRecvBufWindow
  <1>3. total_recv_bytes' = upto /\ Applied' = Applied /\ wire' = wire
    BY DEF IncRecvBufWindow, Applied
  <1>4. \/ res[1] = q /\ res[2] = sz
        \/ res[1] = q /\ ~listed
        \/ res[1] = Append(q, f) /\ res[2] = 0
    <2>1. \/ res = <<q, sz>> \/ (res = <<q, 0>> /\ ~listed)
          \/ res = <<Append(q, f), 0>>
      BY <1>2 DEF Report
    <2> QED BY <2>1
  <1>5. upto - sz = Reported /\ Reported \in Nat
    BY <1>1 DEF Reported, FlowInv, CreditOnce
  <1>6. f \in Frame /\ f.lo = Reported /\ f.hi = upto /\ f.t = "WIN"
    BY <1>1, <1>5 DEF NewWindowUpdate, Frame
  <1> HIDE DEF f, sz, upto
  <1>7. outq'["r"] = res[1] /\ outq'["w"] = outq["w"]
    BY <1>1, <1>2 DEF Ends
  <1>8. InFlight("w")' = InFlight("w")
    BY <1>3, <1>7 DEF InFlight
  <1>9. CASE res[1] = q
    <2>1. InFlight("r")' = InFlight("r")
      BY <1>3, <1>7, <1>9 DEF InFlight
    <2>2. FinEmpty(InFlight("r"))'
      BY <2>1 DEF KeptInv, FramesInv
    <2>3. ASSUME res[2] = sz PROVE Reported' = Reported
      BY <1>1, <1>2, <1>3, <1>5, <2>3 DEF Reported
    <2>4. ASSUME listed, mapped["w"] PROVE CreditKept'
      <3>1. Reported' = Reported \/ res[1] = Append(q, f)
        BY <1>4, <2>3, <2>4
      <3>2. q # Append(q, f)
        <4>1. Len(Append(q, f)) = Len(q) + 1 /\ Len(q) \in Nat
          BY <1>1, <1>6, AppendElements
        <4> QED BY <4>1
      <3> QED BY <1>3, <1>9, <2>1, <2>4, <3>1, <3>2 DEF KeptInv, CreditKept
    <2> QED BY <1>8, <2>2, <2>4
  <1>10. CASE res[1] = Append(q, f) /\ res[2] = 0
    <2>1. InFlight("r")' = InFlight("r") \cup {f}
      BY <1>1, <1>3, <1>6, <1>7, <1>10, ElemsAppend DEF InFlight
    <2>2. FinEmpty(InFlight("r"))'
      BY <1>6, <2>1 DEF KeptInv, FramesInv, FinEmpty
    <2>3. Reported' = upto
      BY <1>1, <1>2, <1>3, <1>10 DEF Reported
    <2>4. ASSUME listed, mapped["w"] PROVE CreditKept'
      <3>1. SUFFICES ASSUME NEW b \in Nat, Applied <= b, b < upto
                     PROVE  Holds(InFlight("r") \cup {f}, b)
        BY <1>3, <2>1, <2>3 DEF CreditKept
      <3>2. CASE b < Reported
        BY <2>4, <3>1, <3>2 DEF KeptInv, CreditKept, Holds
      <3>3. CASE Reported <= b
        BY <1>6, <3>1, <3>3 DEF Holds
      <3> QED BY <1>5, <3>2, <3>3
    <2> QED BY <1>8, <2>2, <2>4
  <1> QED BY <1>4, <1>9, <1>10

\* The reading half: bytes leave a frame only to be handed over.
LEMMA ReaderKept ==
  ASSUME FlowInv, KeptInv, ReaderStep
  PROVE  KeptInv'
  <1> USE StreamAssumption
  <1>0. /\ outq["r"] \in Seq(Frame) /\ outq \in [Ends -> Seq(Frame)] /\ data \in Seq(Span)
        /\ closed \in [Ends -> BOOLEAN]
        /\ recv_buf.lo \in Nat /\ recv_buf.hi \in Nat /\ total_recv_bytes \in Nat /\ Sent \in Nat
        /\ Size(recv_buf) = recv_buf.hi - recv_buf.lo
        /\ recv_buf.lo <= recv_buf.hi /\ total_recv_bytes <= recv_buf.lo
    BY DEF FlowInv, TypeOK, DataOrder, Ends, Span, Sent, Size
  <1>1. ASSUME \E p \in TrySendFin(outq["r"]) : outq'["r"] = p, outq'["w"] = outq["w"],
               UNCHANGED <<wire, wvars, offer, recv_buf, recv_buf_size, total_recv_bytes,
                           listed, mapped>>,
               Reading' => Reading /\ data' = data,
               Elems(data') \subseteq Elems(data) \cup {EmptySpan(0)},
               ~mapped["r"] => closed'["r"],
               rpc' = "panic" => Size(recv_buf) > Chunk \/ rpc = "panic"
        PROVE  KeptInv'
    <2>1. OnlyFins("w") /\ OnlyFins("r")
      BY <1>0, <1>1, ElemsTrySendFin DEF OnlyFins, InFlight
    <2>2. Sent' = Sent /\ Applied' = Applied /\ Reported' = Reported
      BY <1>1 DEF Sent, Applied, Reported, wvars
    <2> QED BY <1>1, <2>1, <2>2, KeptWithoutBytes
  <1>2. CASE Split \/ LocalWriteFails \/ OtherHalfShutdown
    <2>1. /\ UNCHANGED <<outq, wire, wvars, data, offer, recv_buf, recv_buf_size,
                         total_recv_bytes, listed, mapped>>
          /\ closed["r"] => closed'["r"]
          /\ (rpc' = "open" /\ rpc = "connecting") \/ rpc' = "ended" \/ rpc' = rpc
      BY <1>0, <1>2 DEF Split, LocalWriteFails, OtherHalfShutdown, rvars, Ends
    <2>2. outq["r"] \in TrySendFin(outq["r"])
      BY DEF TrySendFin
    <2> QED BY <1>1, <2>1, <2>2 DEF Reading, KeptInv
  <1>3. CASE ConnectFail
    <2>1. /\ \E p \in TrySendFin(outq["r"]) : outq'["r"] = p
          /\ outq'["w"] = outq["w"] /\ rpc' = "failed" /\ closed'["r"]
          /\ UNCHANGED <<wire, wvars, offer, recv_buf, recv_buf_size, total_recv_bytes,
                         listed, mapped>>
          /\ data' = data \/ data' = <<EmptySpan(0)>>
      BY <1>0, <1>3 DEF ConnectFail, Ends
    <2>2. Elems(data') \subseteq Elems(data) \cup {EmptySpan(0)}
      BY <2>1, ElemsOf
    <2> QED BY <1>1, <2>1, <2>2 DEF Reading
  <1>4. CASE ReadClosed \/ CloseReader
    <2>1. /\ \E p \in TrySendFin(outq["r"]) : outq'["r"] = p
          /\ outq'["w"] = outq["w"] /\ rpc' \in {"done", "gone"} /\ closed' = closed /\ data' = <<>>
          /\ UNCHANGED <<wire, wvars, offer, recv_buf, recv_buf_size, total_recv_bytes,
                         listed, mapped>>
      BY <1>0, <1>4 DEF ReadClosed, CloseReader, Ends, TrySendFin
    <2> QED BY <1>1, <2>1, ElemsOf DEF Reading, KeptInv
  <1>5. CASE ReadRest /\ Size(recv_buf) > Chunk
    <2>1. outq["r"] \in TrySendFin(outq["r"])
      BY DEF TrySendFin
    <2> QED BY <1>1, <1>5, <2>1, ElemsOf DEF ReadRest, Reading, KeptInv
  <1>6. CASE ReadRest /\ ~(Size(recv_buf) > Chunk)
    <2>1. /\ IncRecvBufWindow(Size(recv_buf)) /\ recv_buf' = EmptySpan(recv_buf.hi)
          /\ rpc = "open" /\ ~closed["r"] /\ Size(recv_buf) > 0
          /\ UNCHANGED <<rpc, data, closed, mapped, wire, wvars, offer, listed>>
      BY <1>6 DEF ReadRest
    <2>2. Size(recv_buf) \in Nat
      BY <1>0
    <2>3. /\ InFlight("w")' = InFlight("w") /\ FinEmpty(InFlight("r"))'
          /\ listed /\ mapped["w"] => CreditKept'
      BY <2>1, <2>2, IncRecvKept DEF wvars
    <2>4. recv_buf.lo = total_recv_bytes /\ total_recv_bytes' = total_recv_bytes + Size(recv_buf)
      BY <2>1, KeptInOrder DEF InOrder, IncRecvBufWindow
    <2>5. recv_buf'.lo = recv_buf.hi /\ recv_buf'.hi = recv_buf.hi /\ Sent' = Sent
          /\ total_recv_bytes' = recv_buf.hi
      BY <1>0, <2>1, <2>4 DEF EmptySpan, Sent, wvars
    <2>6. FramesInv'
      BY <2>1, <2>3 DEF KeptInv, FramesInv
    <2>7. ShortInv'
      <3>1. ~(Size(recv_buf') > 0)
        BY <1>0, <2>5 DEF Size
      <3>2. Short(Elems(data))' /\ Short(Elems(offer))' /\ Short(InFlight("w"))' /\ rpc' # "panic"
        BY <2>1, <2>3 DEF KeptInv, ShortInv
      <3> QED BY <3>1, <3>2 DEF ShortInv
    <2>8. ASSUME Reading' PROVE BytesKept' /\ AllLive(Elems(data))'
      <3>1. Reading
        BY <2>1, <2>8 DEF Reading
      <3>2. SUFFICES ASSUME NEW b \in Nat, recv_buf.hi <= b, b < Sent
                     PROVE  \/ Holds(Elems(data), b) \/ Holds(Elems(offer), b)
                            \/ Holds(InFlight("w"), b)
        BY <2>1, <2>3, <2>5, <3>1 DEF BytesKept, KeptInv
      <3> QED BY <1>0, <3>1, <3>2 DEF KeptInv, BytesKept
    <2> QED BY <2>1, <2>3, <2>6, <2>7, <2>8 DEF KeptInv
  <1>7. CASE ReadNext
    <2> DEFINE h == Head(data)
               n == IF Size(h) > Chunk THEN Chunk ELSE Size(h)
    <2>1. data # <<>> /\ rpc = "open" /\ ~closed["r"] /\ Size(recv_buf) = 0
      BY <1>7 DEF ReadNext
    <2>2. h \in Span /\ Elems(data) = {h} \cup Elems(Tail(data)) /\ h \in Elems(data)
      BY <1>0, <2>1, TailElements, ElemsTail
    <2>3. Reading
      BY <2>1 DEF KeptInv, Reading
    <2>4. h.lo \in Nat /\ h.hi \in Nat /\ h.lo < h.hi /\ Size(h) = h.hi - h.lo
      BY <2>2, <2>3 DEF Span, KeptInv, AllLive, Live, Size
    <2>5. n \in Nat /\ n # 0 /\ h.lo + n <= h.hi
      BY <2>4
    <2>6. /\ IncRecvBufWindow(n) /\ data' = Tail(data)
          /\ recv_buf' = [lo |-> h.lo + n, hi |-> h.hi]
          /\ UNCHANGED <<closed, rpc, mapped, wire, wvars, offer, listed>>
      BY <1>7, <2>5 DEF ReadNext
    <2>7. /\ InFlight("w")' = InFlight("w") /\ FinEmpty(InFlight("r"))'
          /\ listed /\ mapped["w"] => CreditKept'
      BY <2>5, <2>6, IncRecvKept DEF wvars
    <2>8. h.lo = total_recv_bytes /\ total_recv_bytes' = total_recv_bytes + n
      BY <2>1, <2>6, KeptInOrder DEF InOrder, IncRecvBufWindow
    <2>9. recv_buf'.lo = h.lo + n /\ recv_buf'.hi = h.hi /\ Sent' = Sent
      BY <2>6 DEF Sent, wvars
    <2>10. FramesInv'
      BY <2>6, <2>7 DEF KeptInv, FramesInv
    <2>11. ShortInv'
      <3>1. Size(recv_buf') > 0 => recv_buf'.lo = Chunk
        <4>1. ASSUME Size(recv_buf') > 0 PROVE recv_buf'.lo = Chunk
          <5>1. n = Chunk /\ Size(h) > Chunk
            BY <2>4, <2>9, <4>1 DEF Size
          <5>2. ~(h.lo > 0)
            BY <2>2, <2>4, <5>1 DEF KeptInv, ShortInv, Short
          <5> QED BY <2>4, <2>9, <5>1, <5>2
        <4> QED BY <4>1
      <3>2. Short(Elems(data))' /\ Short(Elems(offer))' /\ Short(InFlight("w"))' /\ rpc' # "panic"
        BY <2>1, <2>2, <2>6, <2>7 DEF KeptInv, ShortInv, Short
      <3> QED BY <3>1, <3>2 DEF ShortInv
    <2> HIDE DEF n
    <2>12. BytesKept'
      <3>1. SUFFICES ASSUME NEW b \in Nat, total_recv_bytes + n <= b, b < Sent
                     PROVE  \/ h.lo + n <= b /\ b < h.hi
                            \/ Holds(Elems(Tail(data)), b) \/ Holds(Elems(offer), b)
                            \/ Holds(InFlight("w"), b)
        BY <2>6, <2>7, <2>8, <2>9 DEF BytesKept
      <3>2. \/ Holds(Elems(data), b) \/ Holds(Elems(offer), b) \/ Holds(InFlight("w"), b)
        <4>1. total_recv_bytes <= b
          BY <1>0, <2>5, <3>1
        <4>2. ~(recv_buf.lo <= b /\ b < recv_buf.hi)
          BY <1>0, <2>1
        <4> QED BY <2>3, <3>1, <4>1, <4>2 DEF KeptInv, BytesKept
      <3>3. Holds(Elems(data), b) => (h.lo + n <= b /\ b < h.hi) \/ Holds(Elems(Tail(data)), b)
        BY <2>2, <2>8, <3>1 DEF Holds
      <3> QED BY <3>2, <3>3
    <2>13. AllLive(Elems(data))'
      BY <2>2, <2>3, <2>6 DEF KeptInv, AllLive
    <2> QED BY <2>6, <2>7, <2>10, <2>11, <2>12, <2>13 DEF KeptInv
  <1> QED BY <1>2, <1>3, <1>4, <1>5, <1>6, <1>7 DEF ReaderStep

\* handle_fin_event: FINs only, and the reader's half is over when it was the
\* reader's map that lost the stream.
LEMMA HandleFinKept ==
  ASSUME FlowInv, KeptInv, NEW e \in Ends, NEW q \in Seq(Frame), HandleFin(e, q)
  PROVE  /\ \E p \in TrySendFin(q) : outq' = [outq EXCEPT ![e] = p]
         /\ Elems(data') \subseteq Elems(data) \cup {EmptySpan(0)}
         /\ mapped'["r"] => mapped["r"] /\ data' = data
         /\ mapped'["w"] => mapped["w"]
         /\ ~mapped'["r"] => closed'["r"]
  <1>1. mapped \in [Ends -> BOOLEAN] /\ closed \in [Ends -> BOOLEAN] /\ data \in Seq(Span)
    BY DEF FlowInv, TypeOK
  <1>2. \E p \in TrySendFin(q) : outq' = [outq EXCEPT ![e] = p]
    BY DEF HandleFin, TrySendFin
  <1>3. Elems(data') \subseteq Elems(data) \cup {EmptySpan(0)}
    <2>1. data' = data \/ data' = Append(data, EmptySpan(0))
      BY DEF HandleFin
    <2>2. EmptySpan(0) \in Span
      BY DEF EmptySpan, Span
    <2>3. Elems(Append(data, EmptySpan(0))) = Elems(data) \cup {EmptySpan(0)}
      BY <1>1, <2>2, ElemsAppend
    <2> QED BY <2>1, <2>3
  <1>4. /\ mapped'["r"] => mapped["r"] /\ data' = data
        /\ mapped'["w"] => mapped["w"]
        /\ ~mapped'["r"] => closed'["r"]
    BY <1>1 DEF HandleFin, Ends, KeptInv
  <1> QED BY <1>2, <1>3, <1>4

\* The event coroutines: a frame moves from queue to queue and is dropped only
\* when its stream is no longer mapped.
LEMMA EventKept ==
  ASSUME FlowInv, KeptInv, EventStep
  PROVE  KeptInv'
  <1> USE StreamAssumption
  <1>0. /\ \A e \in Ends : outq[e] \in Seq(Frame) /\ wire[e] \in Seq(Frame)
        /\ outq \in [Ends -> Seq(Frame)] /\ wire \in [Ends -> Seq(Frame)]
        /\ data \in Seq(Span) /\ offer \in Seq(Span) /\ Len(offer) <= 1
    BY DEF FlowInv, TypeOK, DataOrder
  <1>1. ASSUME NEW e \in Ends, Forward(e)
        PROVE  KeptInv'
    <2> DEFINE q == outq[e]
               f == Head(q)
    <2>1. q # <<>> /\ Tail(q) \in Seq(Frame) /\ f \in Frame /\ Elems(q) = {f} \cup Elems(Tail(q))
      BY <1>0, <1>1, TailElements, ElemsTail DEF Forward
    <2>2. /\ \E p \in TrySendFin(Tail(q)) : outq' = [outq EXCEPT ![e] = p]
          /\ Elems(data') \subseteq Elems(data) \cup {EmptySpan(0)}
          /\ mapped'["r"] => mapped["r"] /\ data' = data
          /\ mapped'["w"] => mapped["w"]
          /\ ~mapped'["r"] => closed'["r"]
      <3>1. CASE f.t = "FIN"
        <4>1. HandleFin(e, Tail(q))
          BY <1>1, <3>1 DEF Forward
        <4> QED BY <2>1, <4>1, HandleFinKept
      <3>2. CASE f.t # "FIN"
        <4>1. Tail(q) \in TrySendFin(Tail(q))
          BY DEF TrySendFin
        <4> QED BY <1>1, <3>2, <4>1 DEF Forward, KeptInv
      <3> QED BY <3>1, <3>2
    <2>3. /\ wire' = [wire EXCEPT ![e] = Append(wire[e], f)]
          /\ UNCHANGED <<send_buf_window, total_send_bytes, queued, offer, recv_buf,
                         recv_buf_size, total_recv_bytes, rpc, listed>>
      BY <1>1 DEF Forward
    <2>4. PICK p \in TrySendFin(Tail(q)) : outq' = [outq EXCEPT ![e] = p]
      BY <2>2
    <2>5. Elems(Tail(q)) \subseteq Elems(p) /\ Elems(p) \subseteq Elems(Tail(q)) \cup {NewFin}
      BY <2>1, <2>4, ElemsTrySendFin
    <2>6. Elems(Append(wire[e], f)) = Elems(wire[e]) \cup {f}
      BY <1>0, <2>1, ElemsAppend
    <2>7. ASSUME NEW o \in Ends PROVE OnlyFins(o)
      <3>1. CASE o = e
        <4>1. wire'[e] = Append(wire[e], f) /\ outq'[e] = p
          BY <1>0, <2>3, <2>4
        <4>2. InFlight(e)' = Elems(wire[e]) \cup {f} \cup Elems(p)
          BY <2>6, <4>1 DEF InFlight
        <4>3. InFlight(e) = Elems(wire[e]) \cup {f} \cup Elems(Tail(q))
          BY <2>1 DEF InFlight
        <4> QED BY <2>5, <3>1, <4>2, <4>3 DEF OnlyFins
      <3>2. CASE o # e
        BY <1>0, <2>3, <2>4, <3>2 DEF OnlyFins, InFlight
      <3> QED BY <3>1, <3>2
    <2>8. Sent' = Sent /\ Applied' = Applied /\ Reported' = Reported
      BY <2>3 DEF Sent, Applied, Reported
    <2> QED BY <2>2, <2>3, <2>7, <2>8, KeptWithoutBytes DEF Reading, Ends
  <1>2. ASSUME NEW e \in Ends, RecvFin(e)
        PROVE  KeptInv'
    <2> DEFINE o == Other(e)
               f == Head(wire[o])
    <2>1. /\ o \in Ends /\ o # e /\ wire[o] # <<>> /\ f.t = "FIN"
          /\ wire' = [wire EXCEPT ![o] = Tail(wire[o])]
          /\ UNCHANGED <<send_buf_window, total_send_bytes, queued, offer, recv_buf,
                         recv_buf_size, total_recv_bytes, rpc, listed>>
      BY <1>2 DEF RecvFin, Other, Ends
    <2>2. Elems(wire[o]) = {f} \cup Elems(Tail(wire[o]))
      BY <1>0, <2>1, ElemsTail
    <2>3. /\ \E p \in TrySendFin(outq[e]) : outq' = [outq EXCEPT ![e] = p]
          /\ Elems(data') \subseteq Elems(data) \cup {EmptySpan(0)}
          /\ mapped'["r"] => mapped["r"] /\ data' = data
          /\ mapped'["w"] => mapped["w"]
          /\ ~mapped'["r"] => closed'["r"]
      BY <1>0, <1>2, HandleFinKept DEF RecvFin
    <2>4. PICK p \in TrySendFin(outq[e]) : outq' = [outq EXCEPT ![e] = p]
      BY <2>3
    <2>5. Elems(outq[e]) \subseteq Elems(p) /\ Elems(p) \subseteq Elems(outq[e]) \cup {NewFin}
      BY <1>0, <2>4, ElemsTrySendFin
    <2>6. OnlyFins(e)
      <3>1. wire'[e] = wire[e] /\ outq'[e] = p
        BY <1>0, <2>1, <2>4
      <3> QED BY <2>5, <3>1 DEF OnlyFins, InFlight
    <2>7. OnlyFins(o)
      <3>1. wire'[o] = Tail(wire[o]) /\ outq'[o] = outq[o]
        BY <1>0, <2>1, <2>4
      <3> QED BY <2>1, <2>2, <3>1 DEF OnlyFins, InFlight
    <2>8. Sent' = Sent /\ Applied' = Applied /\ Reported' = Reported
      BY <2>1 DEF Sent, Applied, Reported
    <2>9. OnlyFins("w") /\ OnlyFins("r")
      BY <2>1, <2>6, <2>7 DEF Ends
    <2> QED BY <2>1, <2>3, <2>8, <2>9, KeptWithoutBytes DEF Reading
  <1>3. CASE RecvData
    <2> DEFINE f == Head(wire["w"])
               g == [lo |-> f.lo, hi |-> f.hi]
    <2>1. /\ wire["w"] # <<>> /\ f.t = "DATA" /\ offer = <<>>
          /\ wire' = [wire EXCEPT !["w"] = Tail(wire["w"])]
          /\ offer' = IF mapped["r"] THEN <<g>> ELSE <<>>
          /\ UNCHANGED <<closed, mapped, outq, wvars, data, recv_buf, recv_buf_size,
                         total_recv_bytes, rpc, listed>>
      BY <1>3 DEF RecvData
    <2>2. Elems(wire["w"]) = {f} \cup Elems(Tail(wire["w"]))
      BY <1>0, <2>1, ElemsTail DEF Ends
    <2>3. wire'["w"] = Tail(wire["w"]) /\ wire'["r"] = wire["r"]
      BY <1>0, <2>1 DEF Ends
    <2>4. InFlight("w") = InFlight("w")' \cup {f} /\ InFlight("r")' = InFlight("r")
      BY <2>1, <2>2, <2>3 DEF InFlight
    <2>5. g.lo = f.lo /\ g.hi = f.hi /\ Live(f) /\ Live(g)
      BY <2>1, <2>4 DEF KeptInv, FramesInv, DataLive, Live
    <2>6. Elems(offer) = {} /\ Elems(offer') = IF mapped["r"] THEN {g} ELSE {}
      BY <2>1, ElemsOf
    <2> HIDE DEF f, g
    <2>7. FramesInv'
      BY <2>4, <2>5, <2>6 DEF KeptInv, FramesInv, FinEmpty, DataLive, AllLive
    <2>8. ShortInv'
      <3>1. g.lo > 0 => Size(g) <= Chunk
        BY <2>4, <2>5 DEF KeptInv, ShortInv, Short, Size
      <3> QED BY <2>1, <2>4, <2>6, <3>1 DEF KeptInv, ShortInv, Short
    <2>9. Sent' = Sent /\ Applied' = Applied /\ Reported' = Reported
      BY <2>1 DEF Sent, Applied, Reported, wvars
    <2>10. ASSUME Reading' PROVE BytesKept' /\ AllLive(Elems(data))'
      <3>1. Reading /\ mapped["r"]
        BY <2>1, <2>10 DEF Reading
      <3>2. \A b : Holds(InFlight("w"), b) => Holds(InFlight("w")', b) \/ Holds(Elems(offer)', b)
        BY <2>4, <2>5, <2>6, <3>1 DEF Holds
      <3>3. \A b : ~Holds(Elems(offer), b)
        BY <2>6 DEF Holds
      <3> QED BY <2>1, <2>9, <3>1, <3>2, <3>3 DEF KeptInv, BytesKept
    <2> QED BY <2>1, <2>4, <2>7, <2>8, <2>9, <2>10 DEF KeptInv, CreditKept
  <1>4. CASE OfferData
    <2> DEFINE g == offer[1]
    <2>1. /\ offer # <<>> /\ offer' = <<>>
          /\ data' = IF ReceiverAlive THEN Append(data, g) ELSE data
          /\ UNCHANGED <<closed, mapped, outq, wire, wvars, recv_buf, recv_buf_size,
                         total_recv_bytes, rpc, listed>>
      BY <1>4 DEF OfferData
    <2>2. g \in Span /\ Elems(offer) = {g}
      <3>1. Len(offer) \in Nat /\ 1 <= Len(offer) /\ Head(offer) \in Span /\ Head(offer) = g
        BY <1>0, <2>1, TailElements
      <3>2. Len(offer) = 1
        <4>1. Len(offer) <= 1
          BY <1>0
        <4>2. \A k \in Nat : 1 <= k /\ k <= 1 => k = 1
          OBVIOUS
        <4> QED BY <3>1, <4>1, <4>2
      <3> QED BY <3>1, <3>2 DEF Elems
    <2>3. Elems(Append(data, g)) = Elems(data) \cup {g}
      BY <1>0, <2>2, ElemsAppend
    <2> HIDE DEF g
    <2>4. Elems(offer)' = {} /\ InFlight("w")' = InFlight("w") /\ InFlight("r")' = InFlight("r")
      BY <2>1, ElemsOf DEF InFlight
    <2>5. Elems(data)' = IF ReceiverAlive THEN Elems(data) \cup {g} ELSE Elems(data)
      BY <2>1, <2>3
    <2>6. FramesInv'
      BY <2>4 DEF KeptInv, FramesInv, AllLive
    <2>7. ShortInv'
      BY <2>1, <2>2, <2>4, <2>5 DEF KeptInv, ShortInv, Short
    <2>8. Sent' = Sent /\ Applied' = Applied /\ Reported' = Reported
      BY <2>1 DEF Sent, Applied, Reported, wvars
    <2>9. ASSUME Reading' PROVE BytesKept' /\ AllLive(Elems(data))'
      <3>1. Reading /\ ReceiverAlive
        BY <2>1, <2>9 DEF Reading, ReceiverAlive
      <3>2. AllLive(Elems(data))'
        BY <2>2, <2>5, <3>1 DEF KeptInv, FramesInv, AllLive
      <3>3. \A b : Holds(Elems(data), b) \/ Holds(Elems(offer), b) => Holds(Elems(data)', b)
        BY <2>2, <2>5, <3>1 DEF Holds
      <3> QED BY <2>1, <2>4, <2>8, <3>1, <3>2, <3>3 DEF KeptInv, BytesKept
    <2> QED BY <2>1, <2>4, <2>6, <2>7, <2>8, <2>9 DEF KeptInv, CreditKept
  <1>5. CASE UpdateSendWindow
    <2> DEFINE f == Head(wire["r"])
    <2>1. /\ wire["r"] # <<>> /\ f.t = "WIN"
          /\ wire' = [wire EXCEPT !["r"] = Tail(wire["r"])]
          /\ mapped["w"] => send_buf_window' = send_buf_window + Size(f)
          /\ UNCHANGED <<closed, mapped, outq, total_send_bytes, queued, rvars, listed>>
      BY <1>5 DEF UpdateSendWindow
    <2>2. Elems(wire["r"]) = {f} \cup Elems(Tail(wire["r"])) /\ f \in Frame
      BY <1>0, <2>1, ElemsTail, TailElements DEF Ends
    <2>3. wire'["r"] = Tail(wire["r"]) /\ wire'["w"] = wire["w"]
      BY <1>0, <2>1 DEF Ends
    <2>4. InFlight("r") = InFlight("r")' \cup {f} /\ InFlight("w")' = InFlight("w")
      BY <2>1, <2>2, <2>3 DEF InFlight
    <2>5. FramesInv'
      BY <2>1, <2>4 DEF KeptInv, FramesInv, FinEmpty, rvars
    <2>6. ShortInv'
      BY <2>1, <2>4 DEF KeptInv, ShortInv, rvars
    <2>7. Sent' = Sent /\ Reported' = Reported
      BY <2>1 DEF Sent, Reported, rvars
    <2>8. ASSUME Reading' PROVE BytesKept' /\ AllLive(Elems(data))'
      BY <2>1, <2>4, <2>7, <2>8 DEF KeptInv, BytesKept, Reading, rvars
    <2>9. ASSUME listed', mapped'["w"] PROVE CreditKept'
      <3>1. 1 \in 1..Len(wire["r"]) /\ f = wire["r"][1] /\ f \in InFlight("r")
        BY <1>0, <2>1, <2>4, TailElements DEF Ends
      <3>2. f.lo \in Nat /\ f.hi \in Nat /\ Size(f) = f.hi - f.lo /\ Applied \in Int
        BY <2>2 DEF Frame, Size, FlowInv, TypeOK, Applied
      <3>3. Live(f) /\ 0 <= Applied /\ Applied <= f.lo /\ f.hi <= Reported /\ Reported \in Int
        <4>1. Live(f)
          BY <2>1, <3>1, <3>2 DEF FlowInv, CreditOnce, WorthReporting, Live
        <4> QED BY <3>1, <4>1 DEF FlowInv, CreditOnce, Within, Reported, TypeOK
      <3>4. \A x \in InFlight("r") : Live(x) => x = f \/ f.hi <= x.lo
        <4>1. ASSUME NEW i \in 1..Len(wire["r"]), Live(wire["r"][i])
              PROVE  wire["r"][i] = f \/ f.hi <= wire["r"][i].lo
          <5>1. CASE i = 1
            BY <3>1, <5>1
          <5>2. CASE 1 < i
            BY <3>1, <3>3, <4>1, <5>2 DEF FlowInv, CreditOnce, Sorted
          <5> QED BY <5>1, <5>2
        <4>2. ASSUME NEW i \in 1..Len(outq["r"]), Live(outq["r"][i])
              PROVE  f.hi <= outq["r"][i].lo
          BY <3>1, <3>3, <4>2 DEF FlowInv, CreditOnce, Precedes
        <4> QED BY <4>1, <4>2 DEF InFlight, Elems
      <3>5. CreditKept
        BY <2>1, <2>9 DEF KeptInv
      <3> HIDE DEF f
      <3>6. ASSUME NEW b \in Nat, Holds(InFlight("r"), b)
            PROVE  (f.lo <= b /\ b < f.hi) \/ (f.hi <= b /\ Holds(InFlight("r")', b))
        <4>1. PICK x \in InFlight("r") : x.lo <= b /\ b < x.hi
          BY <3>6 DEF Holds
        <4>2. x.lo \in Nat /\ x.hi \in Nat
          BY ElemsTyped DEF FlowInv, Frame, Ends
        <4>3. x = f \/ f.hi <= x.lo
          BY <3>4, <4>1, <4>2 DEF Live
        <4>4. CASE x = f
          BY <4>1, <4>4
        <4>5. CASE f.hi <= x.lo
          <5>1. x # f
            BY <3>2, <3>3, <4>5 DEF Live
          <5>2. x \in InFlight("r")'
            BY <2>4, <5>1
          <5>3. f.hi <= b
            BY <3>2, <4>1, <4>2, <4>5
          <5> QED BY <4>1, <5>2, <5>3 DEF Holds
        <4> QED BY <4>3, <4>4, <4>5
      <3>7. f.lo = Applied
        <4>1. SUFFICES ASSUME Applied < f.lo PROVE FALSE
          BY <3>2, <3>3
        <4>2. Applied \in Nat /\ Applied < Reported
          BY <3>2, <3>3, <4>1 DEF Live
        <4>3. Holds(InFlight("r"), Applied)
          BY <3>5, <4>2 DEF CreditKept
        <4>4. f.lo <= Applied \/ f.hi <= Applied
          BY <3>6, <4>2, <4>3
        <4> QED BY <3>2, <3>3, <4>1, <4>2, <4>4 DEF Live
      <3>8. Applied' = f.hi
        <4>1. Applied' = Applied + Size(f)
          BY <2>1, <2>9, <3>2 DEF Applied, FlowInv, TypeOK
        <4> QED BY <3>2, <3>7, <4>1
      <3>9. SUFFICES ASSUME NEW b \in Nat, f.hi <= b, b < Reported
                     PROVE  Holds(InFlight("r")', b)
        BY <2>7, <3>8 DEF CreditKept
      <3>10. Holds(InFlight("r"), b)
        <4>1. Applied <= b
          BY <3>2, <3>3, <3>9 DEF Live
        <4> QED BY <3>5, <3>9, <4>1 DEF CreditKept
      <3> QED BY <3>2, <3>6, <3>9, <3>10
    <2> QED BY <2>1, <2>5, <2>6, <2>8, <2>9 DEF KeptInv, rvars
  <1> QED BY <1>1, <1>2, <1>3, <1>4, <1>5 DEF EventStep

\* Every step preserves the invariant.
LEMMA KeptStep == FlowInv /\ KeptInv /\ [Next]_vars => KeptInv'
  <1> SUFFICES ASSUME FlowInv, KeptInv, [Next]_vars PROVE KeptInv'
    OBVIOUS
  <1>1. CASE WriterStep
    BY <1>1, WriterKept
  <1>2. CASE ReaderStep
    BY <1>2, ReaderKept
  <1>3. CASE EventStep
    BY <1>3, EventKept
  <1>4. CASE Retire \/ UNCHANGED vars
    <2>1. /\ UNCHANGED <<closed, mapped, outq, wire, wvars, rvars>>
          /\ listed' => listed
      BY <1>4 DEF Retire, vars
    <2>2. Sent' = Sent /\ Applied' = Applied /\ Reported' = Reported
      BY <2>1 DEF Sent, Applied, Reported, wvars, rvars
    <2>3. OnlyFins("w") /\ OnlyFins("r")
      BY <2>1 DEF OnlyFins, InFlight
    <2> QED BY <2>1, <2>2, <2>3, KeptWithoutBytes DEF rvars, Reading, KeptInv
  <1> QED BY <1>1, <1>2, <1>3, <1>4 DEF Next

\* All queues are empty at the start, and nothing was sent.
LEMMA KeptInit == Init => KeptInv
  <1> SUFFICES ASSUME Init PROVE KeptInv
    OBVIOUS
  <1> USE StreamAssumption
  <1>1. InFlight("w") = {} /\ InFlight("r") = {} /\ Elems(data) = {} /\ Elems(offer) = {}
    BY ElemsOf DEF Init, InFlight, Ends
  <1>2. Sent = 0 /\ total_recv_bytes = 0 /\ Applied = 0 /\ Reported = 0 /\ Size(recv_buf) = 0
        /\ mapped["r"] /\ rpc # "panic"
    BY DEF Init, Sent, Applied, Reported, Size, EmptySpan, Ends
  <1>3. FramesInv /\ ShortInv
    BY <1>1, <1>2 DEF FramesInv, ShortInv, FinEmpty, DataLive, AllLive, Short
  <1>4. BytesKept /\ CreditKept /\ AllLive(Elems(data))
    BY <1>1, <1>2 DEF BytesKept, CreditKept, AllLive
  <1> QED BY <1>2, <1>3, <1>4 DEF KeptInv

\* No byte and no credit is lost while both maps have the stream, whatever the
\* window and the queue sizes.
THEOREM NothingLost == Spec => []KeptInv
  <1>1. Init => KeptInv
    BY KeptInit
  <1>2. FlowInv /\ KeptInv /\ [Next]_vars => KeptInv'
    BY KeptStep
  <1> QED BY <1>1, <1>2, FlowCorrect, PTL DEF Spec

\* What the next poll_read of an open stream hands over starts at the first
\* byte not yet handed over: recv_buf and the data queue never skip, repeat or
\* reorder a frame, whatever the window and the queue sizes.
THEOREM ReadsInOrder == Spec => []InOrder
  <1>1. FlowInv /\ KeptInv => InOrder
    BY KeptInOrder
  <1> QED BY <1>1, FlowCorrect, NothingLost, PTL

\* fill_read_buf panics only on the rest of the first frame, the one relay_buf
\* may make longer than the relay's buffer.
THEOREM PanicsOnlyOnFirst == Spec => []PanicOnlyOnFirstFrame
  <1>1. FlowInv /\ KeptInv => PanicOnlyOnFirstFrame
    <2> SUFFICES ASSUME FlowInv, KeptInv, rpc = "panic" PROVE recv_buf.lo = Chunk /\ Size(recv_buf) > Chunk
      BY DEF PanicOnlyOnFirstFrame
    <2>1. Size(recv_buf) > Chunk
      BY DEF KeptInv, ShortInv
    <2>2. Size(recv_buf) > 0
      BY <2>1, StreamAssumption DEF FlowInv, TypeOK, Span, Size
    <2> QED BY <2>1, <2>2 DEF KeptInv, ShortInv
  <1> QED BY <1>1, FlowCorrect, NothingLost, PTL

\* A writer has no window although everything was read and no credit is on its
\* way only when inc_recv_buf_window was refused a report it owes, or when the
\* session is retired and the report was dropped.
THEOREM StallsHaveCause == Spec => []StallHasCause
  <1>1. FlowInv /\ KeptInv => StallHasCause
    <2> SUFFICES ASSUME FlowInv, KeptInv, Drained, send_buf_window < 0, rpc = "open",
                        mapped["w"], mapped["r"], listed
                 PROVE  recv_buf_size >= MinReport
      BY DEF StallHasCause
    <2> USE StreamAssumption
    <2>1. /\ send_buf_window \in Int /\ total_send_bytes \in Nat /\ queued \in Nat
          /\ recv_buf_size \in Nat /\ total_recv_bytes \in Nat /\ recv_buf.lo \in Nat
          /\ recv_buf.hi \in Nat /\ Size(recv_buf) = recv_buf.hi - recv_buf.lo
      BY DEF FlowInv, TypeOK, Span, Size
    <2>2. ASSUME NEW e \in Ends, NEW f \in InFlight(e) PROVE ~Live(f)
      <3>1. f.t \in {"DATA", "FIN", "WIN"}
        BY ElemsTyped DEF FlowInv, Frame
      <3>2. f.t # "DATA" /\ f.t # "WIN"
        BY DEF Drained, InTransit, InFlight, Elems
      <3> QED BY <3>1, <3>2 DEF KeptInv, FramesInv, FinEmpty, Ends
    <2>3. ASSUME NEW e \in Ends, NEW b \in Nat PROVE ~Holds(InFlight(e), b)
      <3>1. SUFFICES ASSUME NEW f \in InFlight(e), f.lo <= b, b < f.hi PROVE FALSE
        BY DEF Holds
      <3>2. f.lo \in Nat /\ f.hi \in Nat
        BY ElemsTyped DEF FlowInv, Frame
      <3> QED BY <2>2, <3>1, <3>2 DEF Live
    <2>4. Elems(data) = {} /\ Elems(offer) = {} /\ Size(recv_buf) = 0
      BY ElemsOf DEF Drained
    <2>5. total_recv_bytes = Sent
      <3>1. Sent \in Nat /\ total_recv_bytes <= Sent
        BY <2>1, FlowBounds DEF Sent
      <3>2. ~(total_recv_bytes < Sent)
        <4>1. BytesKept
          BY DEF KeptInv, Reading
        <4> QED BY <2>1, <2>3, <2>4, <4>1 DEF BytesKept, Holds, Ends
      <3> QED BY <2>1, <3>1, <3>2
    <2>6. Applied = Reported
      <3>1. Applied \in Int /\ Reported \in Int /\ 0 <= Applied /\ Applied <= Reported
        BY <2>1 DEF FlowInv, CreditOnce, Applied, Reported
      <3>2. ~(Applied < Reported)
        <4>1. CreditKept
          BY DEF KeptInv
        <4> QED BY <2>3, <3>1, <4>1 DEF CreditKept, Ends
      <3> QED BY <3>1, <3>2
    <2> QED BY <2>1, <2>5, <2>6 DEF Applied, Reported, Sent
  <1> QED BY <1>1, FlowCorrect, NothingLost, PTL

=============================================================================
