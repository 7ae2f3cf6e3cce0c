-------------------------- MODULE MuxSessionProofs --------------------------
(***************************************************************************)
(* Proofs about MuxSession for any number of streams and any capacity of   *)
(* its queues.  SessionInv is shown to be inductive part by part: types    *)
(* and capacities, events that name known streams, streams that are in the *)
(* map or pending until they are closed, the cause of a pending stream,    *)
(* and the order of a stream's frames behind its SYN from the event queue  *)
(* to the connection.  SynFirst, PendingHasCause and OrphansWerePending    *)
(* follow from it.                                                         *)
(***************************************************************************)
EXTENDS MuxSession, TLAPS

-----------------------------------------------------------------------------
(* Queues: the elements, and the order of a stream's frames in them.        *)

\* The SYN of a stream of this end.

Syn(s) == Local("SYN", s)

\* A frame of stream s that must not come before its SYN.
About(e, s) == e.k \in {"DATA", "FIN"} /\ e.s = s

\* The SYN of s is in q; what is in q for s is behind it.
Has(q, s) == \E i \in 1..Len(q) : q[i] = Syn(s)
Ordered(q, s) == \A i \in 1..Len(q) : About(q[i], s) => \E j \in 1..i : q[j] = Syn(s)

\* An event of a stream, and not of the session itself.
OfStream(e) == e.k \in {"SYN", "DATA", "FIN"}

\* The elements of a queue without its first, and the first.
LEMMA TailElements ==
  ASSUME NEW T, NEW q \in Seq(T), q # <<>>
  PROVE  /\ Tail(q) \in Seq(T) /\ Head(q) \in T /\ Head(q) = q[1]
         /\ Len(q) \in Nat /\ 1 <= Len(q) /\ Len(Tail(q)) = Len(q) - 1
         /\ \A i \in 1..Len(Tail(q)) : Tail(q)[i] = q[i + 1] /\ i + 1 \in 1..Len(q)
  OBVIOUS

\* The elements of a queue with one more at its end.
LEMMA AppendElements ==
  ASSUME NEW T, NEW q \in Seq(T), NEW f \in T
  PROVE  /\ Append(q, f) \in Seq(T)
         /\ Len(q) \in Nat /\ Len(Append(q, f)) = Len(q) + 1
         /\ \A i \in 1..Len(q) : Append(q, f)[i] = q[i]
         /\ Append(q, f)[Len(q) + 1] = f
         /\ \A i \in 1..Len(Append(q, f)) : i \in 1..Len(q) \/ i = Len(q) + 1
  OBVIOUS

\* The elements of two queues, one behind the other.
LEMMA ConcatElements ==
  ASSUME NEW T, NEW p \in Seq(T), NEW q \in Seq(T)
  PROVE  /\ p \o q \in Seq(T)
         /\ Len(p) \in Nat /\ Len(q) \in Nat /\ Len(p \o q) = Len(p) + Len(q)
         /\ \A i \in 1..Len(p) : (p \o q)[i] = p[i] /\ i \in 1..Len(p \o q)
         /\ \A i \in 1..Len(q) : (p \o q)[Len(p) + i] = q[i] /\ Len(p) + i \in 1..Len(p \o q)
         /\ \A i \in 1..Len(p \o q) :
              i \in 1..Len(p) \/ (i - Len(p) \in 1..Len(q) /\ (p \o q)[i] = q[i - Len(p)])
  OBVIOUS

\* The elements of the first n and of the rest of a queue.
LEMMA SplitElements ==
  ASSUME NEW T, NEW q \in Seq(T), NEW n \in 0..Len(q)
  PROVE  /\ SubSeq(q, 1, n) \in Seq(T) /\ Len(SubSeq(q, 1, n)) = n
         /\ SubSeq(q, n + 1, Len(q)) \in Seq(T) /\ Len(SubSeq(q, n + 1, Len(q))) = Len(q) - n
         /\ \A i \in 1..n : SubSeq(q, 1, n)[i] = q[i] /\ i \in 1..Len(q)
         /\ \A i \in 1..(Len(q) - n) :
              SubSeq(q, n + 1, Len(q))[i] = q[n + i] /\ n + i \in 1..Len(q)
         /\ \A i \in 1..Len(q) : i \in 1..n \/ (i - n \in 1..(Len(q) - n)
              /\ SubSeq(q, n + 1, Len(q))[i - n] = q[i])
  OBVIOUS

\* Nothing is out of order in an empty queue, and no SYN in it.
LEMMA EmptyOrdered == \A s : Ordered(<<>>, s) /\ ~Has(<<>>, s)
  BY DEF Ordered, Has

\* Taking the first event keeps the order of a stream, unless it is the SYN; it is
\* not a frame that waits for the SYN.
LEMMA TailOrdered ==
  ASSUME NEW q \in Seq(Event), q # <<>>, NEW s
  PROVE  /\ Has(Tail(q), s) => Has(q, s)
         /\ Has(q, s) => Head(q) = Syn(s) \/ Has(Tail(q), s)
         /\ Ordered(q, s) => ~About(Head(q), s)
         /\ Ordered(q, s) /\ Head(q) # Syn(s) => Ordered(Tail(q), s)
  <1> USE TailElements
  <1>1. Has(Tail(q), s) => Has(q, s)
    BY DEF Has
  <1>2. Has(q, s) => Head(q) = Syn(s) \/ Has(Tail(q), s)
    <2>1. SUFFICES ASSUME NEW i \in 1..Len(q), q[i] = Syn(s), Head(q) # Syn(s)
                   PROVE  Has(Tail(q), s)
      BY DEF Has
    <2>2. i - 1 \in 1..Len(Tail(q)) /\ Tail(q)[i - 1] = q[i]
      BY <2>1
    <2> QED BY <2>1, <2>2 DEF Has
  <1>3. ASSUME Ordered(q, s), About(Head(q), s) PROVE FALSE
    <2>1. 1 \in 1..Len(q) /\ q[1] = Head(q)
      OBVIOUS
    <2>2. PICK j \in 1..1 : q[j] = Syn(s)
      BY <1>3, <2>1 DEF Ordered
    <2> QED BY <1>3, <2>1, <2>2 DEF About, Syn, Local
  <1>4. ASSUME Ordered(q, s), Head(q) # Syn(s) PROVE Ordered(Tail(q), s)
    <2>1. SUFFICES ASSUME NEW i \in 1..Len(Tail(q)), About(Tail(q)[i], s)
                   PROVE  \E j \in 1..i : Tail(q)[j] = Syn(s)
      BY DEF Ordered
    <2>2. i + 1 \in 1..Len(q) /\ About(q[i + 1], s)
      BY <2>1
    <2>3. PICK j \in 1..(i + 1) : q[j] = Syn(s)
      BY <1>4, <2>2 DEF Ordered
    <2>4. j # 1
      BY <1>4, <2>3
    <2>5. j - 1 \in 1..i /\ Tail(q)[j - 1] = q[j]
      BY <2>2, <2>3, <2>4
    <2> QED BY <2>3, <2>5
  <1> QED BY <1>1, <1>2, <1>3, <1>4

\* A frame of a stream may be queued where its SYN is.
LEMMA AppendOrdered ==
  ASSUME NEW q \in Seq(Event), NEW e \in Event, NEW s
  PROVE  /\ Has(q, s) => Has(Append(q, e), s)
         /\ Has(Append(q, e), s) => Has(q, s) \/ e = Syn(s)
         /\ e = Syn(s) => Has(Append(q, e), s)
         /\ Ordered(q, s) /\ (About(e, s) => Has(q, s)) => Ordered(Append(q, e), s)
  <1> USE AppendElements
  <1>1. Has(q, s) => Has(Append(q, e), s)
    BY DEF Has
  <1>2. Has(Append(q, e), s) => Has(q, s) \/ e = Syn(s)
    BY DEF Has
  <1>3. e = Syn(s) => Has(Append(q, e), s)
    <2>1. Len(q) + 1 \in 1..Len(Append(q, e))
      OBVIOUS
    <2> QED BY <2>1 DEF Has
  <1>4. ASSUME Ordered(q, s), About(e, s) => Has(q, s) PROVE Ordered(Append(q, e), s)
    <2>1. SUFFICES ASSUME NEW i \in 1..Len(Append(q, e)), About(Append(q, e)[i], s)
                   PROVE  \E j \in 1..i : Append(q, e)[j] = Syn(s)
      BY DEF Ordered
    <2>2. CASE i \in 1..Len(q)
      <3>1. PICK j \in 1..i : q[j] = Syn(s)
        BY <1>4, <2>1, <2>2 DEF Ordered
      <3> QED BY <2>2, <3>1
    <2>3. CASE i = Len(q) + 1
      <3>1. PICK j \in 1..Len(q) : q[j] = Syn(s)
        BY <1>4, <2>1, <2>3 DEF Has
      <3> QED BY <2>3, <3>1
    <2> QED BY <2>2, <2>3
  <1> QED BY <1>1, <1>2, <1>3, <1>4

\* Two queues in order are in order one behind the other, whatever the second
\* holds when the SYN is in the first.
LEMMA ConcatOrdered ==
  ASSUME NEW p \in Seq(Event), NEW q \in Seq(Event), NEW s
  PROVE  /\ Has(p, s) \/ Has(q, s) => Has(p \o q, s)
         /\ Ordered(p, s) /\ (Has(p, s) \/ Ordered(q, s)) => Ordered(p \o q, s)
  <1> USE ConcatElements
  <1>1. Has(p, s) => Has(p \o q, s)
    BY DEF Has
  <1>2. Has(q, s) => Has(p \o q, s)
    BY DEF Has
  <1>3. ASSUME Ordered(p, s), Has(p, s) \/ Ordered(q, s) PROVE Ordered(p \o q, s)
    <2>1. SUFFICES ASSUME NEW i \in 1..Len(p \o q), About((p \o q)[i], s)
                   PROVE  \E j \in 1..i : (p \o q)[j] = Syn(s)
      BY DEF Ordered
    <2>2. CASE i \in 1..Len(p)
      <3>1. PICK j \in 1..i : p[j] = Syn(s)
        BY <1>3, <2>1, <2>2 DEF Ordered
      <3> QED BY <2>2, <3>1
    <2>3. CASE i \notin 1..Len(p) /\ Has(p, s)
      <3>1. PICK j \in 1..Len(p) : p[j] = Syn(s)
        BY <2>3 DEF Has
      <3> QED BY <2>1, <2>3, <3>1
    <2>4. CASE i \notin 1..Len(p) /\ Ordered(q, s)
      <3>1. i - Len(p) \in 1..Len(q) /\ About(q[i - Len(p)], s)
        BY <2>1, <2>4
      <3>2. PICK j \in 1..(i - Len(p)) : q[j] = Syn(s)
        BY <2>4, <3>1 DEF Ordered
      <3>3. Len(p) + j \in 1..i /\ (p \o q)[Len(p) + j] = q[j]
        BY <3>1, <3>2
      <3> QED BY <3>2, <3>3
    <2> QED BY <1>3, <2>2, <2>3, <2>4
  <1> QED BY <1>1, <1>2, <1>3

\* A queue in order may be cut: the SYN is ahead of the cut, or what is behind it is
\* in order.
LEMMA SplitOrdered ==
  ASSUME NEW q \in Seq(Event), NEW n \in 0..Len(q), NEW s
  PROVE  /\ Has(q, s) => Has(SubSeq(q, 1, n), s) \/ Has(SubSeq(q, n + 1, Len(q)), s)
         /\ Ordered(q, s) => /\ Ordered(SubSeq(q, 1, n), s)
                             /\ Has(SubSeq(q, 1, n), s) \/ Ordered(SubSeq(q, n + 1, Len(q)), s)
  <1> DEFINE a == SubSeq(q, 1, n)
             b == SubSeq(q, n + 1, Len(q))
  <1>1. /\ Len(a) = n /\ Len(b) = Len(q) - n /\ Len(q) \in Nat
        /\ \A i \in 1..n : a[i] = q[i] /\ i \in 1..Len(q)
        /\ \A i \in 1..(Len(q) - n) : b[i] = q[n + i] /\ n + i \in 1..Len(q)
        /\ \A i \in 1..Len(q) : i \in 1..n \/ (i - n \in 1..(Len(q) - n) /\ b[i - n] = q[i])
    BY SplitElements
  <1> HIDE DEF a, b
  <1>2. ASSUME Has(q, s) PROVE Has(a, s) \/ Has(b, s)
    <2>1. PICK i \in 1..Len(q) : q[i] = Syn(s)
      BY <1>2 DEF Has
    <2>2. CASE i \in 1..n
      <3>1. a[i] = Syn(s) /\ i \in 1..Len(a)
        BY <1>1, <2>1, <2>2
      <3> QED BY <3>1 DEF Has
    <2>3. CASE i - n \in 1..(Len(q) - n) /\ b[i - n] = q[i]
      <3>1. b[i - n] = Syn(s) /\ i - n \in 1..Len(b)
        BY <1>1, <2>1, <2>3
      <3> QED BY <3>1 DEF Has
    <2> QED BY <1>1, <2>2, <2>3
  <1>3. ASSUME Ordered(q, s) PROVE Ordered(a, s)
    BY <1>1, <1>3 DEF Ordered
  <1>4. ASSUME Ordered(q, s), ~Has(a, s) PROVE Ordered(b, s)
    <2>1. SUFFICES ASSUME NEW i \in 1..Len(b), About(b[i], s)
                   PROVE  \E j \in 1..i : b[j] = Syn(s)
      BY DEF Ordered
    <2>2. n + i \in 1..Len(q) /\ About(q[n + i], s)
      BY <1>1, <2>1
    <2>3. PICK j \in 1..(n + i) : q[j] = Syn(s)
      BY <1>4, <2>2 DEF Ordered
    <2>4. j \notin 1..n
      BY <1>1, <1>4, <2>3 DEF Has
    <2>5. j - n \in 1..i /\ b[j - n] = q[j]
      BY <1>1, <2>2, <2>3, <2>4
    <2> QED BY <2>3, <2>5
  <1> QED BY <1>2, <1>3, <1>4 DEF a, b

-----------------------------------------------------------------------------
(* Types.                                                                   *)

\* The events the coroutines, the relays and the routine make are events.
LEMMA EventTypes ==
  /\ \A k \in Kinds, s \in Streams \cup {NoStream} :
        Local(k, s) \in Event /\ Remote(k, s) \in Event
  /\ \A s \in Streams : Syn(s) \in Event /\ Local("FIN", s) \in Event /\ Local("DATA", s) \in Event
  /\ None \in Event /\ Marker \in Event /\ Local("PONG", NoStream) \in Event
  /\ Local("SHUTDOWN", NoStream) \in Event /\ Local("PING", NoStream) \in Event
  BY DEF Event, Kinds, Local, Remote, Syn, None, Marker

\* Queue q of events is well formed.
EventQueue(q) == q \in Seq(Event) /\ Len(q) <= EvCap

\* An empty queue is one of events within its capacity.
LEMMA EmptyQueue == EventQueue(<<>>) /\ <<>> \in Seq(Event) /\ Len(<<>>) = 0
  <1>1. <<>> \in Seq(Event) /\ Len(<<>>) = 0
    OBVIOUS
  <1> QED BY <1>1, SessionAssumption DEF EventQueue

\* Taking an event leaves room in the queue.
LEMMA TailQueue ==
  ASSUME NEW q, EventQueue(q), q # <<>>
  PROVE  EventQueue(Tail(q)) /\ Head(q) \in Event /\ Len(Tail(q)) < EvCap
  BY TailElements, SessionAssumption DEF EventQueue

\* try_send keeps the capacity.
LEMMA TrySendQueue ==
  ASSUME NEW q, EventQueue(q), NEW ev \in Event
  PROVE  EventQueue(TrySend(q, ev))
  BY AppendElements, SessionAssumption DEF EventQueue, TrySend

\* event_tx.send keeps the capacity: it waits for room.
LEMMA SendEventQueue ==
  ASSUME EventQueue(evq), NEW ev \in Event, SendEvent(ev)
  PROVE  EventQueue(evq')
  BY AppendElements, SessionAssumption DEF EventQueue, SendEvent

\* send_tx.send keeps the capacity.
LEMMA SendFrameQueue ==
  ASSUME sendq \in Seq(Event), Len(sendq) <= SendCap, NEW f \in Event, SendFrame(f)
  PROVE  sendq' \in Seq(Event) /\ Len(sendq') <= SendCap
  BY AppendElements, SessionAssumption DEF SendFrame

\* The variables handle_event's loop changes.
LoopTypes ==
  /\ closed \in BOOLEAN /\ epc \in {"recv", "forward", "offer", "final", "done"} /\ eheld \in Event
  /\ sclosed \in [Streams -> BOOLEAN] /\ dq \in [Streams -> 0..DataCap]
  /\ streams \subseteq Streams /\ EventQueue(evq) /\ evOpen \in BOOLEAN

\* The empty buffer of close() is only queued where there is room.
LEMMA MarkedTypes ==
  ASSUME NEW d \in [Streams -> 0..DataCap], NEW s \in Streams
  PROVE  Marked(d, s) \in 0..DataCap
  <1>1. DataCap \in Nat /\ d[s] \in 0..DataCap
    BY SessionAssumption
  <1> QED BY <1>1 DEF Marked

\* A turn of handle_event's loop, or its end, keeps the types.
LEMMA EventLoopTypes ==
  ASSUME TypeOK, NEW stop \in BOOLEAN, NEW m \in SUBSET Streams, NEW q, EventQueue(q),
         NEW cl \in [Streams -> BOOLEAN], NEW d \in [Streams -> 0..DataCap],
         EventLoop(stop, m, q, cl, d)
  PROVE  LoopTypes'
  <1>1. CASE stop \/ closed
    <2>1. sclosed' \in [Streams -> BOOLEAN]
      BY <1>1 DEF EventLoop
    <2>2. dq' \in [Streams -> 0..DataCap]
      BY <1>1, MarkedTypes DEF EventLoop
    <2>3. EventQueue(evq')
      BY <1>1, EmptyQueue DEF EventLoop
    <2> QED BY <1>1, <2>1, <2>2, <2>3, EventTypes DEF EventLoop, LoopTypes
  <1>2. CASE ~(stop \/ closed)
    BY <1>2, EventTypes DEF EventLoop, LoopTypes, TypeOK
  <1> QED BY <1>1, <1>2

\* So does handle_event when it waits with a frame.
LEMMA EventForwardTypes ==
  ASSUME TypeOK, NEW f \in Event, NEW m \in SUBSET Streams, NEW q, EventQueue(q),
         NEW cl \in [Streams -> BOOLEAN], NEW d \in [Streams -> 0..DataCap],
         EventForward(f, m, q, cl, d)
  PROVE  LoopTypes'
  BY DEF EventForward, LoopTypes, TypeOK

\* The variables handle_send's loop changes.
SendTypes ==
  /\ {closed, sendOpen, dropped, ioActive} \subseteq BOOLEAN
  /\ sendq \in Seq(Event) /\ Len(sendq) <= SendCap
  /\ vbuf \in Seq(Event) /\ Len(vbuf) <= VBufMax
  /\ spc \in {"recv", "write", "shut", "done"}

\* The end of handle_send's loop keeps the types.
LEMMA SendExitTypes ==
  ASSUME TypeOK, SendExit
  PROVE  SendTypes'
  <1>1. /\ sendq' \in Seq(Event) /\ Len(sendq') <= SendCap
        /\ vbuf' \in Seq(Event) /\ Len(vbuf') <= VBufMax
    BY SessionAssumption, EmptyQueue DEF SendExit
  <1>2. {closed, sendOpen, dropped, ioActive}' \subseteq BOOLEAN /\ spc' = "shut"
    BY DEF SendExit, TypeOK
  <1> QED BY <1>1, <1>2 DEF SendTypes

\* So does a turn of it: no more than VBufMax frames are gathered.
LEMMA GatherTypes ==
  ASSUME TypeOK, NEW v \in Seq(Event), Len(v) <= VBufMax, Gather(v)
  PROVE  SendTypes'
  <1> DEFINE n == IF Len(sendq) < VBufMax - Len(v) THEN Len(sendq) ELSE VBufMax - Len(v)
             got == SubSeq(sendq, 1, n)
             rest == SubSeq(sendq, n + 1, Len(sendq))
  <1>1. /\ n \in 0..Len(sendq) /\ n <= VBufMax - Len(v) /\ Len(sendq) \in Nat
        /\ sendq \in Seq(Event)
    BY SessionAssumption DEF TypeOK
  <1>2. got \in Seq(Event) /\ Len(got) = n /\ rest \in Seq(Event) /\ Len(rest) = Len(sendq) - n
    <2> HIDE DEF n
    <2> QED BY <1>1, SplitElements
  <1>3. v \o got \in Seq(Event) /\ Len(v \o got) <= VBufMax
    <2> HIDE DEF n, got
    <2> QED BY <1>1, <1>2, ConcatElements, SessionAssumption
  <1>4. CASE v = <<>> /\ sendq = <<>>
    BY <1>4 DEF Gather, SendTypes, TypeOK
  <1>5. CASE ~(v = <<>> /\ sendq = <<>>) /\ Contains(got, Marker)
    BY <1>5, SendExitTypes DEF Gather
  <1>6. CASE ~(v = <<>> /\ sendq = <<>>) /\ ~Contains(got, Marker)
    <2>1. /\ vbuf' = v \o got /\ sendq' = rest
          /\ spc' = "write" /\ ioActive' = TRUE /\ UNCHANGED <<closed, sendOpen, dropped>>
      BY <1>6 DEF Gather
    <2>2. Len(sendq') <= SendCap
      <3> HIDE DEF n, got, rest
      <3> QED BY <1>1, <1>2, <2>1, SessionAssumption DEF TypeOK
    <2> HIDE DEF n, got, rest
    <2> QED BY <1>2, <1>3, <2>1, <2>2 DEF SendTypes, TypeOK
  <1> QED BY <1>4, <1>5, <1>6

\* An event of a stream names one; one of the other end came after it was told
\* of the stream, and is a SYN only where streams are accepted.
Sound(e, told, opens) ==
    OfStream(e) => /\ e.s \in Streams
                   /\ e.remote => told[e.s] # "none" /\ (e.k = "SYN" => ~opens)
AllSound(q, told, opens) == \A i \in 1..Len(q) : Sound(q[i], told, opens)

\* Events in the queue and in the hands of the coroutines and the routine are
\* sound; handle_event offers data only to a stream of the session.
EventsInv ==
    /\ AllSound(evq, peer, client)
    /\ Sound(rheld, peer, client) /\ (rpc = "push" => rheld.remote)
    /\ epc = "offer" => eheld.s \in Streams
    /\ \A i \in 1..Len(todo) : ~OfStream(todo[i])
    /\ ~client => pending = {}

\* TypeOK, with what does not change in most steps apart.
RestTypes ==
  /\ scope \in Scopes
  /\ {retired, listed} \subseteq BOOLEAN
  /\ rpc \in {"read", "push", "shutEvent", "shutSend", "done"} /\ rheld \in Event
  /\ pending \subseteq Streams
  /\ app \in [Streams -> AppStates] /\ rx \in [Streams -> BOOLEAN]
  /\ wrote \in [Streams -> 0..MaxWrites]
  /\ pong \in {"never", "fresh", "late"}
  /\ peer \in [Streams -> {"none", "open", "fin"}]
  /\ todo \in Seq(Event) /\ remote \in 0..scope.remote /\ ticks \in 0..scope.ticks

\* The three parts make up TypeOK.
LEMMA TypeParts == TypeOK <=> LoopTypes /\ SendTypes /\ RestTypes
  BY DEF TypeOK, LoopTypes, SendTypes, RestTypes, EventQueue

\* And after a step.
LEMMA TypePartsNext == TypeOK' <=> LoopTypes' /\ SendTypes' /\ RestTypes'
  BY DEF TypeOK, LoopTypes, SendTypes, RestTypes, EventQueue

\* What the other end sends: an event of a stream it was told of, or a SYN where
\* streams are accepted.
LEMMA PeerFrame ==
  ASSUME TypeOK, NEW ev \in PeerFrames
  PROVE  /\ ev \in Event /\ ev.remote = TRUE
         /\ ev.k \in {"SYN", "DATA", "FIN", "PING", "PONG"}
         /\ OfStream(ev) => ev.s \in Streams /\ (ev.k # "SYN" => peer[ev.s] = "open")
         /\ ev.k = "SYN" => ~client
  <1>1. scope.streams \subseteq Streams
    BY SessionAssumption DEF TypeOK
  <1>2. \/ \E s \in Streams : peer[s] = "open" /\ (ev = Remote("DATA", s) \/ ev = Remote("FIN", s))
        \/ ~client /\ \E s \in Streams : ev = Remote("SYN", s)
        \/ ev = Remote("PING", NoStream)
        \/ ev = Remote("PONG", NoStream)
    BY <1>1 DEF PeerFrames
  <1>3. CASE \E s \in Streams : peer[s] = "open" /\ (ev = Remote("DATA", s) \/ ev = Remote("FIN", s))
    <2>1. PICK s \in Streams : peer[s] = "open" /\ (ev = Remote("DATA", s) \/ ev = Remote("FIN", s))
      BY <1>3
    <2>2. CASE ev = Remote("DATA", s)
      BY <2>1, <2>2 DEF Remote, Event, Kinds, OfStream
    <2>3. CASE ev = Remote("FIN", s)
      BY <2>1, <2>3 DEF Remote, Event, Kinds, OfStream
    <2> QED BY <2>1, <2>2, <2>3
  <1>4. CASE ~client /\ \E s \in Streams : ev = Remote("SYN", s)
    BY <1>4 DEF Remote, Event, Kinds, OfStream
  <1>5. CASE ev = Remote("PING", NoStream)
    BY <1>5 DEF Remote, Event, Kinds, OfStream
  <1>6. CASE ev = Remote("PONG", NoStream)
    BY <1>6 DEF Remote, Event, Kinds, OfStream
  <1> QED BY <1>2, <1>3, <1>4, <1>5, <1>6

\* handle_recv keeps the types.
LEMMA RecvTypes ==
  ASSUME TypeOK, EventsInv, Recv
  PROVE  TypeOK'
  <1> USE DEF Recv, flags, tables, coroutines, env
  <1>0. LoopTypes /\ SendTypes /\ RestTypes
    BY TypeParts
  <1>1. CASE RecvFrame
    <2>1. PICK ev \in PeerFrames :
             /\ rheld' = ev
             /\ peer' = IF ev.k = "SYN" THEN [peer EXCEPT ![ev.s] = "open"]
                        ELSE IF ev.k = "FIN" THEN [peer EXCEPT ![ev.s] = "fin"]
                        ELSE peer
      BY <1>1 DEF RecvFrame
    <2>2. ev \in Event
      BY PeerFrame
    <2>3. peer' \in [Streams -> {"none", "open", "fin"}]
      BY <1>0, <2>1 DEF RestTypes
    <2>4. remote' \in 0..scope.remote
      <3>1. scope.remote \in Nat
        BY <1>0, SessionAssumption DEF RestTypes
      <3> QED BY <1>0, <1>1, <3>1 DEF RecvFrame, RestTypes
    <2>5. RestTypes'
      BY <1>0, <1>1, <2>1, <2>2, <2>3, <2>4 DEF RecvFrame, RestTypes
    <2>6. LoopTypes' /\ SendTypes'
      BY <1>0, <1>1 DEF RecvFrame, LoopTypes, SendTypes, EventQueue
    <2> QED BY <2>5, <2>6, TypePartsNext
  <1>2. CASE RecvPush
    <2>1. EventQueue(evq')
      BY <1>0, <1>2, SendEventQueue DEF RecvPush, LoopTypes, RestTypes
    <2>2. LoopTypes' /\ SendTypes'
      BY <1>0, <1>2, <2>1 DEF RecvPush, RecvLoop, RecvExit, LoopTypes, SendTypes
    <2>3. RestTypes'
      BY <1>0, <1>2, EventTypes DEF RecvPush, RecvLoop, RecvExit, RestTypes
    <2> QED BY <2>2, <2>3, TypePartsNext
  <1>3. CASE RecvStops
    <2>2. LoopTypes' /\ SendTypes'
      BY <1>0, <1>3 DEF RecvStops, RecvExit, LoopTypes, SendTypes, EventQueue
    <2>3. RestTypes'
      BY <1>0, <1>3 DEF RecvStops, RecvExit, RestTypes
    <2> QED BY <2>2, <2>3, TypePartsNext
  <1>4. CASE RecvShutEvent
    <2>1. EventQueue(evq')
      BY <1>0, <1>4, SendEventQueue, EventTypes DEF RecvShutEvent, LoopTypes
    <2>2. LoopTypes' /\ SendTypes'
      BY <1>0, <1>4, <2>1 DEF RecvShutEvent, LoopTypes, SendTypes
    <2>3. RestTypes'
      BY <1>0, <1>4 DEF RecvShutEvent, RestTypes
    <2> QED BY <2>2, <2>3, TypePartsNext
  <1>5. CASE RecvShutSend
    <2>1. sendq' \in Seq(Event) /\ Len(sendq') <= SendCap
      BY <1>0, <1>5, SendFrameQueue, EventTypes DEF RecvShutSend, SendTypes
    <2>2. LoopTypes' /\ SendTypes'
      BY <1>0, <1>5, <2>1 DEF RecvShutSend, LoopTypes, SendTypes, EventQueue
    <2>3. RestTypes'
      BY <1>0, <1>5 DEF RecvShutSend, RestTypes
    <2> QED BY <2>2, <2>3, TypePartsNext
  <1> QED BY <1>1, <1>2, <1>3, <1>4, <1>5

\* handle_event keeps the types.
LEMMA HandleTypes ==
  ASSUME TypeOK, EventsInv, Handle
  PROVE  TypeOK'
  <1> USE DEF EventFrame
  <1>0. LoopTypes /\ SendTypes /\ RestTypes
    BY TypeParts
  <1>a. /\ streams \in SUBSET Streams /\ sclosed \in [Streams -> BOOLEAN]
        /\ dq \in [Streams -> 0..DataCap] /\ EventQueue(evq) /\ retired \in BOOLEAN
        /\ eheld \in Event
    BY <1>0 DEF LoopTypes, RestTypes
  <1>b. ASSUME evq # <<>>
        PROVE  /\ EventQueue(Tail(evq)) /\ Head(evq) \in Event
               /\ OfStream(Head(evq)) => Head(evq).s \in Streams
    <2>1. EventQueue(Tail(evq)) /\ Head(evq) \in Event
      BY <1>a, <1>b, TailQueue
    <2>2. 1 \in 1..Len(evq) /\ Head(evq) = evq[1]
      BY <1>a, <1>b, TailElements DEF EventQueue
    <2> QED BY <2>1, <2>2 DEF EventsInv, AllSound, Sound
  <1>1. CASE EvShutdown
    <2>1. LoopTypes'
      BY <1>1, <1>a, <1>b, EventLoopTypes DEF EvShutdown, Taken
    <2>2. SendTypes' /\ RestTypes'
      BY <1>0, <1>1, <2>1 DEF EvShutdown, SendTypes, RestTypes, LoopTypes
    <2> QED BY <2>1, <2>2, TypePartsNext
  <1>2. CASE EvSynLocal
    <2>1. LoopTypes'
      <3>1. (IF listed THEN streams \cup pending ELSE streams) \in SUBSET Streams
        BY <1>0 DEF RestTypes, LoopTypes
      <3> QED BY <1>2, <1>a, <1>b, <3>1, EventForwardTypes DEF EvSynLocal, Taken
    <2>2. SendTypes' /\ RestTypes'
      BY <1>0, <1>2, <2>1 DEF EvSynLocal, SendTypes, RestTypes, LoopTypes, EventForward
    <2> QED BY <2>1, <2>2, TypePartsNext
  <1>3. ASSUME NEW r \in BOOLEAN, EvFin(r) PROVE TypeOK'
    <2>1. LoopTypes'
      <3> DEFINE s == Head(evq).s
                 m == streams \ {s}
                 q == IF s \in streams THEN TrySend(Tail(evq), Local("FIN", s)) ELSE Tail(evq)
                 cl == IF s \in streams THEN [sclosed EXCEPT ![s] = TRUE] ELSE sclosed
                 d == IF s \in streams THEN [dq EXCEPT ![s] = Marked(dq, s)] ELSE dq
      <3>1. evq # <<>> /\ s \in Streams
        BY <1>3, <1>b DEF EvFin, Taken, OfStream
      <3>2. m \in SUBSET Streams /\ cl \in [Streams -> BOOLEAN]
        BY <1>a
      <3>3. EventQueue(q)
        BY <1>b, <3>1, TrySendQueue, EventTypes
      <3>4. d \in [Streams -> 0..DataCap]
        BY <1>a, <3>1, MarkedTypes
      <3>5. \/ EventLoop(retired /\ m = {}, m, q, cl, d)
            \/ EventForward(Head(evq), m, q, cl, d)
        BY <1>3 DEF EvFin
      <3>6. (retired /\ m = {}) \in BOOLEAN /\ Head(evq) \in Event
        BY <1>b, <3>1
      <3> HIDE DEF m, q, cl, d
      <3> QED BY <3>2, <3>3, <3>4, <3>5, <3>6, EventLoopTypes, EventForwardTypes
    <2>2. SendTypes' /\ RestTypes'
      BY <1>0, <1>3, <2>1 DEF EvFin, SendTypes, RestTypes, LoopTypes
    <2> QED BY <2>1, <2>2, TypePartsNext
  <1>4. CASE EvRoutine
    <2>1. LoopTypes'
      <3>1. PICK idle \in {FALSE, ioActive} :
               EventLoop((retired /\ streams = {}) \/ idle, streams, Tail(evq), sclosed, dq)
        BY <1>4 DEF EvRoutine
      <3>2. ((retired /\ streams = {}) \/ idle) \in BOOLEAN
        BY <1>0 DEF SendTypes
      <3> QED BY <1>4, <1>a, <1>b, <3>1, <3>2, EventLoopTypes DEF EvRoutine, Taken
    <2>2. SendTypes' /\ RestTypes'
      BY <1>0, <1>4, <2>1 DEF EvRoutine, SendTypes, RestTypes, LoopTypes
    <2> QED BY <2>1, <2>2, TypePartsNext
  <1>5. CASE EvSend
    <2>1. LoopTypes'
      BY <1>5, <1>a, <1>b, EventForwardTypes DEF EvSend, Taken
    <2>2. SendTypes' /\ RestTypes'
      BY <1>0, <1>5, <2>1 DEF EvSend, SendTypes, RestTypes, LoopTypes
    <2> QED BY <2>1, <2>2, TypePartsNext
  <1>6. CASE EvPing
    <2>1. LoopTypes'
      BY <1>6, <1>a, <1>b, EventTypes, EventForwardTypes DEF EvPing, Taken
    <2>2. SendTypes' /\ RestTypes'
      BY <1>0, <1>6, <2>1 DEF EvPing, SendTypes, RestTypes, LoopTypes
    <2> QED BY <2>1, <2>2, TypePartsNext
  <1>7. CASE EvPong
    <2>1. LoopTypes'
      BY <1>7, <1>a, <1>b, EventLoopTypes DEF EvPong, Taken
    <2>2. SendTypes' /\ RestTypes'
      BY <1>0, <1>7, <2>1 DEF EvPong, SendTypes, RestTypes, LoopTypes
    <2> QED BY <2>1, <2>2, TypePartsNext
  <1>8. CASE EvSynRemote
    <2>0. Head(evq).s \in Streams /\ evq # <<>>
      BY <1>8, <1>b DEF EvSynRemote, Taken, OfStream
    <2>1. LoopTypes'
      <3>1. streams \cup {Head(evq).s} \in SUBSET Streams
        BY <1>a, <2>0
      <3> QED BY <1>8, <1>a, <1>b, <2>0, <3>1, EventLoopTypes DEF EvSynRemote
    <2>2. SendTypes' /\ RestTypes'
      <3>1. app' \in [Streams -> AppStates] /\ rx' \in [Streams -> BOOLEAN]
        BY <1>0, <1>8 DEF EvSynRemote, RestTypes, AppStates
      <3> QED BY <1>0, <1>8, <2>1, <3>1 DEF EvSynRemote, SendTypes, RestTypes, LoopTypes
    <2> QED BY <2>1, <2>2, TypePartsNext
  <1>9. CASE EvData
    <2>1. LoopTypes'
      <3>1. CASE Head(evq).s \in streams
        BY <1>0, <1>9, <1>b, <3>1 DEF EvData, Taken, LoopTypes
      <3>2. CASE Head(evq).s \notin streams
        BY <1>9, <1>a, <1>b, <3>2, EventLoopTypes DEF EvData, Taken
      <3> QED BY <3>1, <3>2
    <2>2. SendTypes' /\ RestTypes'
      BY <1>0, <1>9, <2>1 DEF EvData, SendTypes, RestTypes, LoopTypes
    <2> QED BY <2>1, <2>2, TypePartsNext
  <1>10. CASE EvOffered
    <2>1. LoopTypes'
      <3> DEFINE s == eheld.s
                 d == IF rx[s] THEN [dq EXCEPT ![s] = @ + 1] ELSE dq
      <3>1. s \in Streams
        BY <1>10 DEF EvOffered, EventsInv
      <3>2. d \in [Streams -> 0..DataCap]
        BY <1>10, <1>a, <3>1, SessionAssumption DEF EvOffered
      <3>3. EventLoop(FALSE, streams, evq, sclosed, d)
        BY <1>10 DEF EvOffered
      <3> HIDE DEF d
      <3> QED BY <1>a, <3>2, <3>3, EventLoopTypes
    <2>2. SendTypes' /\ RestTypes'
      BY <1>0, <1>10, <2>1 DEF EvOffered, SendTypes, RestTypes, LoopTypes
    <2> QED BY <2>1, <2>2, TypePartsNext
  <1>11. CASE EvForwarded
    <2>1. LoopTypes'
      <3>1. (~sendOpen) \in BOOLEAN
        BY <1>0 DEF SendTypes
      <3> QED BY <1>11, <1>a, <3>1, EventLoopTypes DEF EvForwarded
    <2>2. sendq' \in Seq(Event) /\ Len(sendq') <= SendCap
      BY <1>0, <1>11, <1>a, SendFrameQueue DEF EvForwarded, SendTypes
    <2>3. SendTypes' /\ RestTypes'
      BY <1>0, <1>11, <2>1, <2>2 DEF EvForwarded, SendTypes, RestTypes, LoopTypes, env
    <2> QED BY <2>1, <2>3, TypePartsNext
  <1>12. CASE EvFinal
    <2>2. sendq' \in Seq(Event) /\ Len(sendq') <= SendCap
      BY <1>0, <1>12, EventTypes, SendFrameQueue DEF EvFinal, SendTypes
    <2>1. LoopTypes'
      BY <1>0, <1>12 DEF EvFinal, LoopTypes, EventQueue, tables
    <2>3. SendTypes' /\ RestTypes'
      BY <1>0, <1>12, <2>2 DEF EvFinal, SendTypes, RestTypes, env, tables
    <2> QED BY <2>1, <2>3, TypePartsNext
  <1> QED BY <1>1, <1>2, <1>3, <1>4, <1>5, <1>6, <1>7, <1>8, <1>9, <1>10, <1>11, <1>12
          DEF Handle

\* handle_send keeps the types.
LEMMA SendersTypes ==
  ASSUME TypeOK, EventsInv, Send
  PROVE  TypeOK'
  <1> USE DEF SendFrameVars, tables
  <1>0. LoopTypes /\ SendTypes /\ RestTypes
    BY TypeParts
  <1>1. ASSUME SendTypes', UNCHANGED SendFrameVars,
               peer' \in [Streams -> {"none", "open", "fin"}]
        PROVE  TypeOK'
    <2>1. LoopTypes'
      BY <1>0, <1>1 DEF LoopTypes, SendTypes, EventQueue
    <2>2. RestTypes'
      BY <1>0, <1>1 DEF RestTypes
    <2> QED BY <1>1, <2>1, <2>2, TypePartsNext
  <1>2. CASE SendRecv
    <2>1. SendTypes'
      <3>1. <<>> \in Seq(Event) /\ Len(<<>>) <= VBufMax
        BY EmptyQueue, SessionAssumption
      <3> QED BY <1>2, <3>1, GatherTypes DEF SendRecv
    <2>2. UNCHANGED SendFrameVars /\ UNCHANGED peer
      BY <1>2 DEF SendRecv
    <2> QED BY <1>0, <1>1, <2>1, <2>2 DEF RestTypes
  <1>3. CASE SendWritten
    <2>1. PICK n \in 0..Len(vbuf) :
             /\ peer' = [s \in Streams |->
                   IF \E i \in 1..n : vbuf[i] = Local("SYN", s) THEN "open" ELSE peer[s]]
             /\ IF closed THEN SendExit ELSE Gather(SubSeq(vbuf, n + 1, Len(vbuf)))
      BY <1>3 DEF SendWritten
    <2>2. peer' \in [Streams -> {"none", "open", "fin"}]
      BY <1>0, <2>1 DEF RestTypes
    <2>3. /\ SubSeq(vbuf, n + 1, Len(vbuf)) \in Seq(Event)
          /\ Len(SubSeq(vbuf, n + 1, Len(vbuf))) <= VBufMax
      <3>1. vbuf \in Seq(Event) /\ Len(vbuf) \in Nat /\ Len(vbuf) <= VBufMax
        BY <1>0 DEF SendTypes
      <3>2. /\ SubSeq(vbuf, n + 1, Len(vbuf)) \in Seq(Event)
            /\ Len(SubSeq(vbuf, n + 1, Len(vbuf))) = Len(vbuf) - n
        BY <3>1, SplitElements
      <3> QED BY <3>1, <3>2, SessionAssumption
    <2>4. SendTypes'
      BY <2>1, <2>3, SendExitTypes, GatherTypes
    <2>5. UNCHANGED SendFrameVars
      BY <1>3 DEF SendWritten
    <2> QED BY <1>1, <2>2, <2>4, <2>5
  <1>4. CASE SendFails
    <2>1. SendTypes' /\ UNCHANGED SendFrameVars /\ UNCHANGED peer
      BY <1>4, SendExitTypes DEF SendFails
    <2> QED BY <1>0, <1>1, <2>1 DEF RestTypes
  <1>5. CASE SendShut
    <2>1. EventQueue(evq')
      BY <1>0, <1>5, EventTypes, SendEventQueue DEF SendShut, LoopTypes
    <2>2. LoopTypes' /\ SendTypes'
      BY <1>0, <1>5, <2>1 DEF SendShut, LoopTypes, SendTypes
    <2>3. RestTypes'
      BY <1>0, <1>5 DEF SendShut, RestTypes, env
    <2> QED BY <2>2, <2>3, TypePartsNext
  <1> QED BY <1>2, <1>3, <1>4, <1>5 DEF Send

\* create_stream and the relays keep the types.
LEMMA AppTypes ==
  ASSUME TypeOK, EventsInv, NEW s \in Streams, App(s)
  PROVE  TypeOK'
  <1> USE DEF AppFrame, flags, coroutines, env
  <1>0. LoopTypes /\ SendTypes /\ RestTypes
    BY TypeParts
  <1>1. /\ EventQueue(evq) /\ dq \in [Streams -> 0..DataCap] /\ wrote \in [Streams -> 0..MaxWrites]
        /\ sclosed \in [Streams -> BOOLEAN] /\ rx \in [Streams -> BOOLEAN]
        /\ app \in [Streams -> AppStates] /\ pending \subseteq Streams
    BY <1>0 DEF LoopTypes, RestTypes
  <1>2. ASSUME UNCHANGED AppFrame, EventQueue(evq)', (dq \in [Streams -> 0..DataCap])',
               (wrote \in [Streams -> 0..MaxWrites])', (sclosed \in [Streams -> BOOLEAN])',
               (rx \in [Streams -> BOOLEAN])', (app \in [Streams -> AppStates])',
               (pending \subseteq Streams)'
        PROVE  TypeOK'
    <2>1. LoopTypes'
      BY <1>0, <1>2 DEF LoopTypes
    <2>2. SendTypes'
      BY <1>0, <1>2 DEF SendTypes
    <2>3. RestTypes'
      BY <1>0, <1>2 DEF RestTypes
    <2> QED BY <2>1, <2>2, <2>3, TypePartsNext
  <1> HIDE DEF AppFrame
  <1>3. CASE Create(s)
    BY <1>1, <1>2, <1>3 DEF Create, AppStates, EventQueue
  <1>4. CASE SynQueued(s)
    <2>1. EventQueue(evq')
      BY <1>1, <1>4, SendEventQueue, EventTypes DEF SynQueued, Syn
    <2> QED BY <1>1, <1>2, <1>4, <2>1 DEF SynQueued, AppStates
  <1>5. CASE Connected(s)
    BY <1>1, <1>2, <1>5 DEF Connected, AppStates, EventQueue
  <1>6. ASSUME NEW st \in AppStates, AppClose(s, st)
        PROVE  /\ EventQueue(evq)' /\ (sclosed \in [Streams -> BOOLEAN])'
               /\ (app \in [Streams -> AppStates])'
    BY <1>1, <1>6, TrySendQueue, EventTypes DEF AppClose
  <1>7. CASE ConnectFails(s)
    <2>1. EventQueue(evq)' /\ (sclosed \in [Streams -> BOOLEAN])' /\ (app \in [Streams -> AppStates])'
      BY <1>6, <1>7 DEF ConnectFails, AppStates
    <2>2. (dq \in [Streams -> 0..DataCap])'
      BY <1>1, <1>7, SessionAssumption DEF ConnectFails
    <2> QED BY <1>1, <1>2, <1>7, <2>1, <2>2 DEF ConnectFails
  <1>8. CASE AppWrite(s)
    <2>1. EventQueue(evq')
      BY <1>1, <1>8, SendEventQueue, EventTypes DEF AppWrite
    <2>2. (wrote \in [Streams -> 0..MaxWrites])'
      BY <1>1, <1>8, SessionAssumption DEF AppWrite
    <2> QED BY <1>1, <1>2, <1>8, <2>1, <2>2 DEF AppWrite
  <1>9. CASE AppShutdown(s)
    BY <1>1, <1>2, <1>9 DEF AppShutdown, EventQueue
  <1>10. CASE AppRead(s)
    <2>1. (dq \in [Streams -> 0..DataCap])'
      BY <1>1, <1>10, SessionAssumption DEF AppRead
    <2> QED BY <1>1, <1>2, <1>10, <2>1 DEF AppRead, EventQueue
  <1>11. CASE AppReadClosed(s)
    BY <1>1, <1>2, <1>11 DEF AppReadClosed, AppStates, EventQueue
  <1>12. CASE AppWriteFails(s)
    BY <1>1, <1>2, <1>12 DEF AppWriteFails, AppStates, EventQueue
  <1>13. CASE AppEnds(s)
    <2>1. EventQueue(evq)' /\ (sclosed \in [Streams -> BOOLEAN])' /\ (app \in [Streams -> AppStates])'
      BY <1>6, <1>13 DEF AppEnds, AppStates
    <2> QED BY <1>1, <1>2, <1>13, <2>1 DEF AppEnds
  <1>14. CASE AppAborts(s)
    BY <1>1, <1>2, <1>14 DEF AppAborts, AppStates, EventQueue
  <1> QED BY <1>3, <1>4, <1>5, <1>7, <1>8, <1>9, <1>10, <1>11, <1>12, <1>13, <1>14 DEF App

\* What a run of routine_all_sessions has to send.
LEMMA RoutineTodo ==
  ASSUME TypeOK, RoutineTick
  PROVE  todo' \in Seq(Event) /\ \A i \in 1..Len(todo') : ~OfStream(todo'[i])
  <1> DEFINE ping == Local("PING", NoStream)
             turn == Local("ROUTINE", NoStream)
             stop == Local("SHUTDOWN", NoStream)
  <1>1. /\ ping \in Event /\ turn \in Event /\ stop \in Event
        /\ ~OfStream(ping) /\ ~OfStream(turn) /\ ~OfStream(stop)
    BY DEF Event, Kinds, Local, OfStream
  <1>2. \/ todo' = <<stop>> \/ todo' = <<ping>> \o <<turn>>
        \/ todo' = <<>> \o <<turn>> \/ todo' = <<turn>>
    BY DEF RoutineTick
  <1> HIDE DEF ping, turn, stop
  <1>3. CASE todo' = <<stop>>
    BY <1>1, <1>3
  <1>4. CASE todo' = <<ping>> \o <<turn>>
    <2>1. todo' \in Seq(Event) /\ Len(todo') = 2 /\ todo'[1] = ping /\ todo'[2] = turn
      BY <1>1, <1>4
    <2> QED BY <1>1, <2>1
  <1>5. CASE todo' = <<>> \o <<turn>>
    <2>1. todo' \in Seq(Event) /\ Len(todo') = 1 /\ todo'[1] = turn
      BY <1>1, <1>5
    <2> QED BY <1>1, <2>1
  <1>6. CASE todo' = <<turn>>
    BY <1>1, <1>6
  <1> QED BY <1>2, <1>3, <1>4, <1>5, <1>6

\* The routine keeps the types.
LEMMA RoutineTypes ==
  ASSUME TypeOK, EventsInv, Routine
  PROVE  TypeOK'
  <1> USE DEF flags, tables, coroutines
  <1>0. LoopTypes /\ SendTypes /\ RestTypes
    BY TypeParts
  <1>1. CASE RoutineTick
    <2>1. todo' \in Seq(Event)
      BY <1>1, RoutineTodo
    <2>2. ticks' \in 0..scope.ticks
      <3>1. scope.ticks \in Nat
        BY <1>0, SessionAssumption DEF RestTypes
      <3> QED BY <1>0, <1>1, <3>1 DEF RoutineTick, RestTypes
    <2>3. retired' \in BOOLEAN /\ listed' \in BOOLEAN
      <3>1. client \in BOOLEAN /\ retired \in BOOLEAN /\ listed \in BOOLEAN
        BY <1>0, SessionAssumption DEF RestTypes, client
      <3> QED BY <1>1, <3>1 DEF RoutineTick
    <2>4. LoopTypes' /\ SendTypes'
      BY <1>0, <1>1 DEF RoutineTick, LoopTypes, SendTypes, EventQueue
    <2>5. RestTypes'
      BY <1>0, <1>1, <2>1, <2>2, <2>3 DEF RoutineTick, RestTypes
    <2> QED BY <2>4, <2>5, TypePartsNext
  <1>2. CASE RoutineSend
    <2>1. Head(todo) \in Event /\ Tail(todo) \in Seq(Event)
      BY <1>0, <1>2, TailElements DEF RoutineSend, RestTypes
    <2>2. EventQueue(evq')
      BY <1>0, <1>2, <2>1, SendEventQueue DEF RoutineSend, LoopTypes
    <2>3. LoopTypes' /\ SendTypes'
      BY <1>0, <1>2, <2>2 DEF RoutineSend, LoopTypes, SendTypes
    <2>4. RestTypes'
      BY <1>0, <1>2, <2>1 DEF RoutineSend, RestTypes
    <2> QED BY <2>3, <2>4, TypePartsNext
  <1> QED BY <1>1, <1>2 DEF Routine

\* So does a step of others.
LEMMA StutterTypes ==
  ASSUME TypeOK, UNCHANGED vars
  PROVE  TypeOK'
  <1>1. /\ UNCHANGED flags /\ UNCHANGED coroutines /\ UNCHANGED tables /\ UNCHANGED env
        /\ UNCHANGED <<evq, sendq, vbuf>>
    BY DEF vars
  <1> QED BY <1>1 DEF TypeOK, flags, coroutines, tables, env

\* TypeOK is inductive with EventsInv.
LEMMA NextTypes ==
  ASSUME TypeOK, EventsInv, [Next]_vars
  PROVE  TypeOK'
  BY RecvTypes, HandleTypes, SendersTypes, AppTypes, RoutineTypes, StutterTypes DEF Next

-----------------------------------------------------------------------------
(* Events name streams, and those of the other end streams it knows.        *)

\* What the other end was told of, it knows from then on.
LEMMA ToldStays ==
  ASSUME TypeOK, [Next]_vars, NEW s \in Streams, peer[s] # "none"
  PROVE  peer'[s] # "none"
  <1> USE DEF env
  <1>0. peer \in [Streams -> {"none", "open", "fin"}]
    BY DEF TypeOK
  <1>1. CASE RecvFrame
    <2>1. PICK ev \in PeerFrames :
             peer' = IF ev.k = "SYN" THEN [peer EXCEPT ![ev.s] = "open"]
                     ELSE IF ev.k = "FIN" THEN [peer EXCEPT ![ev.s] = "fin"]
                     ELSE peer
      BY <1>1 DEF RecvFrame
    <2> QED BY <1>0, <2>1
  <1>2. CASE SendWritten
    BY <1>0, <1>2 DEF SendWritten
  <1>3. CASE UNCHANGED peer
    BY <1>3
  <1>4. CASE Recv /\ ~RecvFrame
    BY <1>3, <1>4 DEF Recv, RecvPush, RecvStops, RecvShutEvent, RecvShutSend
  <1>5. CASE Handle
    BY <1>3, <1>5 DEF Handle, EvShutdown, EvSynLocal, EvFin, EvRoutine, EvSend, EvPing, EvPong,
         EvSynRemote, EvData, EvOffered, EvForwarded, EvFinal, EventFrame
  <1>6. CASE Send /\ ~SendWritten
    BY <1>3, <1>6 DEF Send, SendRecv, SendFails, SendShut
  <1>7. CASE \E t \in Streams : App(t)
    BY <1>3, <1>7 DEF App, Create, SynQueued, Connected, ConnectFails, AppWrite, AppShutdown,
         AppRead, AppReadClosed, AppWriteFails, AppEnds, AppAborts, AppFrame
  <1>8. CASE Routine
    BY <1>3, <1>8 DEF Routine, RoutineTick, RoutineSend
  <1>9. CASE UNCHANGED vars
    BY <1>3, <1>9 DEF vars
  <1> QED BY <1>1, <1>2, <1>4, <1>5, <1>6, <1>7, <1>8, <1>9 DEF Next

\* An end keeps its role.
LEMMA ClientStays ==
  ASSUME [Next]_vars
  PROVE  client' = client
  <1> SUFFICES UNCHANGED scope
    BY DEF client
  <1> USE DEF env
  <1>1. CASE Recv
    BY <1>1 DEF Recv, RecvFrame, RecvPush, RecvStops, RecvShutEvent, RecvShutSend
  <1>2. CASE Handle
    BY <1>2 DEF Handle, EvShutdown, EvSynLocal, EvFin, EvRoutine, EvSend, EvPing, EvPong,
         EvSynRemote, EvData, EvOffered, EvForwarded, EvFinal, EventFrame
  <1>3. CASE Send
    BY <1>3 DEF Send, SendRecv, SendWritten, SendFails, SendShut, SendFrameVars
  <1>4. CASE \E t \in Streams : App(t)
    BY <1>4 DEF App, Create, SynQueued, Connected, ConnectFails, AppWrite, AppShutdown,
         AppRead, AppReadClosed, AppWriteFails, AppEnds, AppAborts, AppFrame
  <1>5. CASE Routine
    BY <1>5 DEF Routine, RoutineTick, RoutineSend
  <1>6. CASE UNCHANGED vars
    BY <1>6 DEF vars
  <1> QED BY <1>1, <1>2, <1>3, <1>4, <1>5, <1>6 DEF Next

\* Only an end that opens streams has pending ones.
LEMMA PendingStays ==
  ASSUME [Next]_vars, ~client => pending = {}
  PROVE  ~client => pending' = {}
  <1> USE DEF tables
  <1>1. CASE Recv
    BY <1>1 DEF Recv, RecvFrame, RecvPush, RecvStops, RecvShutEvent, RecvShutSend
  <1>2. CASE Handle
    BY <1>2 DEF Handle, EvShutdown, EvSynLocal, EvFin, EvRoutine, EvSend, EvPing, EvPong,
         EvSynRemote, EvData, EvOffered, EvForwarded, EvFinal
  <1>3. CASE Send
    BY <1>3 DEF Send, SendRecv, SendWritten, SendFails, SendShut, SendFrameVars
  <1>4. CASE \E t \in Streams : App(t)
    BY <1>4 DEF App, Create, SynQueued, Connected, ConnectFails, AppWrite, AppShutdown,
         AppRead, AppReadClosed, AppWriteFails, AppEnds, AppAborts
  <1>5. CASE Routine
    BY <1>5 DEF Routine, RoutineTick, RoutineSend
  <1>6. CASE UNCHANGED vars
    BY <1>6 DEF vars
  <1> QED BY <1>1, <1>2, <1>3, <1>4, <1>5, <1>6 DEF Next

\* An event stays sound.
LEMMA SoundStays ==
  ASSUME TypeOK, [Next]_vars, NEW e, Sound(e, peer, client)
  PROVE  Sound(e, peer', client)
  BY ToldStays DEF Sound

\* So do the events of a queue.
LEMMA AllSoundStays ==
  ASSUME TypeOK, [Next]_vars, NEW q, AllSound(q, peer, client)
  PROVE  AllSound(q, peer', client)
  BY SoundStays DEF AllSound

\* Taking and adding sound events leaves sound events.
LEMMA QueueSound ==
  ASSUME NEW q \in Seq(Event), NEW p, AllSound(q, p, client)
  PROVE  /\ q # <<>> => AllSound(Tail(q), p, client) /\ Sound(Head(q), p, client)
         /\ \A e \in Event : Sound(e, p, client) => AllSound(Append(q, e), p, client) /\ AllSound(TrySend(q, e), p, client)
         /\ AllSound(<<>>, p, client)
  <1>1. ASSUME q # <<>> PROVE AllSound(Tail(q), p, client) /\ Sound(Head(q), p, client)
    <2>1. 1 \in 1..Len(q)
      BY <1>1, TailElements
    <2> QED BY <1>1, <2>1, TailElements DEF AllSound
  <1>2. ASSUME NEW e \in Event, Sound(e, p, client) PROVE AllSound(Append(q, e), p, client)
    BY <1>2, AppendElements DEF AllSound
  <1>3. AllSound(<<>>, p, client)
    BY DEF AllSound
  <1> QED BY <1>1, <1>2, <1>3 DEF TrySend

\* Events of the session itself are sound, and those of a stream of this end.
LEMMA LocalSound ==
  ASSUME NEW p
  PROVE  /\ \A k \in {"PING", "PONG", "ROUTINE", "SHUTDOWN"} : Sound(Local(k, NoStream), p, client)
         /\ \A k \in Kinds, s \in Streams : Sound(Local(k, s), p, client)
         /\ Sound(None, p, client)
  BY DEF Sound, Local, OfStream, None

\* event_tx.send of a sound event leaves sound events.
LEMMA SendEventSound ==
  ASSUME EventQueue(evq), NEW p, AllSound(evq, p, client), NEW e \in Event, Sound(e, p, client), SendEvent(e)
  PROVE  AllSound(evq', p, client)
  BY QueueSound DEF SendEvent, EventQueue

\* A turn of handle_event's loop with a sound queue leaves sound events.
LEMMA EventLoopSound ==
  ASSUME NEW stop, NEW m, NEW q, NEW cl, NEW d, NEW p, AllSound(q, p, client),
         EventLoop(stop, m, q, cl, d) \/ (\E f : EventForward(f, m, q, cl, d))
  PROVE  AllSound(evq', p, client) /\ epc' # "offer"
  <1>1. AllSound(<<>>, p, client)
    BY DEF AllSound
  <1> QED BY <1>1 DEF EventLoop, EventForward

\* EventsInv is inductive with TypeOK.
LEMMA NextEvents ==
  ASSUME TypeOK, EventsInv, [Next]_vars
  PROVE  EventsInv'
  <1> DEFINE Todo == \A i \in 1..Len(todo) : ~OfStream(todo[i])
             Pushed == Sound(rheld, peer, client) /\ (rpc = "push" => rheld.remote)
             Offered == epc = "offer" => eheld.s \in Streams
  <1>0. /\ EventQueue(evq) /\ EventQueue(<<>>) /\ rheld \in Event /\ eheld \in Event
        /\ AllSound(evq, peer', client) /\ Sound(rheld, peer', client) /\ Todo /\ Pushed /\ Offered
    BY AllSoundStays, SoundStays, EmptyQueue DEF EventsInv, TypeOK, EventQueue
  <1>a. evq # <<>> => AllSound(Tail(evq), peer', client) /\ Sound(Head(evq), peer', client) /\ Tail(evq) \in Seq(Event)
    BY <1>0, QueueSound, TailElements DEF EventQueue
  <1>c. client' = client
    BY ClientStays
  <1>b. SUFFICES AllSound(evq', peer', client) /\ Pushed' /\ Offered' /\ Todo'
    BY <1>c, PendingStays DEF EventsInv
  <1>1. CASE Recv
    <2> USE DEF flags, tables, env
    <2>1. CASE RecvFrame
      <3>1. PICK ev \in PeerFrames :
               /\ rheld' = ev
               /\ peer' = IF ev.k = "SYN" THEN [peer EXCEPT ![ev.s] = "open"]
                          ELSE IF ev.k = "FIN" THEN [peer EXCEPT ![ev.s] = "fin"]
                          ELSE peer
        BY <2>1 DEF RecvFrame
      <3>2. /\ ev.remote = TRUE
            /\ OfStream(ev) => ev.s \in Streams /\ (ev.k # "SYN" => peer[ev.s] = "open")
        BY PeerFrame
      <3>3. Sound(ev, peer', client)
        BY <3>1, <3>2, PeerFrame DEF Sound, OfStream, TypeOK
      <3> QED BY <1>0, <1>c, <2>1, <3>1, <3>2, <3>3 DEF RecvFrame
    <2>2. CASE RecvPush
      <3>1. AllSound(evq', peer', client)
        BY <1>0, <1>c, <2>2, SendEventSound DEF RecvPush
      <3>2. rpc' # "push" /\ rheld' = None /\ UNCHANGED <<epc, eheld, todo>>
        BY <2>2 DEF RecvPush, RecvLoop, RecvExit
      <3> QED BY <1>0, <1>c, <3>1, <3>2, LocalSound
    <2>3. CASE RecvStops
      BY <1>0, <1>c, <2>3 DEF RecvStops, RecvExit
    <2>4. CASE RecvShutEvent
      <3>1. AllSound(evq', peer', client)
        BY <1>0, <1>c, <2>4, SendEventSound, LocalSound, EventTypes DEF RecvShutEvent
      <3> QED BY <1>0, <1>c, <2>4, <3>1 DEF RecvShutEvent
    <2>5. CASE RecvShutSend
      BY <1>0, <1>c, <2>5 DEF RecvShutSend
    <2> QED BY <1>1, <2>1, <2>2, <2>3, <2>4, <2>5 DEF Recv
  <1>2. CASE Handle
    <2> USE DEF EventFrame
    <2>1. Pushed' /\ Todo'
      BY <1>0, <1>c, <1>2 DEF Handle, EvShutdown, EvSynLocal, EvFin, EvRoutine, EvSend, EvPing, EvPong,
         EvSynRemote, EvData, EvOffered, EvForwarded, EvFinal, env
    <2>2. ASSUME NEW q, AllSound(q, peer', client),
                 \E stop, m, cl, d : \/ EventLoop(stop, m, q, cl, d)
                                     \/ \E f : EventForward(f, m, q, cl, d)
          PROVE  AllSound(evq', peer', client) /\ Offered'
      BY <2>2, EventLoopSound
    <2>3. CASE EvShutdown
      BY <1>a, <2>1, <2>2, <2>3 DEF EvShutdown, Taken
    <2>4. CASE EvSynLocal
      BY <1>a, <2>1, <2>2, <2>4 DEF EvSynLocal, Taken
    <2>5. ASSUME NEW r \in BOOLEAN, EvFin(r) PROVE AllSound(evq', peer', client) /\ Offered'
      <3> DEFINE s == Head(evq).s
                 q == IF s \in streams THEN TrySend(Tail(evq), Local("FIN", s)) ELSE Tail(evq)
      <3>1. evq # <<>> /\ s \in Streams
        BY <1>a, <2>5 DEF EvFin, Taken, OfStream, Sound
      <3>2. AllSound(q, peer', client)
        <4>1. Local("FIN", s) \in Event /\ Sound(Local("FIN", s), peer', client)
          BY <3>1, EventTypes, LocalSound DEF Kinds
        <4> QED BY <1>a, <3>1, <4>1, QueueSound
      <3>3. \E stop, m, cl, d : \/ EventLoop(stop, m, q, cl, d)
                                \/ \E f : EventForward(f, m, q, cl, d)
        BY <2>5 DEF EvFin
      <3> HIDE DEF q
      <3> QED BY <2>2, <3>2, <3>3
    <2>6. CASE EvRoutine
      BY <1>a, <2>1, <2>2, <2>6 DEF EvRoutine, Taken
    <2>7. CASE EvSend
      BY <1>a, <2>1, <2>2, <2>7 DEF EvSend, Taken
    <2>8. CASE EvPing
      BY <1>a, <2>1, <2>2, <2>8 DEF EvPing, Taken
    <2>9. CASE EvPong
      BY <1>a, <2>1, <2>2, <2>9 DEF EvPong, Taken
    <2>10. CASE EvSynRemote
      BY <1>a, <2>1, <2>2, <2>10 DEF EvSynRemote, Taken
    <2>11. CASE EvData
      <3>1. CASE Head(evq).s \in streams
        BY <1>a, <2>1, <2>11, <3>1 DEF EvData, Taken, TypeOK
      <3>2. CASE Head(evq).s \notin streams
        BY <1>a, <2>1, <2>2, <2>11, <3>2 DEF EvData, Taken
      <3> QED BY <3>1, <3>2
    <2>12. CASE EvOffered
      BY <1>0, <1>c, <2>1, <2>2, <2>12 DEF EvOffered
    <2>13. CASE EvForwarded
      BY <1>0, <1>c, <2>1, <2>2, <2>13 DEF EvForwarded
    <2>14. CASE EvFinal
      BY <1>0, <1>c, <2>1, <2>14 DEF EvFinal
    <2> QED BY <1>2, <2>1, <2>3, <2>4, <2>5, <2>6, <2>7, <2>8, <2>9, <2>10, <2>11, <2>12,
               <2>13, <2>14 DEF Handle
  <1>3. CASE Send
    <2>1. CASE SendShut
      <3>1. AllSound(evq', peer', client)
        BY <1>0, <1>c, <2>1, SendEventSound, LocalSound, EventTypes DEF SendShut
      <3> QED BY <1>0, <1>c, <2>1, <3>1 DEF SendShut, env
    <2>2. CASE SendRecv \/ SendWritten \/ SendFails
      BY <1>0, <1>c, <2>2 DEF SendRecv, SendWritten, SendFails, SendFrameVars
    <2> QED BY <1>3, <2>1, <2>2 DEF Send
  <1>4. CASE \E s \in Streams : App(s)
    <2>1. PICK s \in Streams : App(s)
      BY <1>4
    <2>2. UNCHANGED <<rpc, rheld, epc, eheld, todo>>
      BY <2>1 DEF App, Create, SynQueued, Connected, ConnectFails, AppWrite, AppShutdown,
         AppRead, AppReadClosed, AppWriteFails, AppEnds, AppAborts, AppFrame, coroutines, env
    <2>3. /\ \A k \in {"SYN", "DATA", "FIN"} :
                Local(k, s) \in Event /\ Sound(Local(k, s), peer', client)
      BY EventTypes, LocalSound DEF Kinds
    <2>4. \/ evq' = evq
          \/ \E k \in {"SYN", "DATA", "FIN"} : \/ SendEvent(Local(k, s))
                                               \/ evq' = TrySend(evq, Local(k, s))
      BY <2>1 DEF App, Create, SynQueued, Connected, ConnectFails, AppWrite, AppShutdown,
         AppRead, AppReadClosed, AppWriteFails, AppEnds, AppAborts, AppClose
    <2>5. AllSound(evq', peer', client)
      BY <1>0, <1>c, <2>3, <2>4, SendEventSound, QueueSound DEF EventQueue
    <2> QED BY <1>0, <1>c, <2>2, <2>5
  <1>5. CASE RoutineTick
    BY <1>0, <1>c, <1>5, RoutineTodo DEF RoutineTick, coroutines
  <1>6. CASE RoutineSend
    <2>0. todo \in Seq(Event) /\ todo # <<>>
      BY <1>6 DEF RoutineSend, TypeOK
    <2>1. Head(todo) \in Event /\ ~OfStream(Head(todo)) /\ Todo'
      <3>1. 1 \in 1..Len(todo) /\ Head(todo) = todo[1]
        BY <2>0, TailElements
      <3> QED BY <1>0, <1>c, <1>6, <2>0, <3>1, TailElements DEF RoutineSend
    <2>2. AllSound(evq', peer', client)
      BY <1>0, <1>c, <1>6, <2>1, SendEventSound DEF RoutineSend, Sound
    <2> QED BY <1>0, <1>c, <1>6, <2>1, <2>2 DEF RoutineSend, coroutines
  <1>7. CASE UNCHANGED vars
    BY <1>0, <1>c, <1>7 DEF vars, coroutines, env
  <1> QED BY <1>1, <1>2, <1>3, <1>4, <1>5, <1>6, <1>7 DEF Next, Routine

-----------------------------------------------------------------------------
(* A stream that is not closed is in the map or still pending.              *)

\* handle_event's map is empty once its loop is over.
StreamsInv ==
    /\ epc \in {"final", "done"} => streams = {}
    /\ \A s \in Streams : app[s] # "none" /\ ~sclosed[s] => s \in pending \/ s \in streams

\* What a turn of handle_event's loop does to the map and the closed flags.
LEMMA EventLoopStreams ==
  ASSUME NEW stop, NEW m, NEW q, NEW cl, NEW d, EventLoop(stop, m, q, cl, d)
  PROVE  \/ epc' = "final" /\ streams' = {} /\ \A s \in Streams : sclosed'[s] = (cl[s] \/ s \in m)
         \/ epc' = "recv" /\ streams' = m /\ sclosed' = cl
  BY DEF EventLoop

\* StreamsInv is inductive: a stream leaves the map only to be closed.
LEMMA NextStreams ==
  ASSUME TypeOK, EventsInv, StreamsInv, [Next]_vars
  PROVE  StreamsInv'
  <1> DEFINE Kept(cl, m) == \A s \in Streams : app'[s] # "none" /\ ~cl[s] => s \in pending' \/ s \in m
  <1>0. /\ app \in [Streams -> AppStates] /\ sclosed \in [Streams -> BOOLEAN]
        /\ streams \subseteq Streams /\ pending \subseteq Streams
    BY DEF TypeOK
  <1>a. ASSUME NEW cl \in [Streams -> BOOLEAN], NEW m, Kept(cl, m),
               \E stop, q, d : \/ EventLoop(stop, m, q, cl, d)
                               \/ \E f : EventForward(f, m, q, cl, d)
        PROVE  StreamsInv'
    <2>1. CASE \E stop, q, d : EventLoop(stop, m, q, cl, d)
      BY <1>a, <2>1, EventLoopStreams DEF StreamsInv
    <2>2. CASE \E f, q, d : EventForward(f, m, q, cl, d)
      BY <1>a, <2>2 DEF StreamsInv, EventForward
    <2> QED BY <1>a, <2>1, <2>2
  <1>b. ASSUME UNCHANGED <<app, pending>> PROVE Kept(sclosed, streams)
    BY <1>b DEF StreamsInv
  <1> HIDE DEF Kept
  <1>1. CASE UNCHANGED <<epc, streams, pending, app, sclosed>>
    BY <1>1 DEF StreamsInv
  <1>2. CASE Handle
    <2> USE DEF EventFrame
    <2>1. CASE EvShutdown
      BY <1>0, <1>a, <1>b, <2>1 DEF EvShutdown
    <2>2. CASE EvSynLocal
      <3>1. Kept(sclosed, IF listed THEN streams \cup pending ELSE streams)
        BY <2>2 DEF EvSynLocal, Kept, StreamsInv
      <3> QED BY <1>0, <1>a, <2>2, <3>1 DEF EvSynLocal
    <2>3. ASSUME NEW r \in BOOLEAN, EvFin(r) PROVE StreamsInv'
      <3> DEFINE s == Head(evq).s
                 m == streams \ {s}
                 cl == IF s \in streams THEN [sclosed EXCEPT ![s] = TRUE] ELSE sclosed
      <3>1. cl \in [Streams -> BOOLEAN]
        BY <1>0
      <3>2. UNCHANGED <<app, pending>>
        BY <2>3 DEF EvFin
      <3>3. Kept(cl, m)
        BY <1>0, <3>2 DEF StreamsInv, Kept
      <3>4. \E stop, q, d : EventLoop(stop, m, q, cl, d) \/ \E f : EventForward(f, m, q, cl, d)
        BY <2>3 DEF EvFin
      <3> HIDE DEF cl, m
      <3> QED BY <1>a, <3>1, <3>3, <3>4
    <2>4. CASE EvRoutine
      BY <1>0, <1>a, <1>b, <2>4 DEF EvRoutine
    <2>5. CASE EvSend
      BY <1>0, <1>a, <1>b, <2>5 DEF EvSend
    <2>6. CASE EvPing
      BY <1>0, <1>a, <1>b, <2>6 DEF EvPing
    <2>7. CASE EvPong
      BY <1>0, <1>a, <1>b, <2>7 DEF EvPong
    <2>8. CASE EvSynRemote
      <3>1. Kept(sclosed, streams \cup {Head(evq).s})
        BY <1>0, <2>8 DEF EvSynRemote, Kept, StreamsInv
      <3> QED BY <1>0, <1>a, <2>8, <3>1 DEF EvSynRemote
    <2>9. CASE EvData
      <3>1. CASE Head(evq).s \in streams
        BY <2>9, <3>1 DEF EvData, StreamsInv
      <3>2. CASE Head(evq).s \notin streams
        BY <1>0, <1>a, <1>b, <2>9, <3>2 DEF EvData
      <3> QED BY <3>1, <3>2
    <2>10. CASE EvOffered
      BY <1>0, <1>a, <1>b, <2>10 DEF EvOffered
    <2>11. CASE EvForwarded
      BY <1>0, <1>a, <1>b, <2>11 DEF EvForwarded
    <2>12. CASE EvFinal
      BY <2>12 DEF EvFinal, StreamsInv, tables
    <2> QED BY <1>2, <2>1, <2>2, <2>3, <2>4, <2>5, <2>6, <2>7, <2>8, <2>9, <2>10, <2>11, <2>12
            DEF Handle
  <1>3. CASE Recv
    BY <1>1, <1>3 DEF Recv, RecvFrame, RecvPush, RecvStops, RecvShutEvent, RecvShutSend, tables
  <1>4. CASE Send
    BY <1>1, <1>4 DEF Send, SendRecv, SendWritten, SendFails, SendShut, SendFrameVars, tables
  <1>5. CASE \E s \in Streams : App(s)
    <2>1. PICK s \in Streams : App(s)
      BY <1>5
    <2>2. /\ UNCHANGED <<epc, streams>> /\ pending \subseteq pending'
          /\ \A t \in Streams : sclosed[t] => sclosed'[t]
          /\ \A t \in Streams : app'[t] # "none" /\ t \notin pending' => app[t] # "none"
      BY <1>0, <2>1 DEF App, Create, SynQueued, Connected, ConnectFails, AppWrite, AppShutdown,
         AppRead, AppReadClosed, AppWriteFails, AppEnds, AppAborts, AppFrame, AppClose, coroutines
    <2> QED BY <2>2 DEF StreamsInv
  <1>6. CASE Routine
    BY <1>1, <1>6 DEF Routine, RoutineTick, RoutineSend, coroutines, tables
  <1>7. CASE UNCHANGED vars
    BY <1>1, <1>7 DEF vars, coroutines, tables
  <1> QED BY <1>2, <1>3, <1>4, <1>5, <1>6, <1>7 DEF Next

-----------------------------------------------------------------------------
(* A stream is pending as long as its SYN is not handled.                   *)

\* event_tx.send loses no SYN, and queues one while event_rx is open.
LEMMA SendEventHas ==
  ASSUME EventQueue(evq), NEW e \in Event, SendEvent(e), NEW s
  PROVE  /\ Has(evq, s) => Has(evq', s)
         /\ e = Syn(s) /\ evOpen => Has(evq', s)
  BY AppendOrdered DEF SendEvent, EventQueue

\* try_send loses no SYN that is queued.
LEMMA TrySendHas ==
  ASSUME NEW q, EventQueue(q), NEW e \in Event, NEW s, Has(q, s)
  PROVE  Has(TrySend(q, e), s)
  BY AppendOrdered DEF TrySend, EventQueue

\* PendingHasCause is inductive: the SYN is handled once the stream is pending, and
\* the session, if it is still listed, then takes the stream.
LEMMA NextPending ==
  ASSUME TypeOK, EventsInv, PendingHasCause, [Next]_vars
  PROVE  PendingHasCause'
  <1> DEFINE Cause(s) == app[s] = "syn" \/ Has(evq, s) \/ ~listed \/ ~evOpen
  <1>0. EventQueue(evq) /\ app \in [Streams -> AppStates] /\ pending \subseteq Streams
        /\ rheld \in Event /\ listed \in BOOLEAN
    BY DEF TypeOK, EventQueue
  <1>a. PendingHasCause <=> \A s \in pending : Cause(s)
    BY DEF PendingHasCause, Has, Syn, Contains
  <1>b. PendingHasCause' <=> \A s \in pending' : Cause(s)'
    BY DEF PendingHasCause, Has, Syn, Contains
  <1>c. SUFFICES ASSUME NEW s \in pending' PROVE Cause(s)'
    BY <1>b
  <1>d. \A t \in pending : Cause(t)
    BY <1>a
  <1>e. ASSUME s \in pending, app'[s] = app[s], listed' => listed, evOpen' => evOpen,
               Has(evq, s) => Has(evq', s) \/ ~evOpen' \/ ~listed'
        PROVE  Cause(s)'
    BY <1>d, <1>e
  <1> HIDE DEF Cause
  <1>1. CASE Recv
    <2>1. s \in pending /\ app' = app /\ (listed' => listed) /\ evOpen' = evOpen
      BY <1>0, <1>1 DEF Recv, RecvFrame, RecvPush, RecvStops, RecvShutEvent, RecvShutSend, tables, flags
    <2>2. evq' = evq \/ \E e \in Event : SendEvent(e)
      BY <1>0, <1>1, EventTypes DEF Recv, RecvFrame, RecvPush, RecvStops, RecvShutEvent, RecvShutSend
    <2> QED BY <1>0, <1>e, <2>1, <2>2, SendEventHas
  <1>2. CASE Handle
    <2> USE DEF EventFrame
    <2>1. listed' => listed
      BY <1>2 DEF Handle, EvShutdown, EvSynLocal, EvFin, EvRoutine, EvSend, EvPing, EvPong,
         EvSynRemote, EvData, EvOffered, EvForwarded, EvFinal
    <2>2. ASSUME NEW q, Has(evq, s) => Has(q, s), s \in pending, app'[s] = app[s],
                 \E stop, m, cl, d : \/ EventLoop(stop, m, q, cl, d)
                                     \/ \E f : EventForward(f, m, q, cl, d)
          PROVE  Cause(s)'
      <3>1. (evOpen' => evOpen) /\ (evq' = q \/ ~evOpen')
        BY <2>2 DEF EventLoop, EventForward
      <3> QED BY <1>e, <2>1, <2>2, <3>1
    <2>3. ASSUME evq # <<>>, Head(evq).k # "SYN" \/ Head(evq).remote = TRUE, Has(evq, s)
          PROVE  Has(Tail(evq), s)
      <3>1. Head(evq) # Syn(s)
        BY <2>3 DEF Syn, Local
      <3> QED BY <1>0, <2>3, <3>1, TailOrdered DEF EventQueue
    <2>4. CASE EvShutdown
      BY <2>2, <2>3, <2>4 DEF EvShutdown, Taken
    <2>5. CASE EvSynLocal
      <3>1. ~listed /\ s \in pending /\ listed' = listed
        BY <2>5 DEF EvSynLocal
      <3> QED BY <3>1 DEF Cause
    <2>6. ASSUME NEW r \in BOOLEAN, EvFin(r) PROVE Cause(s)'
      <3> DEFINE t == Head(evq).s
                 q == IF t \in streams THEN TrySend(Tail(evq), Local("FIN", t)) ELSE Tail(evq)
      <3>1. evq # <<>> /\ Head(evq).k # "SYN" /\ UNCHANGED <<app, pending>>
        BY <2>6 DEF EvFin, Taken
      <3>2. Has(evq, s) => Has(q, s)
        <4>1. ASSUME t \in streams PROVE Local("FIN", t) \in Event
          BY <4>1, EventTypes DEF TypeOK
        <4>2. EventQueue(Tail(evq))
          BY <1>0, <3>1, TailQueue
        <4> QED BY <2>3, <3>1, <4>1, <4>2, TrySendHas
      <3>3. \E stop, m, cl, d : \/ EventLoop(stop, m, q, cl, d)
                                \/ \E f : EventForward(f, m, q, cl, d)
        BY <2>6 DEF EvFin
      <3> HIDE DEF q
      <3> QED BY <2>2, <3>1, <3>2, <3>3
    <2>7. CASE EvRoutine
      BY <2>2, <2>3, <2>7 DEF EvRoutine, Taken
    <2>8. CASE EvSend
      BY <2>2, <2>3, <2>8 DEF EvSend, Taken
    <2>9. CASE EvPing
      BY <2>2, <2>3, <2>9 DEF EvPing, Taken
    <2>10. CASE EvPong
      BY <2>2, <2>3, <2>10 DEF EvPong, Taken
    <2>11. CASE EvSynRemote
      <3>1. CASE Head(evq).s # s
        BY <1>0, <2>2, <2>3, <2>11, <3>1 DEF EvSynRemote, Taken
      <3>2. CASE Head(evq).s = s
        <4>1. Head(evq).remote = TRUE /\ evq # <<>> /\ Head(evq).k = "SYN" /\ s \in pending
          BY <2>11 DEF EvSynRemote, Taken
        <4>2. Sound(Head(evq), peer, client)
          BY <1>0, <4>1, QueueSound DEF EventsInv, EventQueue
        <4>3. pending = {}
          BY <4>1, <4>2 DEF EventsInv, Sound, OfStream
        <4> QED BY <4>1, <4>3
      <3> QED BY <3>1, <3>2
    <2>12. CASE EvData
      <3>1. CASE Head(evq).s \in streams
        BY <1>e, <2>1, <2>3, <2>12, <3>1 DEF EvData, Taken
      <3>2. CASE Head(evq).s \notin streams
        BY <2>2, <2>3, <2>12, <3>2 DEF EvData, Taken
      <3> QED BY <3>1, <3>2
    <2>13. CASE EvOffered
      BY <2>2, <2>13 DEF EvOffered
    <2>14. CASE EvForwarded
      BY <2>2, <2>14 DEF EvForwarded
    <2>15. CASE EvFinal
      BY <1>e, <2>1, <2>15 DEF EvFinal, tables
    <2> QED BY <1>2, <2>4, <2>5, <2>6, <2>7, <2>8, <2>9, <2>10, <2>11, <2>12, <2>13, <2>14, <2>15
            DEF Handle
  <1>3. CASE Send
    <2>1. s \in pending /\ app' = app /\ (listed' => listed) /\ evOpen' = evOpen
      BY <1>0, <1>3 DEF Send, SendRecv, SendWritten, SendFails, SendShut, SendFrameVars, tables
    <2>2. evq' = evq \/ \E e \in Event : SendEvent(e)
      BY <1>3, EventTypes DEF Send, SendRecv, SendWritten, SendFails, SendShut, SendFrameVars
    <2> QED BY <1>0, <1>e, <2>1, <2>2, SendEventHas
  <1>4. CASE \E t \in Streams : App(t)
    <2>1. PICK t \in Streams : App(t)
      BY <1>4
    <2>2. UNCHANGED <<listed, evOpen>>
      BY <2>1 DEF App, Create, SynQueued, Connected, ConnectFails, AppWrite, AppShutdown,
         AppRead, AppReadClosed, AppWriteFails, AppEnds, AppAborts, AppFrame, flags
    <2>3. CASE Create(t)
      BY <1>0, <1>e, <2>2, <2>3 DEF Create, Cause
    <2>4. CASE SynQueued(t)
      <3>1. SendEvent(Syn(t)) /\ Syn(t) \in Event /\ s \in pending
        BY <2>1, <2>4, EventTypes DEF SynQueued, Syn
      <3>2. CASE s = t
        BY <1>0, <2>2, <3>1, <3>2, SendEventHas DEF Cause
      <3>3. CASE s # t
        BY <1>0, <1>e, <2>2, <2>4, <3>1, <3>3, SendEventHas DEF SynQueued
      <3> QED BY <3>2, <3>3
    <2>5. CASE ~Create(t) /\ ~SynQueued(t)
      <3>1. s \in pending /\ app[t] # "syn" /\ \A u \in Streams \ {t} : app'[u] = app[u]
        BY <1>0, <2>1, <2>5 DEF App, Connected, ConnectFails, AppWrite, AppShutdown,
           AppRead, AppReadClosed, AppWriteFails, AppEnds, AppAborts, AppClose
      <3>2. \/ evq' = evq
            \/ \E k \in {"DATA", "FIN"} : \/ SendEvent(Local(k, t))
                                          \/ evq' = TrySend(evq, Local(k, t))
        BY <2>1, <2>5 DEF App, Connected, ConnectFails, AppWrite, AppShutdown,
           AppRead, AppReadClosed, AppWriteFails, AppEnds, AppAborts, AppClose
      <3>3. Has(evq, s) => Has(evq', s)
        BY <1>0, <2>1, <3>2, EventTypes, SendEventHas, TrySendHas
      <3> QED BY <1>0, <1>d, <2>2, <3>1, <3>3 DEF Cause
    <2> QED BY <2>3, <2>4, <2>5
  <1>5. CASE RoutineTick
    <2>1. s \in pending /\ app' = app /\ evOpen' = evOpen /\ evq' = evq
      BY <1>5 DEF RoutineTick, tables
    <2>2. listed' => listed
      BY <1>0, <1>5 DEF RoutineTick
    <2> QED BY <1>e, <2>1, <2>2
  <1>6. CASE RoutineSend
    <2>1. s \in pending /\ app' = app /\ listed' = listed /\ evOpen' = evOpen
      BY <1>6 DEF RoutineSend, tables, flags
    <2>2. Head(todo) \in Event
      BY <1>6, TailElements DEF RoutineSend, TypeOK
    <2> QED BY <1>0, <1>6, <1>e, <2>1, <2>2, SendEventHas DEF RoutineSend
  <1>7. CASE UNCHANGED vars
    BY <1>e, <1>7 DEF vars, tables, flags
  <1> QED BY <1>1, <1>2, <1>3, <1>4, <1>5, <1>6, <1>7 DEF Next, Routine

-----------------------------------------------------------------------------
(* The SYN of a stream is ahead of everything else for it.                  *)

\* The other end knows the stream; what handle_event wants to queue.
Told(s) == peer[s] # "none"
HeldAbout(s) == epc = "forward" /\ About(eheld, s)
HeldSyn(s) == epc = "forward" /\ eheld = Syn(s)

\* The way of a frame to the other end, from the connection backwards: wherever
\* a frame of the stream is, the SYN is ahead of it there or further on; and a
\* relay that may queue frames has queued the SYN, which is still somewhere.
Unhandled(s) ==
    /\ Ordered(evq, s)
    /\ Has(evq, s) \/ (evOpen => app[s] \in {"none", "syn"})
Unsent(s) == ~HeldAbout(s) /\ (HeldSyn(s) \/ Unhandled(s))
Unwritten(s) == Ordered(sendq, s) /\ (Has(sendq, s) \/ Unsent(s))
SynAhead(s) == Told(s) \/ (Ordered(vbuf, s) /\ (Has(vbuf, s) \/ Unwritten(s)))

\* The order holds until handle_send is over; then nothing is sent.
OrderInv ==
    /\ spc = "recv" => vbuf = <<>>
    /\ sendOpen => \A s \in Streams : SynAhead(s)

\* A turn of handle_event's loop loses no SYN but by ending the loop.
LEMMA LoopUnsent ==
  ASSUME TypeOK, NEW stop, NEW m, NEW q, NEW cl, NEW d, EventLoop(stop, m, q, cl, d),
         NEW s \in Streams, Ordered(q, s), Has(q, s) \/ (evOpen => app'[s] \in {"none", "syn"})
  PROVE  Unsent(s)'
  <1>1. epc' # "forward"
    BY DEF EventLoop
  <1>2. CASE stop \/ closed
    BY <1>1, <1>2, EmptyOrdered DEF EventLoop, Unsent, Unhandled, HeldAbout
  <1>3. CASE ~(stop \/ closed)
    BY <1>1, <1>3 DEF EventLoop, Unsent, Unhandled, HeldAbout
  <1> QED BY <1>2, <1>3

\* An event that is passed on keeps its place.
LEMMA ForwardUnsent ==
  ASSUME NEW f, NEW m, NEW q, NEW cl, NEW d, EventForward(f, m, q, cl, d),
         NEW s \in Streams, ~About(f, s),
         \/ f = Syn(s)
         \/ Ordered(q, s) /\ (Has(q, s) \/ (evOpen => app'[s] \in {"none", "syn"}))
  PROVE  Unsent(s)'
  BY DEF EventForward, Unsent, Unhandled, HeldAbout, HeldSyn

\* An event queued by send or try_send at the end of the event queue.
LEMMA QueuedUnsent ==
  ASSUME TypeOK, NEW e \in Event, SendEvent(e) \/ (evq' = IF evOpen THEN TrySend(evq, e) ELSE evq),
         NEW s \in Streams, UNCHANGED <<epc, eheld, evOpen>>, Unsent(s),
         About(e, s) /\ evOpen => app[s] \notin {"none", "syn"},
         \/ app'[s] = app[s]
         \/ app'[s] \in {"none", "syn"}
         \/ app[s] \notin {"none", "syn"}
         \/ e = Syn(s) /\ SendEvent(e)
  PROVE  Unsent(s)'
  <1>0. evq \in Seq(Event)
    BY DEF TypeOK
  <1>1. CASE HeldSyn(s)
    BY <1>1 DEF Unsent, HeldSyn, HeldAbout
  <1>2. CASE ~HeldSyn(s)
    <2>1. Unhandled(s) /\ ~HeldAbout(s)
      BY <1>2 DEF Unsent
    <2>2. CASE evq' = evq
      <3>1. ~(e = Syn(s) /\ SendEvent(e)) \/ ~evOpen
        <4>1. ASSUME e = Syn(s), SendEvent(e), evOpen PROVE Len(evq') # Len(evq)
          BY <1>0, <4>1, AppendElements DEF SendEvent
        <4> QED BY <2>2, <4>1
      <3>2. Has(evq, s) \/ (evOpen => app'[s] \in {"none", "syn"})
        BY <2>1, <3>1 DEF Unhandled
      <3> QED BY <2>1, <2>2, <3>2 DEF Unsent, Unhandled, HeldAbout
    <2>3. CASE evq' = Append(evq, e) /\ evOpen
      <3>1. Ordered(evq', s)
        BY <1>0, <2>1, <2>3, AppendOrdered DEF Unhandled
      <3>2. Has(evq', s) \/ (evOpen => app'[s] \in {"none", "syn"})
        BY <1>0, <2>1, <2>3, AppendOrdered DEF Unhandled
      <3> QED BY <2>1, <3>1, <3>2 DEF Unsent, Unhandled, HeldAbout
    <2> QED BY <2>2, <2>3 DEF SendEvent, TrySend
  <1> QED BY <1>1, <1>2

\* What is left behind the frames of v moves up.
LEMMA GatherAhead ==
  ASSUME TypeOK, NEW v \in Seq(Event), Len(v) <= VBufMax, Gather(v), sendOpen',
         UNCHANGED <<epc, eheld, evq, evOpen, app>>, NEW s \in Streams,
         Told(s)' \/ (Ordered(v, s) /\ (Has(v, s) \/ Unwritten(s)))
  PROVE  SynAhead(s)'
  <1> DEFINE n == IF Len(sendq) < VBufMax - Len(v) THEN Len(sendq) ELSE VBufMax - Len(v)
             got == SubSeq(sendq, 1, n)
             rest == SubSeq(sendq, n + 1, Len(sendq))
  <1>1. n \in 0..Len(sendq) /\ sendq \in Seq(Event)
    <2>1. sendq \in Seq(Event)
      BY DEF TypeOK
    <2>2. Len(sendq) \in Nat /\ Len(v) \in Nat /\ VBufMax \in Nat
      BY <2>1, SessionAssumption
    <2>3. VBufMax - Len(v) \in Nat
      BY <2>2
    <2> QED BY <2>1, <2>2, <2>3
  <1>2. got \in Seq(Event)
    <2> HIDE DEF n
    <2> QED BY <1>1, SplitElements
  <1>3. Unsent(s) => Unsent(s)'
    BY DEF Unsent, Unhandled, HeldAbout, HeldSyn
  <1>4. CASE v = <<>> /\ sendq = <<>>
    <2>1. vbuf' = v /\ sendq' = sendq
      BY <1>4 DEF Gather
    <2> QED BY <1>3, <2>1 DEF SynAhead, Unwritten
  <1>5. CASE ~(v = <<>> /\ sendq = <<>>)
    <2>1. vbuf' = v \o got /\ sendq' = rest
      BY <1>5 DEF Gather, SendExit
    <2>2. Unwritten(s) => /\ Ordered(got, s)
                          /\ Has(got, s) \/ Ordered(rest, s)
                          /\ Has(got, s) \/ Has(rest, s) \/ Unsent(s)
      <3> HIDE DEF n
      <3> QED BY <1>1, SplitOrdered DEF Unwritten
    <2> HIDE DEF got, rest
    <2>3. CASE Told(s)'
      BY <2>3 DEF SynAhead
    <2>4. CASE Ordered(v, s) /\ Has(v, s)
      BY <1>2, <2>1, <2>4, ConcatOrdered DEF SynAhead
    <2>5. CASE Ordered(v, s) /\ Unwritten(s)
      <3>1. Ordered(vbuf', s) /\ (Has(got, s) => Has(vbuf', s))
        BY <1>2, <2>1, <2>2, <2>5, ConcatOrdered
      <3> QED BY <1>3, <2>1, <2>2, <2>5, <3>1 DEF SynAhead, Unwritten
    <2> QED BY <2>3, <2>4, <2>5
  <1> QED BY <1>4, <1>5

\* The frames the two coroutines queue at their end are not of a stream.
LEMMA MarkerQueued ==
  ASSUME TypeOK, SendFrame(Marker), sendOpen, NEW s \in Streams
  PROVE  /\ Ordered(sendq, s) => Ordered(sendq', s)
         /\ Has(sendq, s) => Has(sendq', s)
  <1>1. ~About(Marker, s) /\ Marker \in Event /\ sendq \in Seq(Event)
    BY EventTypes DEF About, Marker, Local, TypeOK
  <1> QED BY <1>1, AppendOrdered DEF SendFrame

\* OrderInv is inductive: every step moves frames towards the connection in their
\* order, or drops the last of them.
LEMMA NextOrder ==
  ASSUME TypeOK, EventsInv, OrderInv, [Next]_vars
  PROVE  OrderInv'
  <1>0. /\ evq \in Seq(Event) /\ sendq \in Seq(Event) /\ vbuf \in Seq(Event)
        /\ rheld \in Event /\ eheld \in Event /\ EventQueue(evq)
        /\ app \in [Streams -> AppStates]
    BY DEF TypeOK, EventQueue
  <1>a. ASSUME UNCHANGED <<vbuf, sendq, sendOpen, spc, peer>>,
               \A s \in Streams : ~Told(s) /\ Unsent(s) => Unsent(s)'
        PROVE  OrderInv'
    BY <1>a DEF OrderInv, SynAhead, Unwritten, Told
  <1>b. ASSUME UNCHANGED <<epc, eheld, evq, evOpen, app>>, NEW s \in Streams, Unsent(s)
        PROVE  Unsent(s)'
    BY <1>b DEF Unsent, Unhandled, HeldAbout, HeldSyn
  <1>1. CASE Recv
    <2> USE DEF flags, tables, env
    <2>1. CASE RecvFrame
      <3>1. UNCHANGED <<vbuf, sendq, sendOpen, spc, epc, eheld, evq, evOpen, app>>
        BY <2>1 DEF RecvFrame
      <3>2. \A s \in Streams : Told(s) => Told(s)'
        BY <1>1, ToldStays DEF Told, Next
      <3>3. \A s \in Streams : Unsent(s) => Unsent(s)'
        BY <1>b, <3>1
      <3> QED BY <3>1, <3>2, <3>3 DEF OrderInv, SynAhead, Unwritten
    <2>2. CASE RecvPush
      <3>1. UNCHANGED <<vbuf, sendq, sendOpen, spc, peer, epc, eheld, evOpen, app>> /\ SendEvent(rheld)
        BY <2>2 DEF RecvPush, RecvLoop, RecvExit
      <3>2. ASSUME NEW s \in Streams, ~Told(s) PROVE ~About(rheld, s)
        BY <2>2, <3>2 DEF RecvPush, EventsInv, Sound, OfStream, About, Told
      <3>3. \A s \in Streams : ~Told(s) /\ Unsent(s) => Unsent(s)'
        BY <1>0, <3>1, <3>2, QueuedUnsent
      <3> QED BY <1>a, <3>1, <3>3
    <2>3. CASE RecvStops
      <3>1. UNCHANGED <<vbuf, sendq, sendOpen, spc, peer, epc, eheld, evq, evOpen, app>>
        BY <2>3 DEF RecvStops, RecvExit
      <3> QED BY <1>a, <1>b, <3>1
    <2>4. CASE RecvShutEvent
      <3> DEFINE e == Local("SHUTDOWN", NoStream)
      <3>1. UNCHANGED <<vbuf, sendq, sendOpen, spc, peer, epc, eheld, evOpen, app>> /\ SendEvent(e)
        BY <2>4 DEF RecvShutEvent
      <3>2. e \in Event /\ \A s \in Streams : ~About(e, s)
        BY EventTypes DEF About, Local
      <3> HIDE DEF e
      <3>3. \A s \in Streams : Unsent(s) => Unsent(s)'
        BY <3>1, <3>2, QueuedUnsent
      <3> QED BY <1>a, <3>1, <3>3
    <2>5. CASE RecvShutSend
      <3>1. UNCHANGED <<vbuf, sendOpen, spc, peer, epc, eheld, evq, evOpen, app>> /\ SendFrame(Marker)
        BY <2>5 DEF RecvShutSend
      <3>2. \A s \in Streams : Unsent(s) => Unsent(s)'
        BY <1>b, <3>1
      <3>3. ASSUME sendOpen, NEW s \in Streams, SynAhead(s) PROVE SynAhead(s)'
        BY <3>1, <3>2, <3>3, MarkerQueued DEF SynAhead, Unwritten, Told
      <3> QED BY <3>1, <3>3 DEF OrderInv
    <2> QED BY <1>1, <2>1, <2>2, <2>3, <2>4, <2>5 DEF Recv
  <1>2. CASE Handle
    <2> USE DEF EventFrame
    <2>1. ASSUME epc = "recv", evq # <<>>, NEW s \in Streams, Unsent(s)
          PROVE  /\ Ordered(evq, s) /\ ~About(Head(evq), s) /\ Tail(evq) \in Seq(Event)
                 /\ Has(evq, s) \/ (evOpen => app[s] \in {"none", "syn"})
                 /\ Head(evq) # Syn(s) => /\ Ordered(Tail(evq), s)
                                          /\ \/ Has(Tail(evq), s)
                                             \/ evOpen => app[s] \in {"none", "syn"}
      <3>1. Unhandled(s)
        BY <2>1 DEF Unsent, HeldSyn
      <3> QED BY <1>0, <2>1, <3>1, TailOrdered, TailElements DEF Unhandled
    <2>2. ASSUME NEW s, Head(evq).k # "SYN" \/ Head(evq).remote = TRUE PROVE Head(evq) # Syn(s)
      BY <2>2 DEF Syn, Local
    <2>3. CASE EvShutdown
      <3>1. UNCHANGED <<vbuf, sendq, sendOpen, spc, peer, app>>
        BY <2>3 DEF EvShutdown
      <3>2. ASSUME NEW s \in Streams, Unsent(s) PROVE Unsent(s)'
        BY <2>1, <2>2, <2>3, <3>1, <3>2, LoopUnsent DEF EvShutdown, Taken
      <3> QED BY <1>a, <3>1, <3>2
    <2>4. CASE EvSynLocal
      <3>1. UNCHANGED <<vbuf, sendq, sendOpen, spc, peer, app>>
        BY <2>4 DEF EvSynLocal
      <3>2. ASSUME NEW s \in Streams, Unsent(s) PROVE Unsent(s)'
        BY <2>1, <2>4, <3>1, <3>2, ForwardUnsent DEF EvSynLocal, Taken
      <3> QED BY <1>a, <3>1, <3>2
    <2>5. ASSUME NEW r \in BOOLEAN, EvFin(r) PROVE OrderInv'
      <3>1. UNCHANGED <<vbuf, sendq, sendOpen, spc, peer, app>>
        BY <2>5 DEF EvFin
      <3>2. ASSUME NEW s \in Streams, Unsent(s) PROVE Unsent(s)'
        <4> DEFINE t == Head(evq).s
                   m == streams \ {t}
                   q == IF t \in streams THEN TrySend(Tail(evq), Local("FIN", t)) ELSE Tail(evq)
                   cl == IF t \in streams THEN [sclosed EXCEPT ![t] = TRUE] ELSE sclosed
                   d == IF t \in streams THEN [dq EXCEPT ![t] = Marked(dq, t)] ELSE dq
        <4>1. epc = "recv" /\ evq # <<>> /\ Head(evq).k = "FIN"
          BY <2>5 DEF EvFin, Taken
        <4>2. t # s /\ ~About(Head(evq), s) /\ ~About(Local("FIN", t), s)
          BY <2>1, <3>2, <4>1 DEF About, Local
        <4>3. t \in streams => Local("FIN", t) \in Event
          BY EventTypes DEF TypeOK
        <4>4. Ordered(q, s) /\ (Has(q, s) \/ (evOpen => app[s] \in {"none", "syn"}))
          <5>1. /\ Tail(evq) \in Seq(Event) /\ Ordered(Tail(evq), s)
                /\ Has(Tail(evq), s) \/ (evOpen => app[s] \in {"none", "syn"})
            BY <2>1, <2>2, <3>2, <4>1
          <5> DEFINE f == Local("FIN", t)
                     a == Append(Tail(evq), f)
          <5>2. ASSUME t \in streams
                PROVE  Ordered(a, s) /\ (Has(a, s) \/ (evOpen => app[s] \in {"none", "syn"}))
            <6>1. f \in Event /\ ~About(f, s)
              BY <4>2, <4>3, <5>2
            <6> HIDE DEF f
            <6> QED BY <5>1, <6>1, AppendOrdered
          <5>3. q = Tail(evq) \/ (t \in streams /\ q = a)
            BY DEF TrySend
          <5> HIDE DEF a, q, t
          <5> QED BY <5>1, <5>2, <5>3
        <4>5. \/ EventLoop(retired /\ m = {}, m, q, cl, d)
              \/ EventForward(Head(evq), m, q, cl, d)
          BY <2>5 DEF EvFin
        <4> HIDE DEF m, q, cl, d
        <4> QED BY <3>1, <3>2, <4>2, <4>4, <4>5, LoopUnsent, ForwardUnsent
      <3> QED BY <1>a, <3>1, <3>2
    <2>6. CASE EvRoutine
      <3>1. UNCHANGED <<vbuf, sendq, sendOpen, spc, peer, app>>
        BY <2>6 DEF EvRoutine
      <3>2. ASSUME NEW s \in Streams, Unsent(s) PROVE Unsent(s)'
        BY <2>1, <2>2, <2>6, <3>1, <3>2, LoopUnsent DEF EvRoutine, Taken
      <3> QED BY <1>a, <3>1, <3>2
    <2>7. CASE EvSend
      <3>1. UNCHANGED <<vbuf, sendq, sendOpen, spc, peer, app>>
        BY <2>7 DEF EvSend
      <3>2. ASSUME NEW s \in Streams, Unsent(s) PROVE Unsent(s)'
        BY <2>1, <2>2, <2>7, <3>1, <3>2, ForwardUnsent DEF EvSend, Taken
      <3> QED BY <1>a, <3>1, <3>2
    <2>8. CASE EvPing
      <3>1. UNCHANGED <<vbuf, sendq, sendOpen, spc, peer, app>>
        BY <2>8 DEF EvPing
      <3>2. \A s : ~About(Local("PONG", NoStream), s)
        BY DEF About, Local
      <3>3. ASSUME NEW s \in Streams, Unsent(s) PROVE Unsent(s)'
        BY <2>1, <2>2, <2>8, <3>1, <3>2, <3>3, ForwardUnsent DEF EvPing, Taken
      <3> QED BY <1>a, <3>1, <3>3
    <2>9. CASE EvPong
      <3>1. UNCHANGED <<vbuf, sendq, sendOpen, spc, peer, app>>
        BY <2>9 DEF EvPong
      <3>2. ASSUME NEW s \in Streams, Unsent(s) PROVE Unsent(s)'
        BY <2>1, <2>2, <2>9, <3>1, <3>2, LoopUnsent DEF EvPong, Taken
      <3> QED BY <1>a, <3>1, <3>2
    <2>10. CASE EvSynRemote
      <3>1. UNCHANGED <<vbuf, sendq, sendOpen, spc, peer>> /\ epc = "recv" /\ evq # <<>>
            /\ Head(evq).remote = TRUE /\ Head(evq).k = "SYN"
        BY <2>10 DEF EvSynRemote, Taken
      <3>2. Sound(Head(evq), peer, client)
        BY <1>0, <3>1, QueueSound DEF EventsInv
      <3>3. ASSUME NEW s \in Streams, ~Told(s) PROVE app'[s] = app[s]
        BY <1>0, <2>10, <3>1, <3>2, <3>3 DEF EvSynRemote, Sound, OfStream, Told
      <3>4. ASSUME NEW s \in Streams, ~Told(s), Unsent(s) PROVE Unsent(s)'
        BY <2>1, <2>2, <2>10, <3>1, <3>3, <3>4, LoopUnsent DEF EvSynRemote
      <3> QED BY <1>a, <3>1, <3>4
    <2>11. CASE EvData
      <3>1. UNCHANGED <<vbuf, sendq, sendOpen, spc, peer, app>>
        BY <2>11 DEF EvData
      <3>2. ASSUME NEW s \in Streams, Unsent(s) PROVE Unsent(s)'
        <4>1. CASE Head(evq).s \in streams
          BY <2>1, <2>2, <2>11, <3>1, <3>2, <4>1
             DEF EvData, Taken, Unsent, Unhandled, HeldAbout
        <4>2. CASE Head(evq).s \notin streams
          BY <2>1, <2>2, <2>11, <3>1, <3>2, <4>2, LoopUnsent DEF EvData, Taken
        <4> QED BY <4>1, <4>2
      <3> QED BY <1>a, <3>1, <3>2
    <2>12. CASE EvOffered
      <3>1. UNCHANGED <<vbuf, sendq, sendOpen, spc, peer, app>> /\ epc = "offer"
        BY <2>12 DEF EvOffered
      <3>2. ASSUME NEW s \in Streams, Unsent(s) PROVE Unsent(s)'
        <4>1. Unhandled(s)
          BY <3>1, <3>2 DEF Unsent, HeldSyn
        <4> QED BY <2>12, <3>1, <4>1, LoopUnsent DEF EvOffered, Unhandled
      <3> QED BY <1>a, <3>1, <3>2
    <2>13. CASE EvForwarded
      <3>1. UNCHANGED <<vbuf, sendOpen, spc, peer, app>> /\ epc = "forward"
        BY <2>13 DEF EvForwarded, env
      <3>2. ASSUME sendOpen, NEW s \in Streams, SynAhead(s) PROVE SynAhead(s)'
        <4>1. sendq' = Append(sendq, eheld)
          BY <2>13, <3>2 DEF EvForwarded, SendFrame
        <4>2. Unhandled(s) => Unsent(s)'
          BY <2>13, <3>1, LoopUnsent DEF EvForwarded, Unhandled
        <4>3. Unwritten(s) => Unwritten(s)'
          <5>1. CASE Ordered(sendq, s) /\ Has(sendq, s)
            BY <1>0, <4>1, <5>1, AppendOrdered DEF Unwritten
          <5>2. CASE Ordered(sendq, s) /\ Unsent(s)
            BY <1>0, <3>1, <4>1, <4>2, <5>2, AppendOrdered DEF Unwritten, Unsent, HeldAbout, HeldSyn
          <5> QED BY <5>1, <5>2 DEF Unwritten
        <4> QED BY <3>1, <3>2, <4>3 DEF SynAhead, Told
      <3> QED BY <3>1, <3>2 DEF OrderInv
    <2>14. CASE EvFinal
      <3>1. /\ UNCHANGED <<vbuf, sendOpen, spc, peer, eheld, evq, evOpen, app>>
            /\ SendFrame(Marker) /\ epc = "final" /\ epc' = "done"
        BY <2>14 DEF EvFinal, tables, env
      <3>2. \A s \in Streams : Unsent(s) => Unsent(s)'
        BY <3>1 DEF Unsent, Unhandled, HeldAbout, HeldSyn
      <3>3. ASSUME sendOpen, NEW s \in Streams, SynAhead(s) PROVE SynAhead(s)'
        BY <3>1, <3>2, <3>3, MarkerQueued DEF SynAhead, Unwritten, Told
      <3> QED BY <3>1, <3>3 DEF OrderInv
    <2> QED BY <1>2, <2>3, <2>4, <2>5, <2>6, <2>7, <2>8, <2>9, <2>10, <2>11, <2>12, <2>13, <2>14
            DEF Handle
  <1>3. CASE Send
    <2> USE DEF SendFrameVars, tables
    <2>1. CASE SendRecv
      <3>1. vbuf = <<>> /\ UNCHANGED <<epc, eheld, evq, evOpen, app, peer>> /\ Gather(<<>>)
        BY <2>1 DEF SendRecv, OrderInv
      <3>2. spc' = "recv" => vbuf' = <<>>
        BY <3>1 DEF Gather, SendExit
      <3>3. sendOpen' => sendOpen
        BY <3>1 DEF Gather, SendExit
      <3>4. <<>> \in Seq(Event) /\ Len(<<>>) <= VBufMax
        BY EmptyQueue, SessionAssumption
      <3>5. ASSUME sendOpen', NEW s \in Streams PROVE SynAhead(s)'
        <4>1. Told(s)' \/ (Ordered(<<>>, s) /\ (Has(<<>>, s) \/ Unwritten(s)))
          BY <3>1, <3>3, <3>5 DEF OrderInv, SynAhead, Told
        <4> QED BY <3>1, <3>4, <3>5, <4>1, GatherAhead
      <3> QED BY <3>2, <3>5 DEF OrderInv
    <2>2. CASE SendWritten
      <3>1. PICK n \in 0..Len(vbuf) :
               /\ peer' = [s \in Streams |->
                     IF \E i \in 1..n : vbuf[i] = Local("SYN", s) THEN "open" ELSE peer[s]]
               /\ IF closed THEN SendExit ELSE Gather(SubSeq(vbuf, n + 1, Len(vbuf)))
        BY <2>2 DEF SendWritten
      <3>2. UNCHANGED <<epc, eheld, evq, evOpen, app>>
        BY <2>2 DEF SendWritten
      <3> DEFINE u == SubSeq(vbuf, 1, n)
                 v == SubSeq(vbuf, n + 1, Len(vbuf))
      <3>3. /\ v \in Seq(Event) /\ Len(v) <= VBufMax /\ Len(u) = n
            /\ \A i \in 1..n : u[i] = vbuf[i]
        <4>1. /\ v \in Seq(Event) /\ Len(v) = Len(vbuf) - n /\ Len(u) = n
              /\ \A i \in 1..n : u[i] = vbuf[i]
          BY <1>0, SplitElements
        <4>2. Len(vbuf) \in Nat /\ Len(vbuf) <= VBufMax
          BY DEF TypeOK
        <4> HIDE DEF u, v
        <4> QED BY <4>1, <4>2, SessionAssumption
      <3>4. CASE closed
        BY <3>1, <3>4 DEF OrderInv, SendExit
      <3>5. CASE ~closed
        <4>1. Gather(v)
          BY <3>1, <3>5
        <4>2. \A s \in Streams : /\ Has(vbuf, s) => Has(u, s) \/ Has(v, s)
                                 /\ Ordered(vbuf, s) => Has(u, s) \/ Ordered(v, s)
          BY <1>0, SplitOrdered
        <4> HIDE DEF u, v
        <4>3. \A s \in Streams : (Told(s) \/ Has(u, s)) => Told(s)'
          BY <3>1, <3>3 DEF Told, Has, Syn
        <4>4. spc' = "recv" => vbuf' = <<>>
          BY <4>1 DEF Gather, SendExit
        <4>5. sendOpen' => sendOpen
          BY <4>1 DEF Gather, SendExit
        <4>6. ASSUME sendOpen', NEW s \in Streams PROVE SynAhead(s)'
          <5>1. Told(s)' \/ (Ordered(v, s) /\ (Has(v, s) \/ Unwritten(s)))
            BY <4>2, <4>3, <4>5, <4>6 DEF OrderInv, SynAhead
          <5> QED BY <3>2, <3>3, <4>1, <4>6, <5>1, GatherAhead
        <4> QED BY <4>4, <4>6 DEF OrderInv
      <3> QED BY <3>4, <3>5
    <2>3. CASE SendFails
      BY <2>3 DEF SendFails, SendExit, OrderInv
    <2>4. CASE SendShut
      <3> DEFINE e == Local("SHUTDOWN", NoStream)
      <3>1. /\ UNCHANGED <<vbuf, sendq, sendOpen, peer, epc, eheld, evOpen, app>> /\ SendEvent(e)
            /\ spc' = "done"
        BY <2>4 DEF SendShut, env
      <3>2. e \in Event /\ \A s \in Streams : ~About(e, s)
        BY EventTypes DEF About, Local
      <3> HIDE DEF e
      <3>3. \A s \in Streams : Unsent(s) => Unsent(s)'
        BY <3>1, <3>2, QueuedUnsent
      <3> QED BY <3>1, <3>3 DEF OrderInv, SynAhead, Unwritten, Told
    <2> QED BY <1>3, <2>1, <2>2, <2>3, <2>4 DEF Send
  <1>4. CASE \E t \in Streams : App(t)
    <2>1. PICK t \in Streams : App(t)
      BY <1>4
    <2>2. UNCHANGED <<vbuf, sendq, sendOpen, spc, peer, epc, eheld, evOpen>>
      BY <2>1 DEF App, Create, SynQueued, Connected, ConnectFails, AppWrite, AppShutdown,
         AppRead, AppReadClosed, AppWriteFails, AppEnds, AppAborts, AppFrame, flags, coroutines, env
    <2>3. SUFFICES ASSUME NEW s \in Streams, Unsent(s) PROVE Unsent(s)'
      BY <1>a, <2>2
    <2>4. CASE Create(t)
      BY <1>0, <2>2, <2>3, <2>4 DEF Create, Unsent, Unhandled, HeldAbout, HeldSyn
    <2>5. CASE SynQueued(t)
      <3>1. SendEvent(Syn(t)) /\ Syn(t) \in Event /\ ~About(Syn(t), s)
        BY <2>5, EventTypes DEF SynQueued, Syn, About, Local
      <3>2. app'[s] = app[s] \/ t = s
        BY <1>0, <2>5 DEF SynQueued
      <3> QED BY <2>2, <2>3, <3>1, <3>2, QueuedUnsent
    <2>6. CASE ~Create(t) /\ ~SynQueued(t)
      <3>1. app'[s] = app[s] \/ app[s] \notin {"none", "syn"}
        BY <1>0, <2>1, <2>6 DEF App, Connected, ConnectFails, AppWrite, AppShutdown,
           AppRead, AppReadClosed, AppWriteFails, AppEnds, AppAborts, AppClose
      <3>2. \/ evq' = evq
            \/ /\ app[t] \notin {"none", "syn"}
               /\ \E k \in {"DATA", "FIN"} :
                     \/ SendEvent(Local(k, t))
                     \/ evq' = IF evOpen THEN TrySend(evq, Local(k, t)) ELSE evq
        BY <2>1, <2>6 DEF App, Connected, ConnectFails, AppWrite, AppShutdown,
           AppRead, AppReadClosed, AppWriteFails, AppEnds, AppAborts, AppClose
      <3>3. CASE evq' = evq
        BY <2>2, <2>3, <3>1, <3>3 DEF Unsent, Unhandled, HeldAbout, HeldSyn
      <3>4. CASE evq' # evq
        <4>1. PICK k \in {"DATA", "FIN"} :
                 \/ SendEvent(Local(k, t))
                 \/ evq' = IF evOpen THEN TrySend(evq, Local(k, t)) ELSE evq
          BY <3>2, <3>4
        <4>2. Local(k, t) \in Event /\ (About(Local(k, t), s) => s = t)
          BY EventTypes DEF About, Local
        <4> QED BY <2>2, <2>3, <3>1, <3>2, <3>4, <4>1, <4>2, QueuedUnsent
      <3> QED BY <3>3, <3>4
    <2> QED BY <2>4, <2>5, <2>6
  <1>5. CASE RoutineTick
    <2>1. UNCHANGED <<vbuf, sendq, sendOpen, spc, peer, epc, eheld, evq, evOpen, app>>
      BY <1>5 DEF RoutineTick, coroutines, tables
    <2> QED BY <1>a, <1>b, <2>1
  <1>6. CASE RoutineSend
    <2>1. UNCHANGED <<vbuf, sendq, sendOpen, spc, peer, epc, eheld, evOpen, app>>
          /\ SendEvent(Head(todo)) /\ todo # <<>>
      BY <1>6 DEF RoutineSend, coroutines, tables, flags
    <2>2. Head(todo) \in Event /\ \A s : ~About(Head(todo), s)
      <3>1. Head(todo) \in Event /\ 1 \in 1..Len(todo) /\ Head(todo) = todo[1]
        BY <2>1, TailElements DEF TypeOK
      <3>2. ~OfStream(todo[1])
        BY <3>1 DEF EventsInv
      <3> QED BY <3>1, <3>2 DEF OfStream, About
    <2>3. \A s \in Streams : Unsent(s) => Unsent(s)'
      BY <2>1, <2>2, QueuedUnsent
    <2> QED BY <1>a, <2>1, <2>3
  <1>7. CASE UNCHANGED vars
    <2>1. UNCHANGED <<vbuf, sendq, sendOpen, spc, peer, epc, eheld, evq, evOpen, app>>
      BY <1>7 DEF vars, coroutines, tables, flags, env
    <2> QED BY <1>a, <1>b, <2>1
  <1> QED BY <1>1, <1>2, <1>3, <1>4, <1>5, <1>6, <1>7 DEF Next, Routine

-----------------------------------------------------------------------------
(* The inductive invariant, and what follows from it.                       *)

SessionInv == TypeOK /\ EventsInv /\ StreamsInv /\ PendingHasCause /\ OrderInv

\* The invariant holds when the session starts.
LEMMA InitInv == Init => SessionInv
  <1> SUFFICES ASSUME Init PROVE SessionInv
    OBVIOUS
  <1>1. <<>> \in Seq(Event) /\ Len(<<>>) = 0
    BY EmptyQueue
  <1>2. LoopTypes
    <2>1. sclosed \in [Streams -> BOOLEAN] /\ dq \in [Streams -> 0..DataCap]
      BY SessionAssumption DEF Init
    <2>2. EventQueue(evq) /\ eheld \in Event
      BY EmptyQueue, EventTypes DEF Init
    <2> QED BY <2>1, <2>2 DEF Init, LoopTypes
  <1>3. SendTypes
    <2>1. sendq \in Seq(Event) /\ Len(sendq) <= SendCap /\ vbuf \in Seq(Event) /\ Len(vbuf) <= VBufMax
      BY <1>1, SessionAssumption DEF Init
    <2> QED BY <2>1 DEF Init, SendTypes
  <1>4. scope.remote \in Nat /\ scope.ticks \in Nat
    BY SessionAssumption DEF Init
  <1>5. RestTypes
    <2>1. /\ app \in [Streams -> AppStates] /\ rx \in [Streams -> BOOLEAN]
          /\ peer \in [Streams -> {"none", "open", "fin"}]
      BY DEF Init, AppStates
    <2>2. wrote \in [Streams -> 0..MaxWrites] /\ remote \in 0..scope.remote /\ ticks \in 0..scope.ticks
      BY <1>4, SessionAssumption DEF Init
    <2>3. todo \in Seq(Event) /\ rheld \in Event
      BY <1>1, EventTypes DEF Init
    <2> QED BY <2>1, <2>2, <2>3 DEF Init, RestTypes
  <1>6. EventsInv
    BY LocalSound DEF Init, EventsInv, AllSound
  <1>7. StreamsInv /\ PendingHasCause
    BY DEF Init, StreamsInv, PendingHasCause
  <1>8. OrderInv
    BY EmptyOrdered DEF Init, OrderInv, SynAhead, Unwritten, Unsent, Unhandled, HeldAbout
  <1> QED BY <1>2, <1>3, <1>5, <1>6, <1>7, <1>8, TypeParts DEF SessionInv

\* The session's queues, its map and its streams stay consistent, whatever the
\* order in which its coroutines, the relays and the routine take their steps.
THEOREM SessionSound == Spec => []SessionInv
  <1>1. Init => SessionInv
    BY InitInv
  <1>2. SessionInv /\ [Next]_vars => SessionInv'
    BY NextTypes, NextEvents, NextStreams, NextPending, NextOrder DEF SessionInv
  <1> QED BY <1>1, <1>2, PTL DEF Spec

\* The frames still to be sent, in their order.
LEMMA OutgoingOrdered ==
  ASSUME TypeOK, OrderInv, NEW s \in Streams, peer[s] = "none"
  PROVE  Ordered(Outgoing, s)
  <1>1. CASE ~sendOpen
    BY <1>1, EmptyOrdered DEF Outgoing
  <1>2. CASE sendOpen
    <2>1. /\ Ordered(vbuf, s) /\ (Has(vbuf, s) \/ Unwritten(s))
          /\ vbuf \in Seq(Event) /\ sendq \in Seq(Event) /\ evq \in Seq(Event) /\ eheld \in Event
      BY <1>2 DEF OrderInv, SynAhead, Told, TypeOK
    <2> DEFINE p == vbuf \o sendq
    <2>2. p \in Seq(Event) /\ Ordered(p, s) /\ (Has(p, s) \/ Unsent(s))
      BY <2>1, ConcatElements, ConcatOrdered DEF Unwritten
    <2>3. /\ Held \in Seq(Event) /\ (~HeldAbout(s) => Ordered(Held, s))
          /\ HeldSyn(s) => Has(Held, s)
      <3>1. CASE epc = "forward"
        <4>1. Held = <<eheld>> /\ Held \in Seq(Event) /\ Len(Held) = 1 /\ Held[1] = eheld
          BY <2>1, <3>1 DEF Held
        <4> QED BY <3>1, <4>1 DEF HeldAbout, HeldSyn, Ordered, Has
      <3>2. CASE epc # "forward"
        BY <3>2, EmptyOrdered, EmptyQueue DEF Held, HeldSyn
      <3> QED BY <3>1, <3>2
    <2> DEFINE q == p \o Held
    <2> HIDE DEF p
    <2>4. q \in Seq(Event) /\ Ordered(q, s) /\ (Has(q, s) \/ Unhandled(s))
      BY <2>2, <2>3, ConcatElements, ConcatOrdered DEF Unsent
    <2> HIDE DEF q
    <2>5. Ordered(q \o evq, s)
      BY <2>1, <2>4, ConcatOrdered DEF Unhandled
    <2> QED BY <1>2, <2>5 DEF Outgoing, p, q
  <1> QED BY <1>1, <1>2, EmptyOrdered DEF Outgoing

\* Whatever this end sends for a stream is behind the SYN of the stream, through
\* the event queue, the send queue and the write buffer, for queues of any size
\* and any number of streams.
THEOREM SynGoesFirst == Spec => []SynFirst
  <1>1. SessionInv => SynFirst
    <2> SUFFICES ASSUME SessionInv, NEW s \in Streams, NEW i \in 1..Len(Outgoing),
                        Outgoing[i].k \in {"DATA", "FIN"}, Outgoing[i].s = s, peer[s] = "none"
                 PROVE  \E j \in 1..i : Outgoing[j] = Local("SYN", s)
      BY DEF SynFirst, SessionInv
    <2> QED BY OutgoingOrdered DEF SessionInv, Ordered, About, Syn
  <1> QED BY <1>1, SessionSound, PTL

\* A stream stays in pendding_streams only for a SYN that is still to be handled,
\* or because its session was retired or closed.
THEOREM PendingCaused == Spec => []PendingHasCause
  <1>1. SessionInv => PendingHasCause
    BY DEF SessionInv
  <1> QED BY <1>1, SessionSound, PTL

\* At the end of a session every stream but the pending ones is closed.
THEOREM OrphansPending == Spec => []OrphansWerePending
  <1>1. SessionInv => OrphansWerePending
    BY DEF SessionInv, StreamsInv, OrphansWerePending, Ended
  <1> QED BY <1>1, SessionSound, PTL
=============================================================================
