--------------------------- MODULE MuxPairProofs ---------------------------
(***************************************************************************)
(* Proofs about the two ends of a session: what a relay writes is lost only *)
(* for a cause, and the two ends wait for each other only when the windows  *)
(* of the streams can fill every queue between them.  Both hold for any     *)
(* number of streams, any window and any size of the queues.                *)
(*                                                                         *)
(* Both properties count frames that are spread over the queues of the two  *)
(* ends and the connection.  The invariant (PairInv) therefore weighs what  *)
(* is on the way: Way(e, w) is the sum of the weights w of all frames from  *)
(* e that the other end has not handled.  A step that only moves frames     *)
(* leaves every weight as it is, and each of the others changes it by the   *)
(* frame it makes or takes.  With the weights come the three accounts: of   *)
(* a window (WindowKept: what may be written, was written, is unread, is    *)
(* unreported or is reported and not learned of is never more than the      *)
(* window), of the frames written (OwedKept) and of the FINs (FinsKept).    *)
(***************************************************************************)
EXTENDS MuxPair, FiniteSetTheorems, FunctionTheorems, SequenceTheorems, WellFoundedInduction, TLAPS

-----------------------------------------------------------------------------
(* The weight of a queue: the sum of its events' weights, as the number of   *)
(* pairs of a place and a number below the weight of the event there.        *)

Weights == [Event -> Nat]
Units(q, w) == {x \in (DOMAIN q) \X Nat : x[2] < w[q[x[1]]]}
Weight(q, w) == Cardinality(Units(q, w))

\* A weight is a number.
LEMMA WeightType ==
  ASSUME NEW q \in Seq(Event), NEW w \in Weights
  PROVE  IsFiniteSet(Units(q, w)) /\ Weight(q, w) \in Nat
  <1> DEFINE N == 1 .. Len(q)
             row == [i \in N |-> {i} \X (0 .. w[q[i]] - 1)]
             R == {row[i] : i \in N}
  <1>1. DOMAIN q = N /\ \A i \in N : q[i] \in Event /\ w[q[i]] \in Nat
    BY DEF Weights
  <1>2. IsFiniteSet(N)
    BY FS_Interval
  <1>3. row \in Surjection(N, R)
    BY Fun_IsSurj
  <1>4. IsFiniteSet(R)
    BY <1>2, <1>3, FS_Surjection
  <1>5. \A T \in R : IsFiniteSet(T)
    <2>1. SUFFICES ASSUME NEW i \in N PROVE IsFiniteSet({i} \X (0 .. w[q[i]] - 1))
      OBVIOUS
    <2>2. IsFiniteSet({i})
      BY FS_Singleton
    <2>3. IsFiniteSet(0 .. w[q[i]] - 1)
      <3>1. 0 \in Int /\ w[q[i]] - 1 \in Int
        BY <1>1
      <3> QED BY <3>1, FS_Interval
    <2> QED BY <2>2, <2>3, FS_Product
  <1>6. IsFiniteSet(UNION R)
    BY <1>4, <1>5, FS_UNION
  <1>7. Units(q, w) \subseteq UNION R
    <2>1. SUFFICES ASSUME NEW i \in N, NEW j \in Nat, j < w[q[i]] PROVE <<i, j>> \in UNION R
      BY <1>1 DEF Units
    <2>2. <<i, j>> \in row[i]
      BY <1>1, <2>1
    <2> QED BY <2>2
  <1>8. IsFiniteSet(Units(q, w))
    BY <1>6, <1>7, FS_Subset
  <1> QED BY <1>8, FS_CardinalityType DEF Weight

\* Queues one behind the other.
LEMMA WeightConcat ==
  ASSUME NEW p \in Seq(Event), NEW q \in Seq(Event), NEW w \in Weights
  PROVE  p \o q \in Seq(Event) /\ Weight(p \o q, w) = Weight(p, w) + Weight(q, w)
  <1> DEFINE n == Len(p)
             A == Units(p, w)
             B == {x \in Units(p \o q, w) : x[1] > n}
             f == [x \in Units(q, w) |-> <<x[1] + n, x[2]>>]
  <1>0. /\ n \in Nat /\ p \o q \in Seq(Event) /\ DOMAIN p = 1 .. n /\ DOMAIN q = 1 .. Len(q)
        /\ Len(q) \in Nat /\ DOMAIN (p \o q) = 1 .. n + Len(q)
        /\ \A i \in 1 .. n : (p \o q)[i] = p[i]
        /\ \A i \in 1 .. Len(q) : (p \o q)[i + n] = q[i]
    OBVIOUS
  <1>1. Units(p \o q, w) = A \cup B
    <2>1. ASSUME NEW x \in Units(p \o q, w), ~(x[1] > n) PROVE x \in A
      BY <1>0, <2>1 DEF Units
    <2>2. ASSUME NEW x \in A PROVE x \in Units(p \o q, w)
      BY <1>0, <2>2 DEF Units
    <2> QED BY <2>1, <2>2
  <1>2. A \cap B = {}
    BY <1>0 DEF Units
  <1>3. f \in Bijection(Units(q, w), B)
    <2>1. ASSUME NEW x \in Units(q, w) PROVE f[x] \in B
      BY <1>0, <2>1 DEF Units
    <2>2. ASSUME NEW x \in Units(q, w), NEW y \in Units(q, w), f[x] = f[y] PROVE x = y
      <3>1. x = <<x[1], x[2]>> /\ y = <<y[1], y[2]>> /\ x[1] \in Nat /\ y[1] \in Nat
        BY <1>0 DEF Units
      <3>2. x[1] + n = y[1] + n /\ x[2] = y[2]
        BY <2>2
      <3>3. x[1] = y[1]
        BY <1>0, <3>1, <3>2
      <3> QED BY <3>1, <3>2, <3>3
    <2>3. ASSUME NEW y \in B PROVE \E x \in Units(q, w) : f[x] = y
      <3>1. y[1] \in n + 1 .. n + Len(q) /\ y[2] \in Nat /\ y = <<y[1], y[2]>> /\ y[2] < w[(p \o q)[y[1]]]
        BY <1>0, <2>3 DEF Units
      <3>2. PICK i \in 1 .. Len(q) : y[1] = i + n
        <4>1. y[1] - n \in 1 .. Len(q) /\ y[1] = (y[1] - n) + n
          BY <1>0, <3>1
        <4> QED BY <4>1
      <3>3. <<i, y[2]>> \in Units(q, w)
        BY <1>0, <3>1, <3>2 DEF Units
      <3>4. f[<<i, y[2]>>] = y
        BY <3>1, <3>2, <3>3
      <3> QED BY <3>3, <3>4
    <2>4. f \in [Units(q, w) -> B]
      BY <2>1
    <2> HIDE DEF f, B
    <2> QED BY <2>2, <2>3, <2>4, Fun_IsBij
  <1>4. IsFiniteSet(A) /\ IsFiniteSet(Units(q, w)) /\ Cardinality(A) \in Nat
    BY WeightType DEF Weight
  <1>5. IsFiniteSet(B) /\ Cardinality(B) = Cardinality(Units(q, w))
    <2> HIDE DEF f, B
    <2>1. ExistsBijection(Units(q, w), B)
      BY <1>3 DEF ExistsBijection
    <2> QED BY <1>4, <2>1, FS_Bijection
  <1>6. Cardinality(A \cup B) = Cardinality(A) + Cardinality(B) - Cardinality(A \cap B)
    BY <1>4, <1>5, FS_Union
  <1>7. Cardinality(A \cap B) = 0
    BY <1>2, FS_EmptySet
  <1>8. Cardinality(B) \in Nat
    BY <1>5, FS_CardinalityType
  <1> HIDE DEF A, B
  <1>9. Cardinality(A \cup B) = Cardinality(A) + Cardinality(Units(q, w))
    BY <1>4, <1>5, <1>6, <1>7, <1>8
  <1> QED BY <1>0, <1>1, <1>9 DEF Weight, A

\* No event and one event.
LEMMA WeightOne ==
  ASSUME NEW ev \in Event, NEW w \in Weights
  PROVE  Weight(<<>>, w) = 0 /\ Weight(<<ev>>, w) = w[ev]
  <1>1. Weight(<<>>, w) = 0
    <2>1. Units(<<>>, w) = {}
      BY DEF Units
    <2> QED BY <2>1, FS_EmptySet DEF Weight
  <1>2. Weight(<<ev>>, w) = w[ev]
    <2> DEFINE n == w[ev]
    <2>1. n \in Nat
      BY DEF Weights
    <2>2. Units(<<ev>>, w) = {1} \X (0 .. n - 1)
      <3>1. DOMAIN <<ev>> = {1} /\ <<ev>>[1] = ev
        OBVIOUS
      <3>2. ASSUME NEW x \in {1} \X Nat PROVE x[2] < w[<<ev>>[x[1]]] <=> x[2] \in 0 .. n - 1
        BY <2>1, <3>1, <3>2
      <3> QED BY <3>1, <3>2 DEF Units
    <2>3. IsFiniteSet({1}) /\ Cardinality({1}) = 1
      BY FS_Singleton
    <2>4. IsFiniteSet(0 .. n - 1) /\ Cardinality(0 .. n - 1) = n
      <3>1. 0 \in Int /\ n - 1 \in Int
        BY <2>1
      <3> HIDE DEF n
      <3>2. IsFiniteSet(0 .. n - 1) /\ Cardinality(0 .. n - 1) = IF 0 > n - 1 THEN 0 ELSE n - 1 - 0 + 1
        BY <3>1, FS_Interval
      <3> QED BY <2>1, <3>2
    <2>5. Cardinality({1} \X (0 .. n - 1)) = 1 * n
      <3>1. PICK I : I = 0 .. n - 1
        OBVIOUS
      <3>2. IsFiniteSet(I) /\ Cardinality(I) = n
        BY <2>4, <3>1
      <3>3. Cardinality({1} \X I) = Cardinality({1}) * Cardinality(I)
        BY <2>3, <3>2, FS_Product
      <3> QED BY <2>3, <3>1, <3>2, <3>3
    <2>6. 1 * n = n
      BY <2>1
    <2> QED BY <2>2, <2>5, <2>6, Zenon DEF Weight
  <1> QED BY <1>1, <1>2

\* One event more at the end, one less at the front.
LEMMA WeightAppend ==
  ASSUME NEW q \in Seq(Event), NEW ev \in Event, NEW w \in Weights
  PROVE  /\ Append(q, ev) \in Seq(Event) /\ Len(Append(q, ev)) = Len(q) + 1
         /\ Weight(Append(q, ev), w) = Weight(q, w) + w[ev]
  <1>1. Append(q, ev) = q \o <<ev>> /\ <<ev>> \in Seq(Event)
        /\ Append(q, ev) \in Seq(Event) /\ Len(Append(q, ev)) = Len(q) + 1
    OBVIOUS
  <1>2. Weight(q \o <<ev>>, w) = Weight(q, w) + Weight(<<ev>>, w)
    BY <1>1, WeightConcat
  <1> QED BY <1>1, <1>2, WeightOne

\* The first event taken from a queue.
LEMMA WeightTail ==
  ASSUME NEW q \in Seq(Event), q # <<>>, NEW w \in Weights
  PROVE  /\ Tail(q) \in Seq(Event) /\ Head(q) \in Event /\ Len(Tail(q)) = Len(q) - 1
         /\ Weight(q, w) = w[Head(q)] + Weight(Tail(q), w)
  <1>1. /\ q = <<Head(q)>> \o Tail(q) /\ Head(q) \in Event /\ Tail(q) \in Seq(Event)
        /\ <<Head(q)>> \in Seq(Event) /\ Len(Tail(q)) = Len(q) - 1
    OBVIOUS
  <1>2. Weight(<<Head(q)>> \o Tail(q), w) = Weight(<<Head(q)>>, w) + Weight(Tail(q), w)
    BY <1>1, WeightConcat
  <1> QED BY <1>1, <1>2, WeightOne

\* A queue cut in two.
LEMMA WeightSplit ==
  ASSUME NEW q \in Seq(Event), NEW n \in 0 .. Len(q), NEW w \in Weights
  PROVE  /\ SubSeq(q, 1, n) \in Seq(Event) /\ Len(SubSeq(q, 1, n)) = n
         /\ SubSeq(q, n + 1, Len(q)) \in Seq(Event) /\ Len(SubSeq(q, n + 1, Len(q))) = Len(q) - n
         /\ Weight(q, w) = Weight(SubSeq(q, 1, n), w) + Weight(SubSeq(q, n + 1, Len(q)), w)
  <1> DEFINE a == SubSeq(q, 1, n)
             b == SubSeq(q, n + 1, Len(q))
  <1>0. n \in Nat /\ Len(q) \in Nat
    OBVIOUS
  <1>1. /\ a \in Seq(Event) /\ Len(a) = n /\ b \in Seq(Event) /\ Len(b) = Len(q) - n
        /\ \A i \in 1 .. n : a[i] = q[i]
        /\ \A i \in 1 .. Len(q) - n : b[i] = q[n + i]
    OBVIOUS
  <1> HIDE DEF a, b
  <1>2. q = a \o b
    <2>1. Len(a \o b) = Len(q) /\ a \o b \in Seq(Event)
      BY <1>0, <1>1
    <2>2. ASSUME NEW i \in 1 .. Len(q) PROVE (a \o b)[i] = q[i]
      <3>1. CASE i <= n
        BY <1>0, <1>1, <3>1
      <3>2. CASE ~(i <= n)
        <4>1. PICK j \in 1 .. Len(q) - n : i = n + j
          <5>1. i - n \in 1 .. Len(q) - n /\ i = n + (i - n)
            BY <1>0, <3>2
          <5> QED BY <5>1
        <4> QED BY <1>0, <1>1, <4>1
      <3> QED BY <3>1, <3>2
    <2>3. PICK c \in Seq(Event) : c = a \o b
      BY <2>1
    <2>4. q = c
      <3>1. Len(q) = Len(c) /\ \A i \in 1 .. Len(q) : q[i] = c[i]
        BY <2>1, <2>2, <2>3
      <3> QED BY <3>1, SeqEqual
    <2> QED BY <2>3, <2>4
  <1>3. Weight(a \o b, w) = Weight(a, w) + Weight(b, w)
    BY <1>1, WeightConcat
  <1> QED BY <1>1, <1>2, <1>3 DEF a, b

\* w gives each event what one of u and v does and the other does not.
Splits(w, u, v) ==
    /\ w \in Weights /\ u \in Weights /\ v \in Weights
    /\ \A ev \in Event : (w[ev] = u[ev] /\ v[ev] = 0) \/ (w[ev] = v[ev] /\ u[ev] = 0)

\* Two weights that share the events of a queue.
LEMMA WeightAdd ==
  ASSUME NEW q \in Seq(Event), NEW u, NEW v, NEW w, Splits(w, u, v)
  PROVE  Weight(q, w) = Weight(q, u) + Weight(q, v)
  <1>1. w \in Weights /\ u \in Weights /\ v \in Weights
    BY DEF Splits
  <1>2. \A i \in DOMAIN q : /\ q[i] \in Event /\ u[q[i]] \in Nat /\ v[q[i]] \in Nat /\ w[q[i]] \in Nat
                            /\ (w[q[i]] = u[q[i]] /\ v[q[i]] = 0) \/ (w[q[i]] = v[q[i]] /\ u[q[i]] = 0)
    BY DEF Splits, Weights
  <1>3. Units(q, w) = Units(q, u) \cup Units(q, v)
    BY <1>2 DEF Units
  <1>4. Units(q, u) \cap Units(q, v) = {}
    BY <1>2 DEF Units
  <1>5. /\ IsFiniteSet(Units(q, u)) /\ IsFiniteSet(Units(q, v))
        /\ Weight(q, u) \in Nat /\ Weight(q, v) \in Nat
    BY <1>1, WeightType
  <1>6. Weight(q, w) = Weight(q, u) + Weight(q, v) - Cardinality(Units(q, u) \cap Units(q, v))
    BY <1>3, <1>5, FS_Union DEF Weight
  <1>7. Cardinality(Units(q, u) \cap Units(q, v)) = 0
    BY <1>4, FS_EmptySet
  <1> QED BY <1>5, <1>6, <1>7

\* A queue of events that weigh something, and of events that weigh nothing.
LEMMA WeightBounds ==
  ASSUME NEW q \in Seq(Event), NEW w \in Weights
  PROVE  /\ (\A i \in 1 .. Len(q) : w[q[i]] >= 1) => Len(q) <= Weight(q, w)
         /\ (\A i \in 1 .. Len(q) : w[q[i]] = 0) => Weight(q, w) = 0
  <1>0. DOMAIN q = 1 .. Len(q) /\ Len(q) \in Nat /\ \A i \in 1 .. Len(q) : w[q[i]] \in Nat
    BY DEF Weights
  <1>1. ASSUME \A i \in 1 .. Len(q) : w[q[i]] >= 1 PROVE Len(q) <= Weight(q, w)
    <2> DEFINE f == [i \in 1 .. Len(q) |-> <<i, 0>>]
    <2>1. f \in [1 .. Len(q) -> Units(q, w)]
      BY <1>0, <1>1 DEF Units
    <2>2. \A a, b \in 1 .. Len(q) : f[a] = f[b] => a = b
      OBVIOUS
    <2>3. f \in Injection(1 .. Len(q), Units(q, w))
      <3> HIDE DEF f
      <3> QED BY <2>1, <2>2, Fun_IsInj
    <2>4. IsFiniteSet(Units(q, w))
      BY WeightType
    <2>5. Cardinality(1 .. Len(q)) <= Cardinality(Units(q, w))
      BY <2>3, <2>4, FS_Injection
    <2>6. Cardinality(1 .. Len(q)) = Len(q)
      <3>1. PICK n \in Nat : n = Len(q)
        BY <1>0
      <3>2. Cardinality(1 .. n) = IF 1 > n THEN 0 ELSE n - 1 + 1
        BY FS_Interval
      <3>3. Cardinality(1 .. n) = n
        BY <3>2
      <3> QED BY <3>1, <3>3
    <2> QED BY <2>5, <2>6 DEF Weight
  <1>2. ASSUME \A i \in 1 .. Len(q) : w[q[i]] = 0 PROVE Weight(q, w) = 0
    <2>1. Units(q, w) = {}
      BY <1>0, <1>2 DEF Units
    <2> QED BY <2>1, FS_EmptySet DEF Weight
  <1> QED BY <1>1, <1>2

-----------------------------------------------------------------------------
(* The frames on the way, by what they weigh.                               *)

\* The events of queue e that are its own, and those of the other end.
Own(w) == [ev \in Event |-> IF ev.remote THEN 0 ELSE w[ev]]
Far(w) == [ev \in Event |-> IF ev.remote THEN w[ev] ELSE 0]

\* What e has to send or has sent, what has come to e, and both: what is on the
\* way from e to the other end.
Sending(e, w) == Weight(evq[e], Own(w)) + Own(w)[eheld[e]] + Weight(sendq[e], Own(w))
                 + Weight(vbuf[e], Own(w)) + Weight(net[e], Own(w))
Coming(e, w) == Weight(rheld[e], Far(w)) + Weight(evq[e], Far(w)) + Far(w)[eheld[e]]
Way(e, w) == Sending(e, w) + Coming(Other(e), w)

\* Weights that do not tell the sender's event from the receiver's.
Blind == {w \in Weights : /\ w[Nothing] = 0
                          /\ \A ev \in Event : w[[ev EXCEPT !.remote = TRUE]] = w[ev]}

\* Events of some kinds and streams; a WIN_UPDATE weighs the frames it stands for.
Share(kinds, T) ==
    [ev \in Event |-> IF ev.k \in kinds /\ ev.s \in T THEN IF ev.k = "WIN" THEN ev.n ELSE 1 ELSE 0]
Data(s) == Share({"DATA"}, {s})
Wins(s) == Share({"WIN"}, {s})
Fins(s) == Share({"FIN"}, {s})
Pings == Share({"PING", "PONG"}, Streams \cup {0})
Routines == Share({"ROUTINE"}, Streams \cup {0})

-----------------------------------------------------------------------------
(* The inductive invariant.                                                 *)

\* Events as they are made; those that go over the connection; those in the send
\* queue and behind it; and those that came.
Proper == {ev \in Event : /\ ev.k = "WIN" => ev.n >= 1
                          /\ ev.k \in {"DATA", "WIN", "FIN"} => ev.s \in Streams}
Wire == {ev \in Proper : ev.k # "ROUTINE"}
Outgoing == {ev \in Wire : ~ev.remote}
Arrived == {ev \in Wire : ev.remote}

TableTypes ==
    /\ streams \in [Ends -> SUBSET Streams] /\ life \in [Ends -> {"run", "closing", "over"}]
    /\ relay \in [Ends -> [Streams -> {"open", "closed", "deaf", "over"}]]
    /\ dq \in [Ends -> [Streams -> 0 .. DataCap]] /\ credit \in [Ends -> [Streams -> Int]]
    /\ unreported \in [Ends -> [Streams -> Nat]] /\ owed \in [Ends -> [Streams -> Nat]]
    /\ finLost \in [Ends -> [Streams -> BOOLEAN]]
    /\ scope \in Scopes /\ retired \in BOOLEAN /\ pings \in 0 .. scope.pings
    /\ due \in {<<>>, <<"ROUTINE">>, <<"PING", "ROUTINE">>}

QueueTypes ==
    /\ evq \in [Ends -> Seq(Proper)] /\ evq["server"] \in Seq(Wire)
    /\ epc \in [Ends -> {"recv", "forward", "offer"}] /\ eheld \in [Ends -> Event]
    /\ sendq \in [Ends -> Seq(Outgoing)] /\ vbuf \in [Ends -> Seq(Outgoing)]
    /\ net \in [Ends -> Seq(Outgoing)] /\ rheld \in [Ends -> Seq(Arrived)]
    /\ \A e \in Ends :
          /\ Len(evq[e]) <= EvCap /\ Len(sendq[e]) <= SendCap /\ Len(vbuf[e]) <= VBufMax
          /\ Len(net[e]) <= NetCap /\ Len(rheld[e]) <= 1
          /\ epc[e] = "recv" => eheld[e] = Nothing
          /\ epc[e] = "forward" => eheld[e] \in Outgoing
          /\ epc[e] = "offer" => eheld[e] \in Arrived /\ eheld[e].k = "DATA" /\ eheld[e].s \in Streams

\* The window of e for s: what may be written, what was and is not offered, not
\* read, not reported or not learned of, is never more than it was.
Unread(e, s) == IF relay[e][s] = "open" THEN dq[e][s] ELSE 0
Spent(e, s) == credit[e][s] + owed[e][s] + Unread(Other(e), s) + unreported[Other(e)][s] + Way(Other(e), Wins(s))
WindowKept(e, s) ==
    /\ credit[e][s] >= -1 /\ Spent(e, s) <= Window
    /\ e \notin Writers => credit[e][s] >= Window

\* What was written and not offered is on the way, but for the two causes of a loss.
OwedKept(e, s) ==
    /\ Way(e, Data(s)) <= owed[e][s]
    /\ relay[Other(e)][s] = "open" /\ ~retired => owed[e][s] = Way(e, Data(s))

\* Running: no session has broken.
Running == \A e \in Ends : life[e] = "run"

\* An end makes a FIN for a stream when its relay is over and when it leaves the map.
Made(e, s) == (IF relay[e][s] = "over" THEN 1 ELSE 0) + (IF s \in streams[e] THEN 0 ELSE 1)
FinsKept(e, s) ==
    /\ Way(e, Fins(s)) <= Made(e, s)
    /\ s \notin streams[e] => relay[e][s] # "open"
    /\ Closing = {} /\ Running => relay[e][s] = "open" /\ s \in streams[e]

\* A session breaks only after the client's was retired.
LifeKept == (retired \/ Running) /\ (retired => scope.retires)

\* The ROUTINEs that wait in the client's event queue.
Waiting == Weight(evq["client"], Routines)

\* A run of the routine makes one PING, which one PONG answers, and one ROUTINE.
PingsKept ==
    /\ Way("client", Pings) + Way("server", Pings)
         + (IF due = <<"PING", "ROUTINE">> THEN 1 ELSE 0) <= pings
    /\ Waiting + (IF due = <<>> THEN 0 ELSE 1) <= pings

PairInv ==
    /\ TableTypes /\ QueueTypes /\ LifeKept /\ PingsKept
    /\ \A e \in Ends, s \in Streams : WindowKept(e, s) /\ OwedKept(e, s) /\ FinsKept(e, s)

-----------------------------------------------------------------------------
(* Facts about events, ends and what is on the way.                         *)

\* Each end is the other of the other.
LEMMA OtherEnd ==
  ASSUME NEW e \in Ends
  PROVE  /\ Other(e) \in Ends /\ Other(e) # e /\ Other(Other(e)) = e
         /\ \A x \in Ends : x = e \/ x = Other(e)
  BY DEF Ends, Other

\* A table in which the entry of one end was changed.
LEMMA OneEnd ==
  ASSUME NEW S, NEW f \in [Ends -> S], NEW e \in Ends, NEW c \in S, NEW g, g = [f EXCEPT ![e] = c]
  PROVE  g \in [Ends -> S] /\ g[e] = c /\ \A x \in Ends : x # e => g[x] = f[x]
  OBVIOUS

\* Events of each of the sets are events, also in queues.
LEMMA EventSets ==
  /\ Proper \subseteq Event /\ Wire \subseteq Proper /\ Outgoing \subseteq Wire /\ Arrived \subseteq Wire
  /\ Seq(Proper) \subseteq Seq(Event) /\ Seq(Wire) \subseteq Seq(Proper)
  /\ Seq(Outgoing) \subseteq Seq(Wire) /\ Seq(Arrived) \subseteq Seq(Wire)
  <1>1. Proper \subseteq Event /\ Wire \subseteq Proper /\ Outgoing \subseteq Wire /\ Arrived \subseteq Wire
    BY DEF Proper, Wire, Outgoing, Arrived
  <1> QED BY <1>1

\* The events that the relays and the coroutines make.
LEMMA EventsMade ==
  /\ Nothing \in Event
  /\ \A k \in {"DATA", "FIN"}, s \in Streams :
        /\ Local(k, s) \in Outgoing /\ Local(k, s).k = k /\ Local(k, s).s = s /\ ~Local(k, s).remote
  /\ \A k \in {"PING", "PONG"} : Local(k, 0) \in Outgoing /\ Local(k, 0).k = k /\ Local(k, 0).s = 0
  /\ Local("ROUTINE", 0) \in Proper /\ Local("ROUTINE", 0).k = "ROUTINE" /\ ~Local("ROUTINE", 0).remote
  /\ \A s \in Streams, n \in Nat \ {0} :
        LET ev == Ev("WIN", s, n, FALSE)
        IN ev \in Outgoing /\ ev.k = "WIN" /\ ev.s = s /\ ev.n = n /\ ~ev.remote
  BY DEF Event, Proper, Wire, Outgoing, Local, Ev, Nothing

\* A frame that was read from the connection.
LEMMA EventsArrive ==
  ASSUME NEW f \in Outgoing
  PROVE  LET ev == [f EXCEPT !.remote = TRUE]
         IN ev \in Arrived /\ ev.k = f.k /\ ev.s = f.s /\ ev.n = f.n
  BY DEF Outgoing, Wire, Arrived, Proper, Event

\* The shares are weights, which look at the kind and the stream only.
LEMMA ShareWeights ==
  ASSUME NEW kinds, NEW T
  PROVE  /\ Share(kinds, T) \in Weights
         /\ \A ev \in Event : Share(kinds, T)[ev] =
               IF ev.k \in kinds /\ ev.s \in T THEN IF ev.k = "WIN" THEN ev.n ELSE 1 ELSE 0
         /\ "ROUTINE" \notin kinds => Share(kinds, T) \in Blind
  <1>1. /\ Share(kinds, T) \in Weights
        /\ \A ev \in Event : Share(kinds, T)[ev] =
               IF ev.k \in kinds /\ ev.s \in T THEN IF ev.k = "WIN" THEN ev.n ELSE 1 ELSE 0
    BY DEF Share, Weights, Event
  <1>2. ASSUME "ROUTINE" \notin kinds PROVE Share(kinds, T) \in Blind
    <2>1. Share(kinds, T)[Nothing] = 0
      BY <1>1, <1>2 DEF Nothing, Local, Ev, Event
    <2>2. \A ev \in Event : LET f == [ev EXCEPT !.remote = TRUE]
                            IN f \in Event /\ f.k = ev.k /\ f.s = ev.s /\ f.n = ev.n
      BY DEF Event
    <2>3. \A ev \in Event : Share(kinds, T)[[ev EXCEPT !.remote = TRUE]] = Share(kinds, T)[ev]
      BY <1>1, <2>2
    <2> QED BY <1>1, <2>1, <2>3 DEF Blind
  <1> QED BY <1>1, <1>2

\* The weights of the invariant.
LEMMA TheWeights ==
  /\ \A s : Data(s) \in Blind /\ Wins(s) \in Blind /\ Fins(s) \in Blind
  /\ Pings \in Blind /\ Routines \in Weights
  BY ShareWeights DEF Data, Wins, Fins, Pings, Routines

\* What one event weighs in each of them.
LEMMA EventWeights ==
  ASSUME NEW ev \in Event
  PROVE  /\ \A s : Data(s)[ev] = IF ev.k = "DATA" /\ ev.s = s THEN 1 ELSE 0
         /\ \A s : Wins(s)[ev] = IF ev.k = "WIN" /\ ev.s = s THEN ev.n ELSE 0
         /\ \A s : Fins(s)[ev] = IF ev.k = "FIN" /\ ev.s = s THEN 1 ELSE 0
         /\ Pings[ev] = IF ev.k \in {"PING", "PONG"} THEN 1 ELSE 0
         /\ Routines[ev] = IF ev.k = "ROUTINE" THEN 1 ELSE 0
  <1>1. ev.s \in Streams \cup {0}
    BY DEF Event
  <1> QED BY <1>1, ShareWeights DEF Data, Wins, Fins, Pings, Routines

\* The two parts of a blind weight.
LEMMA Parts ==
  ASSUME NEW w \in Blind
  PROVE  /\ w \in Weights /\ Own(w) \in Weights /\ Far(w) \in Weights
         /\ Own(w)[Nothing] = 0 /\ Far(w)[Nothing] = 0
         /\ \A ev \in Event : /\ w[ev] \in Nat
                              /\ ev.remote => Own(w)[ev] = 0 /\ Far(w)[ev] = w[ev]
                              /\ ~ev.remote => Own(w)[ev] = w[ev] /\ Far(w)[ev] = 0
  <1>1. w \in Weights /\ w[Nothing] = 0
    BY DEF Blind
  <1>2. \A ev \in Event : /\ w[ev] \in Nat
                          /\ ev.remote => Own(w)[ev] = 0 /\ Far(w)[ev] = w[ev]
                          /\ ~ev.remote => Own(w)[ev] = w[ev] /\ Far(w)[ev] = 0
    BY <1>1 DEF Weights, Own, Far
  <1>3. Own(w) \in Weights /\ Far(w) \in Weights
    BY <1>1 DEF Weights, Own, Far
  <1>4. Nothing \in Event /\ Nothing.remote = FALSE
    BY EventsMade DEF Nothing, Local, Ev
  <1> QED BY <1>1, <1>2, <1>3, <1>4

\* The queues of one end, and what they weigh.
LEMMA EndQueues ==
  ASSUME QueueTypes, NEW e \in Ends
  PROVE  /\ evq[e] \in Seq(Event) /\ eheld[e] \in Event /\ sendq[e] \in Seq(Event) /\ vbuf[e] \in Seq(Event)
         /\ net[e] \in Seq(Event) /\ rheld[e] \in Seq(Event)
         /\ evq[e] \in Seq(Proper) /\ sendq[e] \in Seq(Outgoing) /\ vbuf[e] \in Seq(Outgoing)
         /\ net[e] \in Seq(Outgoing) /\ rheld[e] \in Seq(Arrived)
         /\ (e = "server" => evq[e] \in Seq(Wire))
         /\ Len(evq[e]) <= EvCap /\ Len(sendq[e]) <= SendCap /\ Len(vbuf[e]) <= VBufMax
         /\ Len(net[e]) <= NetCap /\ Len(rheld[e]) <= 1
         /\ epc[e] \in {"recv", "forward", "offer"}
         /\ epc[e] = "recv" => eheld[e] = Nothing
         /\ epc[e] = "forward" => eheld[e] \in Outgoing
         /\ epc[e] = "offer" => eheld[e] \in Arrived /\ eheld[e].k = "DATA" /\ eheld[e].s \in Streams
  <1>1. /\ evq[e] \in Seq(Proper) /\ sendq[e] \in Seq(Outgoing) /\ vbuf[e] \in Seq(Outgoing)
        /\ net[e] \in Seq(Outgoing) /\ rheld[e] \in Seq(Arrived) /\ eheld[e] \in Event
        /\ epc[e] \in {"recv", "forward", "offer"}
    BY DEF QueueTypes
  <1>2. /\ evq[e] \in Seq(Event) /\ sendq[e] \in Seq(Event) /\ vbuf[e] \in Seq(Event)
        /\ net[e] \in Seq(Event) /\ rheld[e] \in Seq(Event)
    BY <1>1, EventSets
  <1> QED BY <1>1, <1>2 DEF QueueTypes

\* What the queues of one end weigh is a number.
LEMMA EndWeights ==
  ASSUME QueueTypes, NEW e \in Ends, NEW w \in Blind
  PROVE  /\ Weight(evq[e], Own(w)) \in Nat /\ Weight(evq[e], Far(w)) \in Nat
         /\ Own(w)[eheld[e]] \in Nat /\ Far(w)[eheld[e]] \in Nat
         /\ Weight(sendq[e], Own(w)) \in Nat /\ Weight(vbuf[e], Own(w)) \in Nat
         /\ Weight(net[e], Own(w)) \in Nat /\ Weight(rheld[e], Far(w)) \in Nat
         /\ Sending(e, w) \in Nat /\ Coming(e, w) \in Nat
  <1>1. /\ evq[e] \in Seq(Event) /\ eheld[e] \in Event /\ sendq[e] \in Seq(Event) /\ vbuf[e] \in Seq(Event)
        /\ net[e] \in Seq(Event) /\ rheld[e] \in Seq(Event)
    BY EndQueues
  <1>2. Own(w) \in Weights /\ Far(w) \in Weights
    BY Parts
  <1>3. Own(w)[eheld[e]] \in Nat /\ Far(w)[eheld[e]] \in Nat
    BY <1>1, <1>2 DEF Weights
  <1>4. /\ Weight(evq[e], Own(w)) \in Nat /\ Weight(evq[e], Far(w)) \in Nat
        /\ Weight(sendq[e], Own(w)) \in Nat /\ Weight(vbuf[e], Own(w)) \in Nat
        /\ Weight(net[e], Own(w)) \in Nat /\ Weight(rheld[e], Far(w)) \in Nat
    BY <1>1, <1>2, WeightType
  <1> QED BY <1>3, <1>4 DEF Sending, Coming

\* And so is what is on the way from it.
LEMMA WayType ==
  ASSUME QueueTypes, NEW e \in Ends, NEW w \in Blind
  PROVE  Way(e, w) \in Nat /\ Way(e, w) = Sending(e, w) + Coming(Other(e), w)
  BY EndWeights, OtherEnd DEF Way

-----------------------------------------------------------------------------
(* What a step does to what is on the way.                                  *)

\* The queues of an end that does nothing.
LEMMA Untouched ==
  ASSUME NEW e, NEW w, evq'[e] = evq[e], eheld'[e] = eheld[e],
         sendq'[e] = sendq[e], vbuf'[e] = vbuf[e], rheld'[e] = rheld[e]
  PROVE  /\ Coming(e, w)' = Coming(e, w)
         /\ net'[e] = net[e] => Sending(e, w)' = Sending(e, w)
  BY DEF Sending, Coming

\* handle_event or a relay changes the event queue and the frame that is held.
LEMMA Requeued ==
  ASSUME QueueTypes, NEW e \in Ends, NEW w \in Blind, NEW r, NEW h,
         Weight(r, Own(w)) \in Nat, Weight(r, Far(w)) \in Nat, Own(w)[h] \in Nat, Far(w)[h] \in Nat,
         evq'[e] = r, eheld'[e] = h, evq'[Other(e)] = evq[Other(e)], eheld'[Other(e)] = eheld[Other(e)],
         UNCHANGED <<sendq, vbuf, net, rheld>>
  PROVE  /\ Way(e, w)' + Weight(evq[e], Own(w)) + Own(w)[eheld[e]] = Way(e, w) + Weight(r, Own(w)) + Own(w)[h]
         /\ Way(Other(e), w)' + Weight(evq[e], Far(w)) + Far(w)[eheld[e]]
              = Way(Other(e), w) + Weight(r, Far(w)) + Far(w)[h]
         /\ Way(e, w)' \in Nat /\ Way(Other(e), w)' \in Nat
  <1> DEFINE o == Other(e)
  <1>0. o \in Ends /\ o # e /\ Other(o) = e
    BY OtherEnd
  <1>1. PICK c \in Nat, d \in Nat : c = Coming(o, w) /\ d = Sending(o, w)
    BY <1>0, EndWeights
  <1>2. Coming(o, w)' = c /\ Sending(o, w)' = d
    BY <1>1, Untouched
  <1>3. /\ Sending(e, w)' = Weight(r, Own(w)) + Own(w)[h] + Weight(sendq[e], Own(w))
                            + Weight(vbuf[e], Own(w)) + Weight(net[e], Own(w))
        /\ Coming(e, w)' = Weight(rheld[e], Far(w)) + Weight(r, Far(w)) + Far(w)[h]
    BY DEF Sending, Coming
  <1>4. /\ Sending(e, w) = Weight(evq[e], Own(w)) + Own(w)[eheld[e]] + Weight(sendq[e], Own(w))
                            + Weight(vbuf[e], Own(w)) + Weight(net[e], Own(w))
        /\ Coming(e, w) = Weight(rheld[e], Far(w)) + Weight(evq[e], Far(w)) + Far(w)[eheld[e]]
    BY DEF Sending, Coming
  <1>5. /\ Way(e, w)' = Sending(e, w)' + c /\ Way(o, w)' = d + Coming(e, w)'
        /\ Way(e, w) = Sending(e, w) + c /\ Way(o, w) = d + Coming(e, w)
    BY <1>0, <1>1, <1>2 DEF Way
  <1>6. /\ Weight(evq[e], Own(w)) \in Nat /\ Weight(evq[e], Far(w)) \in Nat
        /\ Own(w)[eheld[e]] \in Nat /\ Far(w)[eheld[e]] \in Nat
        /\ Weight(sendq[e], Own(w)) \in Nat /\ Weight(vbuf[e], Own(w)) \in Nat
        /\ Weight(net[e], Own(w)) \in Nat /\ Weight(rheld[e], Far(w)) \in Nat
    BY EndWeights
  <1> QED BY <1>3, <1>4, <1>5, <1>6

\* An event of this end is queued.
LEMMA PushedWay ==
  ASSUME QueueTypes, NEW e \in Ends, NEW w \in Blind, NEW ev \in Event, NEW r,
         Weight(r, Own(w)) = Weight(evq[e], Own(w)) + w[ev], Weight(r, Far(w)) = Weight(evq[e], Far(w)),
         evq'[e] = r, evq'[Other(e)] = evq[Other(e)], UNCHANGED <<eheld, sendq, vbuf, net, rheld>>
  PROVE  Way(e, w)' = Way(e, w) + w[ev] /\ Way(Other(e), w)' = Way(Other(e), w)
  <1> DEFINE o == Other(e)
  <1>1. Way(e, w) \in Nat /\ Way(o, w) \in Nat /\ w[ev] \in Nat
    BY WayType, OtherEnd, Parts
  <1>2. /\ Weight(evq[e], Own(w)) \in Nat /\ Weight(evq[e], Far(w)) \in Nat
        /\ Own(w)[eheld[e]] \in Nat /\ Far(w)[eheld[e]] \in Nat
    BY EndWeights
  <1>3. Weight(r, Own(w)) \in Nat /\ Weight(r, Far(w)) \in Nat /\ eheld'[e] = eheld[e] /\ eheld'[o] = eheld[o]
    BY <1>1, <1>2
  <1>4. /\ Way(e, w)' + Weight(evq[e], Own(w)) + Own(w)[eheld[e]]
             = Way(e, w) + Weight(r, Own(w)) + Own(w)[eheld[e]]
        /\ Way(o, w)' + Weight(evq[e], Far(w)) + Far(w)[eheld[e]]
             = Way(o, w) + Weight(r, Far(w)) + Far(w)[eheld[e]]
        /\ Way(e, w)' \in Nat /\ Way(o, w)' \in Nat
    BY <1>2, <1>3, Requeued
  <1>5. \A x, y, a, b, c, d \in Nat : x + a + b = y + c + b /\ c = a + d => x = y + d
    OBVIOUS
  <1>6. Way(e, w)' = Way(e, w) + w[ev]
    BY <1>1, <1>2, <1>3, <1>4, <1>5
  <1>7. Way(o, w)' = Way(o, w)
    <2>1. \A x, y, a, b \in Nat : x + a + b = y + a + b => x = y
      OBVIOUS
    <2>2. Way(o, w)' + Weight(evq[e], Far(w)) + Far(w)[eheld[e]] = Way(o, w) + Weight(evq[e], Far(w)) + Far(w)[eheld[e]]
      BY <1>4
    <2>3. Way(o, w)' \in Nat
      BY <1>4
    <2> HIDE DEF o
    <2> QED BY <1>1, <1>2, <2>1, <2>2, <2>3
  <1> QED BY <1>6, <1>7

\* The queues keep their types, and only what the event weighs is added.
LEMMA Pushed ==
  ASSUME QueueTypes, NEW e \in Ends, NEW ev \in Proper, ~ev.remote, ev \in Wire \/ e = "client",
         Len(evq[e]) < EvCap, evq' = [evq EXCEPT ![e] = Append(@, ev)],
         UNCHANGED <<epc, eheld, sendq, vbuf, net, rheld>>
  PROVE  /\ QueueTypes'
         /\ \A w \in Blind : /\ Way(e, w)' = Way(e, w) + w[ev]
                             /\ Way(Other(e), w)' = Way(Other(e), w)
  <1>1. /\ evq[e] \in Seq(Event) /\ eheld[e] \in Event /\ evq[e] \in Seq(Proper)
        /\ e = "server" => evq[e] \in Seq(Wire)
    BY EndQueues
  <1>2. ev \in Event
    BY EventSets
  <1>3. QueueTypes'
    <2>1. /\ Append(evq[e], ev) \in Seq(Proper) /\ Len(Append(evq[e], ev)) <= EvCap
          /\ e = "server" => Append(evq[e], ev) \in Seq(Wire)
      <3>1. Append(evq[e], ev) \in Seq(Proper) /\ Len(Append(evq[e], ev)) = Len(evq[e]) + 1 /\ Len(evq[e]) \in Nat
        BY <1>1
      <3>2. EvCap \in Nat
        BY PairAssumption
      <3>3. e = "server" => ev \in Wire
        OBVIOUS
      <3>4. e = "server" => Append(evq[e], ev) \in Seq(Wire)
        BY <1>1, <3>3
      <3> QED BY <3>1, <3>2, <3>4
    <2>2. evq' \in [Ends -> Seq(Proper)] /\ evq'["server"] \in Seq(Wire) /\ \A x \in Ends : Len(evq'[x]) <= EvCap
      BY <2>1 DEF QueueTypes, Ends
    <2> QED BY <2>2 DEF QueueTypes
  <1>4. ASSUME NEW w \in Blind
        PROVE  Way(e, w)' = Way(e, w) + w[ev] /\ Way(Other(e), w)' = Way(Other(e), w)
    <2> DEFINE r == Append(evq[e], ev)
               o == Other(e)
    <2>1. evq'[e] = r /\ evq'[o] = evq[o]
      BY OtherEnd DEF QueueTypes
    <2>2. /\ Weight(r, Own(w)) = Weight(evq[e], Own(w)) + w[ev]
          /\ Weight(r, Far(w)) = Weight(evq[e], Far(w))
      <3>1. /\ Own(w) \in Weights /\ Far(w) \in Weights /\ Own(w)[ev] = w[ev] /\ Far(w)[ev] = 0
        BY <1>2, Parts
      <3>2. Weight(r, Own(w)) = Weight(evq[e], Own(w)) + Own(w)[ev] /\ Weight(r, Far(w)) = Weight(evq[e], Far(w)) + Far(w)[ev]
        BY <1>1, <1>2, <3>1, WeightAppend
      <3>3. Weight(evq[e], Far(w)) \in Nat
        BY EndWeights
      <3> HIDE DEF r
      <3> QED BY <3>1, <3>2, <3>3
    <2> HIDE DEF r
    <2> QED BY <1>2, <2>1, <2>2, PushedWay
  <1> QED BY <1>3, <1>4

\* handle_event takes the event f off its queue, which leaves p, queues g of its
\* own or nothing, which makes r, and holds h.
LEMMA TakenWay ==
  ASSUME QueueTypes, NEW e \in Ends, NEW w \in Blind, NEW f \in Event, NEW g \in Event, NEW h \in Event,
         NEW p, NEW r, eheld[e] = Nothing, Weight(p, Own(w)) \in Nat, Weight(p, Far(w)) \in Nat,
         Weight(evq[e], Own(w)) = Own(w)[f] + Weight(p, Own(w)),
         Weight(evq[e], Far(w)) = Far(w)[f] + Weight(p, Far(w)),
         Weight(r, Own(w)) = Weight(p, Own(w)) + w[g], Weight(r, Far(w)) = Weight(p, Far(w)),
         evq'[e] = r, eheld'[e] = h, evq'[Other(e)] = evq[Other(e)], eheld'[Other(e)] = eheld[Other(e)],
         UNCHANGED <<sendq, vbuf, net, rheld>>
  PROVE  /\ Way(e, w)' + Own(w)[f] = Way(e, w) + w[g] + Own(w)[h]
         /\ Way(Other(e), w)' + Far(w)[f] = Way(Other(e), w) + Far(w)[h]
         /\ Way(e, w)' \in Nat /\ Way(Other(e), w)' \in Nat
  <1>0. w[g] \in Nat
    BY Parts
  <1>1. Way(e, w) \in Nat /\ Way(Other(e), w) \in Nat
    BY WayType, OtherEnd
  <1>2. /\ Own(w)[f] \in Nat /\ Far(w)[f] \in Nat /\ Own(w)[h] \in Nat /\ Far(w)[h] \in Nat
        /\ Own(w)[eheld[e]] = 0 /\ Far(w)[eheld[e]] = 0
    BY Parts DEF Weights
  <1>3. Weight(r, Own(w)) \in Nat /\ Weight(r, Far(w)) \in Nat
    BY <1>0
  <1>4. /\ Way(e, w)' + Weight(evq[e], Own(w)) + Own(w)[eheld[e]] = Way(e, w) + Weight(r, Own(w)) + Own(w)[h]
        /\ Way(Other(e), w)' + Weight(evq[e], Far(w)) + Far(w)[eheld[e]] = Way(Other(e), w) + Weight(r, Far(w)) + Far(w)[h]
        /\ Way(e, w)' \in Nat /\ Way(Other(e), w)' \in Nat
    BY <1>2, <1>3, Requeued
  <1>5. /\ Way(e, w)' + (Own(w)[f] + Weight(p, Own(w))) + 0 = Way(e, w) + (Weight(p, Own(w)) + w[g]) + Own(w)[h]
        /\ Way(Other(e), w)' + (Far(w)[f] + Weight(p, Far(w))) + 0 = Way(Other(e), w) + Weight(p, Far(w)) + Far(w)[h]
    BY <1>2, <1>4
  <1>6. Way(e, w)' + Own(w)[f] = Way(e, w) + w[g] + Own(w)[h]
    <2>1. \A x, y, m, n, v, a \in Nat : x + (m + v) + 0 = y + (v + a) + n => x + m = y + a + n
      OBVIOUS
    <2> QED BY <1>0, <1>1, <1>2, <1>4, <1>5, <2>1
  <1>7. Way(Other(e), w)' + Far(w)[f] = Way(Other(e), w) + Far(w)[h]
    <2>1. \A x, y, m, n, v \in Nat : x + (m + v) + 0 = y + v + n => x + m = y + n
      OBVIOUS
    <2> QED BY <1>1, <1>2, <1>4, <1>5, <2>1
  <1> QED BY <1>4, <1>6, <1>7

\* It takes the first event and holds h.
LEMMA Took ==
  ASSUME QueueTypes, NEW e \in Ends, NEW h \in Event, evq[e] # <<>>, eheld[e] = Nothing,
         evq' = Rest(e), eheld' = [eheld EXCEPT ![e] = h], UNCHANGED <<sendq, vbuf, net, rheld>>
  PROVE  \A w \in Blind :
            /\ Way(e, w)' + Own(w)[Head(evq[e])] = Way(e, w) + Own(w)[h]
            /\ Way(Other(e), w)' + Far(w)[Head(evq[e])] = Way(Other(e), w) + Far(w)[h]
            /\ Way(e, w)' \in Nat /\ Way(Other(e), w)' \in Nat
  <1> SUFFICES ASSUME NEW w \in Blind
               PROVE  /\ Way(e, w)' + Own(w)[Head(evq[e])] = Way(e, w) + Own(w)[h]
                      /\ Way(Other(e), w)' + Far(w)[Head(evq[e])] = Way(Other(e), w) + Far(w)[h]
                      /\ Way(e, w)' \in Nat /\ Way(Other(e), w)' \in Nat
    OBVIOUS
  <1> DEFINE q == evq[e]
             f == Head(q)
             r == Tail(q)
  <1>1. Own(w) \in Weights /\ Far(w) \in Weights /\ q \in Seq(Event)
    BY Parts, EndQueues
  <1>2. /\ r \in Seq(Event) /\ f \in Event
        /\ Weight(q, Own(w)) = Own(w)[f] + Weight(r, Own(w))
        /\ Weight(q, Far(w)) = Far(w)[f] + Weight(r, Far(w))
    BY <1>1, WeightTail
  <1>3. evq'[e] = r /\ evq'[Other(e)] = evq[Other(e)] /\ eheld'[e] = h /\ eheld'[Other(e)] = eheld[Other(e)]
    BY OtherEnd DEF QueueTypes, Rest
  <1> HIDE DEF r, f
  <1>4. Weight(r, Own(w)) \in Nat /\ Weight(r, Far(w)) \in Nat
    BY <1>1, <1>2, WeightType
  <1>5. PICK g \in Event : w[g] = 0
    BY EventsMade DEF Blind
  <1>6. Weight(r, Own(w)) = Weight(r, Own(w)) + w[g]
    BY <1>4, <1>5
  <1>7. /\ Way(e, w)' + Own(w)[f] = Way(e, w) + w[g] + Own(w)[h]
        /\ Way(Other(e), w)' + Far(w)[f] = Way(Other(e), w) + Far(w)[h]
        /\ Way(e, w)' \in Nat /\ Way(Other(e), w)' \in Nat
    BY <1>2, <1>3, <1>4, <1>6, TakenWay
  <1>8. Way(e, w) + w[g] = Way(e, w)
    BY <1>5, WayType
  <1> QED BY <1>7, <1>8 DEF f

\* It takes the first event, queues a FIN of its own, and holds h.
LEMMA TookFin ==
  ASSUME QueueTypes, NEW e \in Ends, NEW h \in Event, NEW s \in Streams, evq[e] # <<>>, eheld[e] = Nothing,
         evq'[e] = Append(Tail(evq[e]), Local("FIN", s)), evq'[Other(e)] = evq[Other(e)],
         eheld'[e] = h, eheld'[Other(e)] = eheld[Other(e)], UNCHANGED <<sendq, vbuf, net, rheld>>
  PROVE  \A w \in Blind :
            /\ Way(e, w)' + Own(w)[Head(evq[e])] = Way(e, w) + w[Local("FIN", s)] + Own(w)[h]
            /\ Way(Other(e), w)' + Far(w)[Head(evq[e])] = Way(Other(e), w) + Far(w)[h]
            /\ Way(e, w)' \in Nat /\ Way(Other(e), w)' \in Nat
  <1> SUFFICES ASSUME NEW w \in Blind
               PROVE  /\ Way(e, w)' + Own(w)[Head(evq[e])] = Way(e, w) + w[Local("FIN", s)] + Own(w)[h]
                      /\ Way(Other(e), w)' + Far(w)[Head(evq[e])] = Way(Other(e), w) + Far(w)[h]
                      /\ Way(e, w)' \in Nat /\ Way(Other(e), w)' \in Nat
    OBVIOUS
  <1> DEFINE q == evq[e]
             f == Head(q)
             fin == Local("FIN", s)
             r == Append(Tail(q), fin)
  <1>1. Own(w) \in Weights /\ Far(w) \in Weights /\ q \in Seq(Event)
    BY Parts, EndQueues
  <1>2. /\ Tail(q) \in Seq(Event) /\ f \in Event
        /\ Weight(q, Own(w)) = Own(w)[f] + Weight(Tail(q), Own(w))
        /\ Weight(q, Far(w)) = Far(w)[f] + Weight(Tail(q), Far(w))
    BY <1>1, WeightTail
  <1>3. fin \in Event /\ Own(w)[fin] = w[fin] /\ Far(w)[fin] = 0 /\ w[fin] \in Nat
    <2>1. fin \in Event /\ ~fin.remote
      BY EventsMade, EventSets
    <2> QED BY <2>1, Parts
  <1>4. evq'[e] = r /\ evq'[Other(e)] = evq[Other(e)] /\ eheld'[e] = h /\ eheld'[Other(e)] = eheld[Other(e)]
    OBVIOUS
  <1> HIDE DEF f, fin
  <1>5. Weight(Tail(q), Own(w)) \in Nat /\ Weight(Tail(q), Far(w)) \in Nat
    BY <1>1, <1>2, WeightType
  <1>6. Weight(r, Own(w)) = Weight(Tail(q), Own(w)) + w[fin]
    <2>1. Weight(r, Own(w)) = Weight(Tail(q), Own(w)) + Own(w)[fin]
      BY <1>1, <1>2, <1>3, WeightAppend
    <2> QED BY <1>3, <2>1
  <1>7. Weight(r, Far(w)) = Weight(Tail(q), Far(w))
    <2>1. Weight(r, Far(w)) = Weight(Tail(q), Far(w)) + 0
      BY <1>1, <1>2, <1>3, WeightAppend
    <2> QED BY <1>5, <2>1
  <1> HIDE DEF r
  <1>8. /\ Way(e, w)' + Own(w)[f] = Way(e, w) + w[fin] + Own(w)[h]
        /\ Way(Other(e), w)' + Far(w)[f] = Way(Other(e), w) + Far(w)[h]
        /\ Way(e, w)' \in Nat /\ Way(Other(e), w)' \in Nat
    BY <1>2, <1>3, <1>4, <1>5, <1>6, <1>7, TakenWay
  <1> QED BY <1>8 DEF f, fin

-----------------------------------------------------------------------------
(* The types of the queues after a step, and the ROUTINEs that wait.        *)

\* The ROUTINEs that wait are a number.
LEMMA WaitingType ==
  ASSUME QueueTypes PROVE Waiting \in Nat
  BY EndQueues, TheWeights, WeightType DEF Waiting, Ends

\* The event queue of e becomes r.
LEMMA EventQueueTypes ==
  ASSUME QueueTypes, NEW e \in Ends, NEW r \in Seq(Proper), e = "server" => r \in Seq(Wire),
         Len(r) <= EvCap, evq' = [evq EXCEPT ![e] = r]
  PROVE  /\ evq' \in [Ends -> Seq(Proper)] /\ evq'["server"] \in Seq(Wire)
         /\ \A x \in Ends : Len(evq'[x]) <= EvCap
         /\ evq'[e] = r /\ evq'[Other(e)] = evq[Other(e)]
  <1>1. evq'[e] = r /\ evq'[Other(e)] = evq[Other(e)] /\ evq' \in [Ends -> Seq(Proper)]
    BY OtherEnd DEF QueueTypes
  <1>2. \A x \in Ends : x = e \/ x = Other(e)
    BY OtherEnd
  <1>3. evq["server"] \in Seq(Wire) /\ \A x \in Ends : Len(evq[x]) <= EvCap
    BY DEF QueueTypes
  <1>4. "server" \in Ends
    BY DEF Ends
  <1>5. evq'["server"] \in Seq(Wire)
    BY <1>1, <1>2, <1>3, <1>4
  <1>6. \A x \in Ends : Len(evq'[x]) <= EvCap
    BY <1>1, <1>2, <1>3
  <1> QED BY <1>1, <1>5, <1>6

\* What handle_event holds, and why.
LEMMA HeldTypes ==
  ASSUME QueueTypes, NEW e \in Ends, NEW p \in {"recv", "forward", "offer"}, NEW h \in Event,
         p = "recv" => h = Nothing, p = "forward" => h \in Outgoing,
         p = "offer" => h \in Arrived /\ h.k = "DATA" /\ h.s \in Streams,
         epc' = [epc EXCEPT ![e] = p], eheld' = [eheld EXCEPT ![e] = h]
  PROVE  /\ epc' \in [Ends -> {"recv", "forward", "offer"}] /\ eheld' \in [Ends -> Event]
         /\ eheld'[e] = h /\ eheld'[Other(e)] = eheld[Other(e)]
         /\ \A x \in Ends :
              /\ epc'[x] = "recv" => eheld'[x] = Nothing
              /\ epc'[x] = "forward" => eheld'[x] \in Outgoing
              /\ epc'[x] = "offer" => eheld'[x] \in Arrived /\ eheld'[x].k = "DATA" /\ eheld'[x].s \in Streams
  <1>1. epc \in [Ends -> {"recv", "forward", "offer"}] /\ eheld \in [Ends -> Event]
    BY DEF QueueTypes
  <1>2. epc' \in [Ends -> {"recv", "forward", "offer"}] /\ eheld' \in [Ends -> Event]
    BY <1>1
  <1>3. /\ epc'[e] = p /\ eheld'[e] = h
        /\ \A x \in Ends : x # e => epc'[x] = epc[x] /\ eheld'[x] = eheld[x]
    BY <1>1
  <1>4. ASSUME NEW x \in Ends
        PROVE  /\ epc'[x] = "recv" => eheld'[x] = Nothing
               /\ epc'[x] = "forward" => eheld'[x] \in Outgoing
               /\ epc'[x] = "offer" => eheld'[x] \in Arrived /\ eheld'[x].k = "DATA" /\ eheld'[x].s \in Streams
    <2>1. CASE x = e
      BY <1>3, <2>1
    <2>2. CASE x # e
      <3>1. epc'[x] = epc[x] /\ eheld'[x] = eheld[x]
        BY <1>3, <2>2
      <3> QED BY <3>1, EndQueues
    <2> QED BY <2>1, <2>2
  <1> QED BY <1>2, <1>3, <1>4, OtherEnd

\* The first event of a queue, and the queue without it.
LEMMA Taking ==
  ASSUME QueueTypes, NEW e \in Ends, evq[e] # <<>>
  PROVE  /\ Head(evq[e]) \in Proper /\ Head(evq[e]) \in Event /\ (e = "server" => Head(evq[e]) \in Wire)
         /\ Tail(evq[e]) \in Seq(Proper) /\ Tail(evq[e]) \in Seq(Event)
         /\ (e = "server" => Tail(evq[e]) \in Seq(Wire))
         /\ Len(Tail(evq[e])) \in Nat /\ Len(Tail(evq[e])) + 1 = Len(evq[e]) /\ Len(Tail(evq[e])) < EvCap
         /\ Weight(evq[e], Routines) = Routines[Head(evq[e])] + Weight(Tail(evq[e]), Routines)
         /\ Weight(Tail(evq[e]), Routines) \in Nat /\ Routines[Head(evq[e])] \in Nat
  <1> DEFINE q == evq[e]
  <1>1. q \in Seq(Proper) /\ q \in Seq(Event) /\ (e = "server" => q \in Seq(Wire)) /\ Len(q) <= EvCap
    BY EndQueues
  <1>2. EvCap \in Nat
    BY PairAssumption
  <1>3. Head(q) \in Proper /\ Tail(q) \in Seq(Proper) /\ Len(Tail(q)) = Len(q) - 1 /\ Len(q) \in Nat \ {0}
    BY <1>1
  <1>4. e = "server" => Head(q) \in Wire /\ Tail(q) \in Seq(Wire)
    BY <1>1
  <1>5. Head(q) \in Event /\ Tail(q) \in Seq(Event)
    BY <1>3, EventSets
  <1>6. Len(Tail(q)) \in Nat /\ Len(Tail(q)) + 1 = Len(q) /\ Len(Tail(q)) < EvCap
    <2> HIDE DEF q
    <2> QED BY <1>1, <1>2, <1>3
  <1>7. /\ Weight(q, Routines) = Routines[Head(q)] + Weight(Tail(q), Routines)
        /\ Weight(Tail(q), Routines) \in Nat
    BY <1>1, <1>5, TheWeights, WeightTail, WeightType
  <1>8. Routines[Head(q)] \in Nat
    BY <1>5, TheWeights DEF Weights
  <1> QED BY <1>3, <1>4, <1>5, <1>6, <1>7, <1>8

\* handle_event changes its queue to r and holds h.
LEMMA RequeuedTypes ==
  ASSUME QueueTypes, NEW e \in Ends, NEW p \in {"recv", "forward", "offer"}, NEW h \in Event,
         p = "recv" => h = Nothing, p = "forward" => h \in Outgoing,
         p = "offer" => h \in Arrived /\ h.k = "DATA" /\ h.s \in Streams,
         epc' = [epc EXCEPT ![e] = p], eheld' = [eheld EXCEPT ![e] = h],
         NEW r \in Seq(Proper), e = "server" => r \in Seq(Wire), Len(r) <= EvCap,
         Weight(r, Routines) \in Nat, Weight(r, Routines) <= Weight(evq[e], Routines),
         evq' = [evq EXCEPT ![e] = r], UNCHANGED <<sendq, vbuf, net, rheld>>
  PROVE  QueueTypes' /\ Waiting' \in Nat /\ Waiting' <= Waiting
  <1>1. /\ evq' \in [Ends -> Seq(Proper)] /\ evq'["server"] \in Seq(Wire)
        /\ \A x \in Ends : Len(evq'[x]) <= EvCap
        /\ evq'[e] = r /\ evq'[Other(e)] = evq[Other(e)]
    BY EventQueueTypes
  <1>2. /\ epc' \in [Ends -> {"recv", "forward", "offer"}] /\ eheld' \in [Ends -> Event]
        /\ \A x \in Ends :
              /\ epc'[x] = "recv" => eheld'[x] = Nothing
              /\ epc'[x] = "forward" => eheld'[x] \in Outgoing
              /\ epc'[x] = "offer" => eheld'[x] \in Arrived /\ eheld'[x].k = "DATA" /\ eheld'[x].s \in Streams
    BY HeldTypes
  <1>3. QueueTypes'
    BY <1>1, <1>2 DEF QueueTypes
  <1>4. Waiting' \in Nat /\ Waiting' <= Waiting
    <2>1. CASE e = "client"
      BY <1>1, <2>1 DEF Waiting
    <2>2. CASE e # "client"
      <3>1. evq'["client"] = evq["client"]
        BY <1>1, <2>2 DEF Ends, Other
      <3> QED BY <3>1, WaitingType DEF Waiting
    <2> QED BY <2>1, <2>2
  <1> QED BY <1>3, <1>4

\* handle_event takes the first event.
LEMMA TookTypes ==
  ASSUME QueueTypes, NEW e \in Ends, NEW p \in {"recv", "forward", "offer"}, NEW h \in Event,
         p = "recv" => h = Nothing, p = "forward" => h \in Outgoing,
         p = "offer" => h \in Arrived /\ h.k = "DATA" /\ h.s \in Streams,
         epc' = [epc EXCEPT ![e] = p], eheld' = [eheld EXCEPT ![e] = h],
         evq[e] # <<>>, evq' = Rest(e), UNCHANGED <<sendq, vbuf, net, rheld>>
  PROVE  QueueTypes' /\ Waiting' \in Nat /\ Waiting' <= Waiting
  <1>1. /\ Tail(evq[e]) \in Seq(Proper) /\ (e = "server" => Tail(evq[e]) \in Seq(Wire))
        /\ Len(Tail(evq[e])) <= EvCap
    BY Taking, PairAssumption
  <1>2. Weight(Tail(evq[e]), Routines) \in Nat /\ Weight(Tail(evq[e]), Routines) <= Weight(evq[e], Routines)
    BY Taking
  <1>3. evq' = [evq EXCEPT ![e] = Tail(evq[e])]
    BY DEF Rest
  <1> QED BY <1>1, <1>2, <1>3, RequeuedTypes

\* It takes the first event and queues a FIN of its own.
LEMMA TookFinTypes ==
  ASSUME QueueTypes, NEW e \in Ends, NEW p \in {"recv", "forward", "offer"}, NEW h \in Event, NEW s \in Streams,
         p = "recv" => h = Nothing, p = "forward" => h \in Outgoing,
         p = "offer" => h \in Arrived /\ h.k = "DATA" /\ h.s \in Streams,
         epc' = [epc EXCEPT ![e] = p], eheld' = [eheld EXCEPT ![e] = h],
         evq[e] # <<>>, evq' = [evq EXCEPT ![e] = Append(Tail(evq[e]), Local("FIN", s))],
         UNCHANGED <<sendq, vbuf, net, rheld>>
  PROVE  QueueTypes' /\ Waiting' \in Nat /\ Waiting' <= Waiting
  <1> DEFINE q == Tail(evq[e])
             fin == Local("FIN", s)
  <1>1. /\ q \in Seq(Proper) /\ q \in Seq(Event) /\ (e = "server" => q \in Seq(Wire))
        /\ Len(q) \in Nat /\ Len(q) < EvCap /\ EvCap \in Nat
        /\ Weight(evq[e], Routines) = Routines[Head(evq[e])] + Weight(q, Routines)
        /\ Weight(q, Routines) \in Nat /\ Routines[Head(evq[e])] \in Nat
    BY Taking, PairAssumption
  <1>2. fin \in Wire /\ fin \in Proper /\ fin \in Event /\ fin.k = "FIN"
    BY EventsMade, EventSets
  <1>3. Routines[fin] = 0
    BY <1>2, EventWeights
  <1> HIDE DEF q, fin
  <1>4. /\ Append(q, fin) \in Seq(Proper) /\ (e = "server" => Append(q, fin) \in Seq(Wire))
        /\ Len(Append(q, fin)) <= EvCap
    <2>1. Append(q, fin) \in Seq(Proper) /\ Len(Append(q, fin)) = Len(q) + 1
      BY <1>1, <1>2
    <2>2. e = "server" => Append(q, fin) \in Seq(Wire)
      BY <1>1, <1>2
    <2> QED BY <1>1, <2>1, <2>2
  <1>5. Weight(Append(q, fin), Routines) = Weight(q, Routines)
    <2>1. Weight(Append(q, fin), Routines) = Weight(q, Routines) + 0
      BY <1>1, <1>2, <1>3, TheWeights, WeightAppend
    <2> QED BY <1>1, <2>1
  <1>6. Weight(Append(q, fin), Routines) \in Nat /\ Weight(Append(q, fin), Routines) <= Weight(evq[e], Routines)
    BY <1>1, <1>5
  <1>7. evq' = [evq EXCEPT ![e] = Append(q, fin)]
    BY DEF q, fin
  <1> QED BY <1>4, <1>6, <1>7, RequeuedTypes

-----------------------------------------------------------------------------
(* Steps that move frames on and leave what is on the way as it is.         *)

\* The frames on the way, of any weight, are the same.
Moved == \A e \in Ends, w \in Blind : Way(e, w)' = Way(e, w)

\* One end moves its frames.
LEMMA MovedWithin ==
  ASSUME NEW e \in Ends, evq'[Other(e)] = evq[Other(e)], eheld'[Other(e)] = eheld[Other(e)],
         sendq'[Other(e)] = sendq[Other(e)], vbuf'[Other(e)] = vbuf[Other(e)],
         rheld'[Other(e)] = rheld[Other(e)], net'[Other(e)] = net[Other(e)],
         \A w \in Blind : Sending(e, w)' = Sending(e, w) /\ Coming(e, w)' = Coming(e, w)
  PROVE  Moved
  <1> SUFFICES ASSUME NEW x \in Ends, NEW w \in Blind PROVE Way(x, w)' = Way(x, w)
    BY DEF Moved
  <1>1. Other(e) \in Ends /\ Other(Other(e)) = e /\ (x = e \/ x = Other(e))
    BY OtherEnd
  <1>2. Coming(Other(e), w)' = Coming(Other(e), w) /\ Sending(Other(e), w)' = Sending(Other(e), w)
    BY Untouched
  <1>3. Coming(e, w)' = Coming(e, w) /\ Sending(e, w)' = Sending(e, w)
    OBVIOUS
  <1> QED BY <1>1, <1>2, <1>3 DEF Way

\* The frame of handle_event is put into the send queue.
LEMMA Forwarded ==
  ASSUME QueueTypes, NEW e \in Ends, EvForwarded(e)
  PROVE  QueueTypes' /\ Moved /\ Waiting' = Waiting
  <1> DEFINE f == eheld[e]
             r == Append(sendq[e], f)
  <1>1. /\ f \in Outgoing /\ f \in Event /\ ~f.remote /\ sendq[e] \in Seq(Outgoing) /\ sendq[e] \in Seq(Event)
        /\ Len(sendq[e]) < SendCap /\ SendCap \in Nat
    BY EndQueues, PairAssumption DEF EvForwarded, Outgoing
  <1>2. r \in Seq(Outgoing) /\ Len(r) <= SendCap
    <2>1. r \in Seq(Outgoing) /\ Len(r) = Len(sendq[e]) + 1 /\ Len(sendq[e]) \in Nat
      BY <1>1
    <2> QED BY <1>1, <2>1
  <1>3. /\ sendq' = [sendq EXCEPT ![e] = r] /\ epc' = [epc EXCEPT ![e] = "recv"]
        /\ eheld' = [eheld EXCEPT ![e] = Nothing] /\ UNCHANGED <<evq, vbuf, net, rheld>>
    BY DEF EvForwarded
  <1>4. Nothing \in Event
    BY EventsMade
  <1>5. /\ epc' \in [Ends -> {"recv", "forward", "offer"}] /\ eheld' \in [Ends -> Event]
        /\ eheld'[e] = Nothing /\ eheld'[Other(e)] = eheld[Other(e)]
        /\ \A x \in Ends :
              /\ epc'[x] = "recv" => eheld'[x] = Nothing
              /\ epc'[x] = "forward" => eheld'[x] \in Outgoing
              /\ epc'[x] = "offer" => eheld'[x] \in Arrived /\ eheld'[x].k = "DATA" /\ eheld'[x].s \in Streams
    <2>1. "recv" \in {"recv", "forward", "offer"} /\ "recv" # "forward" /\ "recv" # "offer"
      OBVIOUS
    <2> QED BY <1>3, <1>4, <2>1, HeldTypes
  <1> HIDE DEF r
  <1>6. /\ sendq' \in [Ends -> Seq(Outgoing)] /\ \A x \in Ends : Len(sendq'[x]) <= SendCap
        /\ sendq'[e] = r /\ sendq'[Other(e)] = sendq[Other(e)]
    BY <1>2, <1>3, OtherEnd DEF QueueTypes
  <1>7. QueueTypes'
    BY <1>3, <1>5, <1>6 DEF QueueTypes
  <1>8. ASSUME NEW w \in Blind
        PROVE  Sending(e, w)' = Sending(e, w) /\ Coming(e, w)' = Coming(e, w)
    <2>1. /\ Own(w)[Nothing] = 0 /\ Far(w)[Nothing] = 0 /\ Far(w)[f] = 0 /\ Own(w) \in Weights
      BY <1>1, Parts
    <2>2. Weight(r, Own(w)) = Weight(sendq[e], Own(w)) + Own(w)[f]
      BY <1>1, <2>1, WeightAppend DEF r
    <2>3. /\ Sending(e, w)' = Weight(evq[e], Own(w)) + 0 + Weight(r, Own(w))
                              + Weight(vbuf[e], Own(w)) + Weight(net[e], Own(w))
          /\ Coming(e, w)' = Weight(rheld[e], Far(w)) + Weight(evq[e], Far(w)) + 0
      BY <1>3, <1>5, <1>6, <2>1 DEF Sending, Coming
    <2>4. /\ Sending(e, w) = Weight(evq[e], Own(w)) + Own(w)[f] + Weight(sendq[e], Own(w))
                              + Weight(vbuf[e], Own(w)) + Weight(net[e], Own(w))
          /\ Coming(e, w) = Weight(rheld[e], Far(w)) + Weight(evq[e], Far(w)) + 0
      BY <2>1 DEF Sending, Coming
    <2>5. /\ Weight(evq[e], Own(w)) \in Nat /\ Own(w)[f] \in Nat /\ Weight(sendq[e], Own(w)) \in Nat
          /\ Weight(vbuf[e], Own(w)) \in Nat /\ Weight(net[e], Own(w)) \in Nat
      BY EndWeights
    <2> HIDE DEF f
    <2> QED BY <2>2, <2>3, <2>4, <2>5
  <1>9. Moved
    BY <1>3, <1>5, <1>6, <1>8, MovedWithin
  <1>10. Waiting' = Waiting
    BY <1>3 DEF Waiting
  <1> QED BY <1>7, <1>9, <1>10

\* The least of two numbers.
LEMMA LeastOfTwo ==
  ASSUME NEW a \in Int, NEW b \in Int
  PROVE  Min({a, b}) \in {a, b} /\ Min({a, b}) <= a /\ Min({a, b}) <= b
  <1>1. \E x \in {a, b} : \A y \in {a, b} : x <= y
    <2>1. CASE a <= b
      BY <2>1
    <2>2. CASE ~(a <= b)
      BY <2>2
    <2> QED BY <2>1, <2>2
  <1>2. PICK m : m = Min({a, b})
    OBVIOUS
  <1>3. m \in {a, b} /\ \A y \in {a, b} : m <= y
    BY <1>1, <1>2 DEF Min
  <1> QED BY <1>2, <1>3

\* What handle_send gathers leaves the send queue.
LEMMA Gathers ==
  ASSUME QueueTypes, NEW e \in Ends, NEW v \in Seq(Outgoing), Len(v) <= VBufMax, Gather(e, v)
  PROVE  /\ vbuf' \in [Ends -> Seq(Outgoing)] /\ sendq' \in [Ends -> Seq(Outgoing)]
         /\ \A x \in Ends : Len(sendq'[x]) <= SendCap /\ Len(vbuf'[x]) <= VBufMax
         /\ sendq'[Other(e)] = sendq[Other(e)] /\ vbuf'[Other(e)] = vbuf[Other(e)]
         /\ \A w \in Weights : /\ Weight(vbuf'[e], w) \in Nat /\ Weight(sendq'[e], w) \in Nat
                               /\ Weight(vbuf'[e], w) + Weight(sendq'[e], w) = Weight(v, w) + Weight(sendq[e], w)
  <1> DEFINE q == sendq[e]
             n == Min({Len(q), VBufMax - Len(v)})
             g == SubSeq(q, 1, n)
             r == SubSeq(q, n + 1, Len(q))
  <1>1. /\ q \in Seq(Outgoing) /\ q \in Seq(Event) /\ v \in Seq(Event) /\ Len(q) \in Nat /\ Len(v) \in Nat
        /\ Len(q) <= SendCap /\ VBufMax \in Nat /\ SendCap \in Nat
    BY EndQueues, EventSets, PairAssumption
  <1>2. n \in 0 .. Len(q) /\ n <= VBufMax - Len(v)
    <2>1. Len(q) \in Int /\ VBufMax - Len(v) \in Nat /\ VBufMax - Len(v) \in Int
      BY <1>1
    <2>2. n \in {Len(q), VBufMax - Len(v)} /\ n <= Len(q) /\ n <= VBufMax - Len(v)
      BY <2>1, LeastOfTwo, Zenon
    <2> HIDE DEF n, q
    <2> QED BY <1>1, <2>1, <2>2
  <1> HIDE DEF n
  <1>3. g \in Seq(Outgoing) /\ r \in Seq(Outgoing)
    BY <1>1, <1>2
  <1>4. Len(g) = n /\ Len(r) = Len(q) - n
    BY <1>1, <1>2
  <1>5. /\ g = Gathered(e, v) /\ vbuf' = [vbuf EXCEPT ![e] = v \o g]
        /\ sendq' = [sendq EXCEPT ![e] = r]
    <2>1. g = Gathered(e, v)
      BY DEF Gathered, n
    <2> QED BY <1>4, <2>1 DEF Gather
  <1>6. ASSUME NEW w \in Weights
        PROVE  /\ Weight(v \o g, w) \in Nat /\ Weight(r, w) \in Nat
               /\ Weight(v \o g, w) + Weight(r, w) = Weight(v, w) + Weight(q, w)
    <2>1. g \in Seq(Event) /\ r \in Seq(Event)
      BY <1>3, EventSets
    <2>2. Weight(q, w) = Weight(g, w) + Weight(r, w)
      BY <1>1, <1>2, WeightSplit
    <2> HIDE DEF g, r
    <2>3. Weight(v \o g, w) = Weight(v, w) + Weight(g, w)
      BY <1>1, <2>1, WeightConcat
    <2>4. Weight(v, w) \in Nat /\ Weight(g, w) \in Nat /\ Weight(r, w) \in Nat
      BY <1>1, <2>1, WeightType
    <2> HIDE DEF q
    <2> QED BY <2>2, <2>3, <2>4
  <1>7. Len(v \o g) <= VBufMax /\ v \o g \in Seq(Outgoing)
    <2> HIDE DEF g
    <2>1. Len(v \o g) = Len(v) + Len(g) /\ v \o g \in Seq(Outgoing)
      BY <1>3
    <2> QED BY <1>1, <1>2, <1>4, <2>1
  <1>8. Len(r) <= SendCap
    <2> HIDE DEF r, q
    <2> QED BY <1>1, <1>2, <1>4
  <1> DEFINE c == v \o g
  <1> HIDE DEF g, r, c
  <1>9. vbuf' = [vbuf EXCEPT ![e] = c] /\ c \in Seq(Outgoing) /\ Len(c) <= VBufMax
    BY <1>5, <1>7 DEF c
  <1>10. /\ vbuf' \in [Ends -> Seq(Outgoing)] /\ vbuf'[e] = c /\ vbuf'[Other(e)] = vbuf[Other(e)]
         /\ \A x \in Ends : Len(vbuf'[x]) <= VBufMax
    BY <1>9, OtherEnd DEF QueueTypes
  <1>11. /\ sendq' \in [Ends -> Seq(Outgoing)] /\ sendq'[e] = r /\ sendq'[Other(e)] = sendq[Other(e)]
         /\ \A x \in Ends : Len(sendq'[x]) <= SendCap
    BY <1>3, <1>5, <1>8, OtherEnd DEF QueueTypes
  <1> QED BY <1>6, <1>10, <1>11 DEF c

\* handle_send takes frames from the send queue.
LEMMA SendReceived ==
  ASSUME QueueTypes, NEW e \in Ends, SendRecv(e)
  PROVE  QueueTypes' /\ Moved /\ Waiting' = Waiting
  <1>1. vbuf[e] = <<>> /\ Gather(e, <<>>) /\ UNCHANGED <<evq, epc, eheld, net, rheld>>
    BY DEF SendRecv
  <1>2. <<>> \in Seq(Outgoing) /\ Len(<<>>) <= VBufMax
    BY PairAssumption
  <1>3. /\ vbuf' \in [Ends -> Seq(Outgoing)] /\ sendq' \in [Ends -> Seq(Outgoing)]
        /\ \A x \in Ends : Len(sendq'[x]) <= SendCap /\ Len(vbuf'[x]) <= VBufMax
        /\ sendq'[Other(e)] = sendq[Other(e)] /\ vbuf'[Other(e)] = vbuf[Other(e)]
        /\ \A w \in Weights : /\ Weight(vbuf'[e], w) \in Nat /\ Weight(sendq'[e], w) \in Nat
                              /\ Weight(vbuf'[e], w) + Weight(sendq'[e], w) = Weight(<<>>, w) + Weight(sendq[e], w)
    BY <1>1, <1>2, Gathers
  <1>4. QueueTypes'
    BY <1>1, <1>3 DEF QueueTypes
  <1>5. ASSUME NEW w \in Blind
        PROVE  Sending(e, w)' = Sending(e, w) /\ Coming(e, w)' = Coming(e, w)
    <2>1. Own(w) \in Weights
      BY Parts
    <2>2. /\ Weight(vbuf'[e], Own(w)) \in Nat /\ Weight(sendq'[e], Own(w)) \in Nat
          /\ Weight(vbuf'[e], Own(w)) + Weight(sendq'[e], Own(w)) = Weight(vbuf[e], Own(w)) + Weight(sendq[e], Own(w))
      BY <1>1, <1>3, <2>1
    <2>3. /\ Weight(evq[e], Own(w)) \in Nat /\ Own(w)[eheld[e]] \in Nat /\ Weight(sendq[e], Own(w)) \in Nat
          /\ Weight(vbuf[e], Own(w)) \in Nat /\ Weight(net[e], Own(w)) \in Nat
      BY EndWeights
    <2>4. Sending(e, w)' = Weight(evq[e], Own(w)) + Own(w)[eheld[e]] + Weight(sendq'[e], Own(w))
                              + Weight(vbuf'[e], Own(w)) + Weight(net[e], Own(w))
      BY <1>1 DEF Sending
    <2>5. Coming(e, w)' = Coming(e, w)
      BY <1>1 DEF Coming
    <2>6. Sending(e, w) = Weight(evq[e], Own(w)) + Own(w)[eheld[e]] + Weight(sendq[e], Own(w))
                              + Weight(vbuf[e], Own(w)) + Weight(net[e], Own(w))
      BY DEF Sending
    <2>7. Sending(e, w)' = Sending(e, w)
      BY <2>2, <2>3, <2>4, <2>6
    <2> QED BY <2>5, <2>7
  <1>6. Moved
    BY <1>1, <1>3, <1>5, MovedWithin
  <1>7. Waiting' = Waiting
    BY <1>1 DEF Waiting
  <1> QED BY <1>4, <1>6, <1>7

\* The two parts of a sequence.
LEMMA CutInTwo ==
  ASSUME NEW S, NEW s \in Seq(S), NEW n \in 0 .. Len(s)
  PROVE  /\ SubSeq(s, 1, n) \in Seq(S) /\ Len(SubSeq(s, 1, n)) = n
         /\ SubSeq(s, n + 1, Len(s)) \in Seq(S) /\ Len(SubSeq(s, n + 1, Len(s))) = Len(s) - n
  OBVIOUS

\* n frames of handle_send are taken by the connection.
LEMMA NetTakes ==
  ASSUME QueueTypes, NEW e \in Ends, NEW n \in 1 .. Min({Len(vbuf[e]), NetCap - Len(net[e])}),
         net' = [net EXCEPT ![e] = @ \o SubSeq(vbuf[e], 1, n)]
  PROVE  LET v == SubSeq(vbuf[e], n + 1, Len(vbuf[e])) IN
         /\ net' \in [Ends -> Seq(Outgoing)] /\ net'[Other(e)] = net[Other(e)]
         /\ \A x \in Ends : Len(net'[x]) <= NetCap
         /\ v \in Seq(Outgoing) /\ Len(v) <= VBufMax
         /\ \A w \in Weights : /\ Weight(net'[e], w) \in Nat /\ Weight(v, w) \in Nat
                               /\ Weight(net'[e], w) + Weight(v, w) = Weight(net[e], w) + Weight(vbuf[e], w)
  <1> DEFINE q == vbuf[e]
             g == SubSeq(q, 1, n)
             v == SubSeq(q, n + 1, Len(q))
             c == net[e] \o g
  <1>1. /\ q \in Seq(Outgoing) /\ q \in Seq(Event) /\ net[e] \in Seq(Outgoing) /\ net[e] \in Seq(Event)
        /\ Len(q) \in Nat /\ Len(net[e]) \in Nat /\ Len(q) <= VBufMax /\ NetCap \in Nat /\ VBufMax \in Nat
    BY EndQueues, PairAssumption
  <1>2. n \in Nat /\ n \in 0 .. Len(q) /\ n <= NetCap - Len(net[e])
    <2>1. Len(q) \in Int /\ NetCap - Len(net[e]) \in Int
      BY <1>1
    <2>2. /\ Min({Len(q), NetCap - Len(net[e])}) \in {Len(q), NetCap - Len(net[e])}
          /\ Min({Len(q), NetCap - Len(net[e])}) <= Len(q)
          /\ Min({Len(q), NetCap - Len(net[e])}) <= NetCap - Len(net[e])
      BY <2>1, LeastOfTwo, Zenon
    <2>3. PICK m \in Int : m = Min({Len(q), NetCap - Len(net[e])})
      BY <2>1, <2>2
    <2>4. n \in 1 .. m /\ m <= Len(q) /\ m <= NetCap - Len(net[e])
      BY <2>2, <2>3
    <2> HIDE DEF q
    <2> QED BY <1>1, <2>4
  <1>3. g \in Seq(Outgoing) /\ v \in Seq(Outgoing)
    <2>1. q \in Seq(Outgoing) /\ n \in 0 .. Len(q)
      BY <1>1, <1>2
    <2> HIDE DEF q
    <2> QED BY <2>1, CutInTwo
  <1>4. Len(g) = n /\ Len(v) = Len(q) - n
    <2>1. q \in Seq(Outgoing) /\ n \in 0 .. Len(q)
      BY <1>1, <1>2
    <2> HIDE DEF q
    <2> QED BY <2>1, CutInTwo
  <1>5. ASSUME NEW w \in Weights
        PROVE  /\ Weight(c, w) \in Nat /\ Weight(v, w) \in Nat
               /\ Weight(c, w) + Weight(v, w) = Weight(net[e], w) + Weight(q, w)
    <2>1. g \in Seq(Event) /\ v \in Seq(Event)
      BY <1>3, EventSets
    <2>2. Weight(q, w) = Weight(g, w) + Weight(v, w)
      BY <1>1, <1>2, WeightSplit
    <2> HIDE DEF g, v
    <2>3. Weight(c, w) = Weight(net[e], w) + Weight(g, w)
      BY <1>1, <2>1, WeightConcat
    <2>4. Weight(net[e], w) \in Nat /\ Weight(g, w) \in Nat /\ Weight(v, w) \in Nat
      BY <1>1, <2>1, WeightType
    <2> HIDE DEF q, c
    <2> QED BY <2>2, <2>3, <2>4
  <1>6. Len(c) <= NetCap /\ c \in Seq(Outgoing)
    <2> HIDE DEF g
    <2>1. Len(c) = Len(net[e]) + Len(g) /\ c \in Seq(Outgoing)
      BY <1>1, <1>3
    <2> QED BY <1>1, <1>2, <1>4, <2>1
  <1>7. Len(v) <= VBufMax
    <2> HIDE DEF v, q
    <2> QED BY <1>1, <1>2, <1>4
  <1>8. net' = [net EXCEPT ![e] = c]
    OBVIOUS
  <1> HIDE DEF c, g
  <1>9. /\ net' \in [Ends -> Seq(Outgoing)] /\ net'[e] = c /\ net'[Other(e)] = net[Other(e)]
        /\ \A x \in Ends : Len(net'[x]) <= NetCap
    <2>1. net \in [Ends -> Seq(Outgoing)] /\ \A x \in Ends : Len(net[x]) <= NetCap
      BY DEF QueueTypes
    <2>2. /\ net' \in [Ends -> Seq(Outgoing)] /\ net'[e] = c
          /\ \A x \in Ends : x # e => net'[x] = net[x]
      BY <1>6, <1>8, <2>1, OneEnd
    <2> QED BY <1>6, <2>1, <2>2, OtherEnd
  <1> QED BY <1>3, <1>5, <1>7, <1>9

\* Frames that weigh x go to the connection, and others take their place.
LEMMA Handed ==
  ASSUME QueueTypes, NEW e \in Ends, NEW w \in Blind, NEW x \in Nat,
         evq'[e] = evq[e], eheld'[e] = eheld[e], rheld'[e] = rheld[e],
         Weight(vbuf'[e], Own(w)) \in Nat, Weight(sendq'[e], Own(w)) \in Nat, Weight(net'[e], Own(w)) \in Nat,
         Weight(vbuf'[e], Own(w)) + Weight(sendq'[e], Own(w)) = x + Weight(sendq[e], Own(w)),
         Weight(net'[e], Own(w)) + x = Weight(net[e], Own(w)) + Weight(vbuf[e], Own(w))
  PROVE  Sending(e, w)' = Sending(e, w) /\ Coming(e, w)' = Coming(e, w)
  <1>1. /\ Weight(evq[e], Own(w)) \in Nat /\ Own(w)[eheld[e]] \in Nat /\ Weight(sendq[e], Own(w)) \in Nat
        /\ Weight(vbuf[e], Own(w)) \in Nat /\ Weight(net[e], Own(w)) \in Nat
    BY EndWeights
  <1>2. Weight(sendq'[e], Own(w)) + Weight(vbuf'[e], Own(w)) + Weight(net'[e], Own(w))
          = Weight(sendq[e], Own(w)) + Weight(vbuf[e], Own(w)) + Weight(net[e], Own(w))
    BY <1>1
  <1>3. Sending(e, w)' = Weight(evq[e], Own(w)) + Own(w)[eheld[e]] + Weight(sendq'[e], Own(w))
                          + Weight(vbuf'[e], Own(w)) + Weight(net'[e], Own(w))
    BY DEF Sending
  <1>4. Sending(e, w) = Weight(evq[e], Own(w)) + Own(w)[eheld[e]] + Weight(sendq[e], Own(w))
                          + Weight(vbuf[e], Own(w)) + Weight(net[e], Own(w))
    BY DEF Sending
  <1>5. Sending(e, w)' = Sending(e, w)
    BY <1>1, <1>2, <1>3, <1>4
  <1>6. Coming(e, w)' = Coming(e, w)
    BY DEF Coming
  <1> QED BY <1>5, <1>6

\* A write returns, and the session goes on.
LEMMA Written ==
  ASSUME QueueTypes, NEW e \in Ends, SendWritten(e), life[e] = "run"
  PROVE  QueueTypes' /\ Moved /\ Waiting' = Waiting
  <1>1. /\ UNCHANGED <<evq, epc, eheld, rheld>>
        /\ \E n \in 1 .. Min({Len(vbuf[e]), NetCap - Len(net[e])}) :
             /\ net' = [net EXCEPT ![e] = @ \o SubSeq(vbuf[e], 1, n)]
             /\ Gather(e, SubSeq(vbuf[e], n + 1, Len(vbuf[e])))
    BY DEF SendWritten
  <1>2. PICK n \in 1 .. Min({Len(vbuf[e]), NetCap - Len(net[e])}) :
             /\ net' = [net EXCEPT ![e] = @ \o SubSeq(vbuf[e], 1, n)]
             /\ Gather(e, SubSeq(vbuf[e], n + 1, Len(vbuf[e])))
    BY <1>1
  <1> DEFINE v == SubSeq(vbuf[e], n + 1, Len(vbuf[e]))
  <1>3. /\ net' \in [Ends -> Seq(Outgoing)] /\ net'[Other(e)] = net[Other(e)]
        /\ \A x \in Ends : Len(net'[x]) <= NetCap
        /\ v \in Seq(Outgoing) /\ Len(v) <= VBufMax
        /\ \A w \in Weights : /\ Weight(net'[e], w) \in Nat /\ Weight(v, w) \in Nat
                              /\ Weight(net'[e], w) + Weight(v, w) = Weight(net[e], w) + Weight(vbuf[e], w)
    BY <1>2, NetTakes
  <1>4. Gather(e, v)
    BY <1>2
  <1> HIDE DEF v
  <1>5. /\ vbuf' \in [Ends -> Seq(Outgoing)] /\ sendq' \in [Ends -> Seq(Outgoing)]
        /\ \A x \in Ends : Len(sendq'[x]) <= SendCap /\ Len(vbuf'[x]) <= VBufMax
        /\ sendq'[Other(e)] = sendq[Other(e)] /\ vbuf'[Other(e)] = vbuf[Other(e)]
        /\ \A w \in Weights : /\ Weight(vbuf'[e], w) \in Nat /\ Weight(sendq'[e], w) \in Nat
                              /\ Weight(vbuf'[e], w) + Weight(sendq'[e], w) = Weight(v, w) + Weight(sendq[e], w)
    BY <1>3, <1>4, Gathers
  <1>6. QueueTypes'
    BY <1>1, <1>3, <1>5 DEF QueueTypes
  <1>7. ASSUME NEW w \in Blind
        PROVE  Sending(e, w)' = Sending(e, w) /\ Coming(e, w)' = Coming(e, w)
    <2>1. Own(w) \in Weights
      BY Parts
    <2>2. /\ Weight(vbuf'[e], Own(w)) \in Nat /\ Weight(sendq'[e], Own(w)) \in Nat
          /\ Weight(net'[e], Own(w)) \in Nat /\ Weight(v, Own(w)) \in Nat
          /\ Weight(vbuf'[e], Own(w)) + Weight(sendq'[e], Own(w)) = Weight(v, Own(w)) + Weight(sendq[e], Own(w))
          /\ Weight(net'[e], Own(w)) + Weight(v, Own(w)) = Weight(net[e], Own(w)) + Weight(vbuf[e], Own(w))
      BY <1>3, <1>5, <2>1
    <2>3. evq'[e] = evq[e] /\ eheld'[e] = eheld[e] /\ rheld'[e] = rheld[e]
      BY <1>1
    <2> QED BY <2>2, <2>3, Handed
  <1>8. Moved
    BY <1>1, <1>3, <1>5, <1>7, MovedWithin
  <1>9. Waiting' = Waiting
    BY <1>1 DEF Waiting
  <1> QED BY <1>6, <1>8, <1>9

\* One queue less, the other more, by the same weight.
LEMMA Carried ==
  ASSUME QueueTypes, NEW e \in Ends, NEW w \in Blind, NEW x \in Nat,
         Weight(net'[Other(e)], Own(w)) \in Nat,
         Weight(net[Other(e)], Own(w)) = x + Weight(net'[Other(e)], Own(w)),
         Weight(rheld'[e], Far(w)) = x, Weight(rheld[e], Far(w)) = 0,
         net'[e] = net[e], rheld'[Other(e)] = rheld[Other(e)],
         UNCHANGED <<evq, eheld, sendq, vbuf>>
  PROVE  Way(e, w)' = Way(e, w) /\ Way(Other(e), w)' = Way(Other(e), w)
  <1>0. Other(e) \in Ends /\ Other(Other(e)) = e
    BY OtherEnd
  <1>1. Way(e, w)' = Way(e, w)
    BY <1>0 DEF Way, Sending, Coming
  <1>2. /\ Weight(evq[Other(e)], Own(w)) \in Nat /\ Own(w)[eheld[Other(e)]] \in Nat
        /\ Weight(sendq[Other(e)], Own(w)) \in Nat /\ Weight(vbuf[Other(e)], Own(w)) \in Nat
        /\ Weight(net[Other(e)], Own(w)) \in Nat
        /\ Weight(evq[e], Far(w)) \in Nat /\ Far(w)[eheld[e]] \in Nat
    BY <1>0, EndWeights
  <1>3. Sending(Other(e), w) = Sending(Other(e), w)' + x
    <2>1. Sending(Other(e), w) = Weight(evq[Other(e)], Own(w)) + Own(w)[eheld[Other(e)]]
             + Weight(sendq[Other(e)], Own(w)) + Weight(vbuf[Other(e)], Own(w)) + Weight(net[Other(e)], Own(w))
      BY DEF Sending
    <2>2. Sending(Other(e), w)' = Weight(evq[Other(e)], Own(w)) + Own(w)[eheld[Other(e)]]
             + Weight(sendq[Other(e)], Own(w)) + Weight(vbuf[Other(e)], Own(w)) + Weight(net'[Other(e)], Own(w))
      BY DEF Sending
    <2> QED BY <1>2, <2>1, <2>2
  <1>4. Sending(Other(e), w)' \in Nat
    BY <1>2 DEF Sending
  <1>5. Coming(e, w) \in Nat /\ Coming(e, w)' = x + Coming(e, w)
    <2>1. /\ Coming(e, w) = 0 + Weight(evq[e], Far(w)) + Far(w)[eheld[e]]
          /\ Coming(e, w)' = x + Weight(evq[e], Far(w)) + Far(w)[eheld[e]]
      BY DEF Coming
    <2> QED BY <1>2, <2>1
  <1>6. Way(Other(e), w)' = Sending(Other(e), w)' + Coming(e, w)' /\ Way(Other(e), w) = Sending(Other(e), w) + Coming(e, w)
    BY <1>0 DEF Way
  <1>7. Way(Other(e), w)' = Way(Other(e), w)
    BY <1>3, <1>4, <1>5, <1>6
  <1> QED BY <1>1, <1>7

\* handle_recv reads a frame.
LEMMA Received ==
  ASSUME QueueTypes, NEW e \in Ends, RecvFrame(e)
  PROVE  QueueTypes' /\ Moved /\ Waiting' = Waiting
  <1> DEFINE q == net[Other(e)]
             f == Head(q)
             g == [f EXCEPT !.remote = TRUE]
  <1>1. /\ q # <<>> /\ rheld[e] = <<>> /\ rheld' = [rheld EXCEPT ![e] = <<g>>]
        /\ net' = [net EXCEPT ![Other(e)] = Tail(q)] /\ UNCHANGED <<evq, epc, eheld, sendq, vbuf>>
    BY DEF RecvFrame
  <1>2. Other(e) \in Ends /\ Other(e) # e /\ Other(Other(e)) = e /\ \A x \in Ends : x = e \/ x = Other(e)
    BY OtherEnd
  <1>3. q \in Seq(Outgoing) /\ q \in Seq(Event) /\ Len(q) <= NetCap /\ NetCap \in Nat
    BY <1>2, EndQueues, PairAssumption
  <1>4. f \in Outgoing /\ Tail(q) \in Seq(Outgoing) /\ Len(Tail(q)) <= NetCap
    <2>1. f \in Outgoing /\ Tail(q) \in Seq(Outgoing) /\ Len(Tail(q)) = Len(q) - 1 /\ Len(q) \in Nat
      BY <1>1, <1>3
    <2> QED BY <1>3, <2>1
  <1>5. g \in Arrived
    BY <1>4, EventsArrive
  <1>6. f \in Event /\ g \in Event /\ ~f.remote /\ g.remote
    BY <1>4, <1>5, EventSets DEF Outgoing, Arrived
  <1>7. <<g>> \in Seq(Arrived) /\ Len(<<g>>) <= 1
    BY <1>5
  <1> DEFINE t == Tail(q)
             c == <<g>>
  <1>8. \A w \in Blind : /\ Weight(q, Own(w)) = w[f] + Weight(t, Own(w)) /\ Weight(t, Own(w)) \in Nat
                         /\ Weight(c, Far(w)) = w[f] /\ Weight(<<>>, Far(w)) = 0 /\ w[f] \in Nat
    <2> SUFFICES ASSUME NEW w \in Blind
                 PROVE  /\ Weight(q, Own(w)) = w[f] + Weight(t, Own(w)) /\ Weight(t, Own(w)) \in Nat
                        /\ Weight(c, Far(w)) = w[f] /\ Weight(<<>>, Far(w)) = 0 /\ w[f] \in Nat
      OBVIOUS
    <2>1. Own(w) \in Weights /\ Far(w) \in Weights
      BY Parts
    <2>2. Own(w)[f] = w[f] /\ Far(w)[g] = w[g] /\ w[f] \in Nat
      <3> HIDE DEF f, g
      <3> QED BY <1>6, Parts
    <2>3. w[g] = w[f]
      BY <1>6 DEF Blind
    <2>4. Weight(q, Own(w)) = Own(w)[f] + Weight(t, Own(w)) /\ t \in Seq(Event)
      BY <1>1, <1>3, <2>1, WeightTail
    <2>5. Weight(t, Own(w)) \in Nat
      BY <2>1, <2>4, WeightType
    <2>6. Weight(c, Far(w)) = Far(w)[g] /\ Weight(<<>>, Far(w)) = 0
      BY <1>6, <2>1, WeightOne
    <2> HIDE DEF f, g, q, t, c
    <2> QED BY <2>2, <2>3, <2>4, <2>5, <2>6
  <1>9. c \in Seq(Arrived) /\ Len(c) <= 1 /\ t \in Seq(Outgoing) /\ Len(t) <= NetCap
    BY <1>4, <1>7
  <1>10. rheld' = [rheld EXCEPT ![e] = c] /\ net' = [net EXCEPT ![Other(e)] = t]
    BY <1>1
  <1> HIDE DEF t, c, f
  <1>11. /\ rheld \in [Ends -> Seq(Arrived)] /\ net \in [Ends -> Seq(Outgoing)]
         /\ \A x \in Ends : Len(net[x]) <= NetCap /\ Len(rheld[x]) <= 1
    BY DEF QueueTypes
  <1>12. /\ rheld' \in [Ends -> Seq(Arrived)] /\ rheld'[e] = c /\ \A x \in Ends : x # e => rheld'[x] = rheld[x]
    BY <1>9, <1>10, <1>11, OneEnd
  <1>13. /\ net' \in [Ends -> Seq(Outgoing)] /\ net'[Other(e)] = t
         /\ \A x \in Ends : x # Other(e) => net'[x] = net[x]
    BY <1>2, <1>9, <1>10, <1>11, OneEnd
  <1>14. \A x \in Ends : Len(net'[x]) <= NetCap /\ Len(rheld'[x]) <= 1
    BY <1>2, <1>9, <1>11, <1>12, <1>13
  <1>15. QueueTypes'
    BY <1>1, <1>12, <1>13, <1>14 DEF QueueTypes
  <1>16. net'[e] = net[e] /\ rheld'[Other(e)] = rheld[Other(e)]
    BY <1>2, <1>12, <1>13
  <1>17. Moved
    <2>1. ASSUME NEW w \in Blind PROVE Way(e, w)' = Way(e, w) /\ Way(Other(e), w)' = Way(Other(e), w)
      <3>1. /\ Weight(net'[Other(e)], Own(w)) \in Nat /\ w[f] \in Nat
            /\ Weight(net[Other(e)], Own(w)) = w[f] + Weight(net'[Other(e)], Own(w))
            /\ Weight(rheld'[e], Far(w)) = w[f] /\ Weight(rheld[e], Far(w)) = 0
        BY <1>1, <1>8, <1>12, <1>13
      <3> QED BY <1>1, <1>16, <3>1, Carried
    <2> QED BY <1>2, <2>1 DEF Moved
  <1>18. Waiting' = Waiting
    BY <1>1 DEF Waiting
  <1> QED BY <1>15, <1>17, <1>18

\* A received frame is queued as an event.
LEMMA Queued ==
  ASSUME QueueTypes, NEW e \in Ends, RecvPush(e)
  PROVE  QueueTypes' /\ Moved /\ Waiting' = Waiting
  <1> DEFINE q == evq[e]
             h == rheld[e]
             r == q \o h
  <1>1. /\ Len(q) < EvCap /\ evq' = [evq EXCEPT ![e] = r] /\ rheld' = [rheld EXCEPT ![e] = <<>>]
        /\ UNCHANGED <<epc, eheld, sendq, vbuf, net>>
    BY DEF RecvPush, PushRoom, EvRoom
  <1>2. /\ q \in Seq(Proper) /\ q \in Seq(Event) /\ (e = "server" => q \in Seq(Wire)) /\ EvCap \in Nat
        /\ h \in Seq(Arrived) /\ h \in Seq(Wire) /\ h \in Seq(Proper) /\ h \in Seq(Event) /\ Len(h) <= 1
    BY EndQueues, EventSets, PairAssumption
  <1>3. r \in Seq(Proper) /\ (e = "server" => r \in Seq(Wire)) /\ Len(r) <= EvCap
    <2>1. r \in Seq(Proper) /\ Len(r) = Len(q) + Len(h) /\ Len(q) \in Nat /\ Len(h) \in Nat
      BY <1>2
    <2>2. e = "server" => r \in Seq(Wire)
      BY <1>2
    <2> HIDE DEF q, h, r
    <2> QED BY <1>1, <1>2, <2>1, <2>2
  <1>4. \A i \in 1 .. Len(h) : h[i] \in Arrived /\ h[i] \in Event /\ h[i].remote /\ h[i].k # "ROUTINE"
    <2>1. \A i \in 1 .. Len(h) : h[i] \in Arrived
      BY <1>2
    <2> QED BY <2>1, EventSets DEF Arrived, Wire
  <1>5. \A w \in Blind : /\ Weight(r, Own(w)) = Weight(q, Own(w))
                         /\ Weight(r, Far(w)) = Weight(q, Far(w)) + Weight(h, Far(w))
                         /\ Weight(<<>>, Far(w)) = 0
    <2> SUFFICES ASSUME NEW w \in Blind
                 PROVE  /\ Weight(r, Own(w)) = Weight(q, Own(w))
                        /\ Weight(r, Far(w)) = Weight(q, Far(w)) + Weight(h, Far(w))
                        /\ Weight(<<>>, Far(w)) = 0
      OBVIOUS
    <2>1. Own(w) \in Weights /\ Far(w) \in Weights
      BY Parts
    <2>2. /\ Weight(r, Own(w)) = Weight(q, Own(w)) + Weight(h, Own(w))
          /\ Weight(r, Far(w)) = Weight(q, Far(w)) + Weight(h, Far(w))
      BY <1>2, <2>1, WeightConcat
    <2>3. \A i \in 1 .. Len(h) : Own(w)[h[i]] = 0
      BY <1>4, Parts
    <2>4. Weight(h, Own(w)) = 0
      BY <1>2, <2>1, <2>3, WeightBounds
    <2>5. Weight(q, Own(w)) \in Nat
      BY <1>2, <2>1, WeightType
    <2>6. Weight(<<>>, Far(w)) = 0
      BY <2>1, EventsMade, WeightOne
    <2> HIDE DEF q, h, r
    <2> QED BY <2>2, <2>4, <2>5, <2>6
  <1>6. Weight(r, Routines) = Weight(q, Routines)
    <2>1. Weight(r, Routines) = Weight(q, Routines) + Weight(h, Routines)
      BY <1>2, TheWeights, WeightConcat
    <2>2. \A i \in 1 .. Len(h) : Routines[h[i]] = 0
      BY <1>4, EventWeights
    <2>3. Weight(h, Routines) = 0
      BY <1>2, <2>2, TheWeights, WeightBounds
    <2>4. Weight(q, Routines) \in Nat
      BY <1>2, TheWeights, WeightType
    <2> HIDE DEF q, h, r
    <2> QED BY <2>1, <2>3, <2>4
  <1> HIDE DEF r
  <1>7. /\ evq' \in [Ends -> Seq(Proper)] /\ evq'["server"] \in Seq(Wire)
        /\ \A x \in Ends : Len(evq'[x]) <= EvCap
        /\ evq'[e] = r /\ evq'[Other(e)] = evq[Other(e)]
    BY <1>1, <1>3, EventQueueTypes
  <1>8. rheld \in [Ends -> Seq(Arrived)] /\ \A x \in Ends : Len(rheld[x]) <= 1
    BY DEF QueueTypes
  <1>9. /\ rheld' \in [Ends -> Seq(Arrived)] /\ rheld'[e] = <<>> /\ \A x \in Ends : x # e => rheld'[x] = rheld[x]
    <2>1. <<>> \in Seq(Arrived)
      OBVIOUS
    <2> QED BY <1>1, <1>8, <2>1, OneEnd
  <1>10. \A x \in Ends : Len(rheld'[x]) <= 1
    BY <1>8, <1>9
  <1>11. QueueTypes'
    BY <1>1, <1>7, <1>9, <1>10 DEF QueueTypes
  <1>12. ASSUME NEW w \in Blind
         PROVE  Sending(e, w)' = Sending(e, w) /\ Coming(e, w)' = Coming(e, w)
    <2>1. /\ Weight(q, Own(w)) \in Nat /\ Weight(q, Far(w)) \in Nat
          /\ Own(w)[eheld[e]] \in Nat /\ Far(w)[eheld[e]] \in Nat
          /\ Weight(h, Far(w)) \in Nat
      BY EndWeights
    <2>2. Sending(e, w)' = Sending(e, w)
      BY <1>1, <1>5, <1>7 DEF Sending
    <2>3. /\ Coming(e, w)' = 0 + (Weight(q, Far(w)) + Weight(h, Far(w))) + Far(w)[eheld[e]]
          /\ Coming(e, w) = Weight(h, Far(w)) + Weight(q, Far(w)) + Far(w)[eheld[e]]
      BY <1>1, <1>5, <1>7, <1>9 DEF Coming
    <2> HIDE DEF q, h
    <2> QED BY <2>1, <2>2, <2>3
  <1>13. Moved
    BY <1>1, <1>7, <1>9, <1>12, OtherEnd, MovedWithin
  <1>14. Waiting' = Waiting
    <2>1. CASE e = "client"
      BY <1>6, <1>7, <2>1 DEF Waiting
    <2>2. CASE e # "client"
      BY <1>7, <2>2 DEF Waiting, Ends, Other
    <2> QED BY <2>1, <2>2
  <1> QED BY <1>11, <1>13, <1>14

-----------------------------------------------------------------------------
(* Steps that drop frames.                                                  *)

\* No more frames are on the way, of any weight.
Lowered == \A e \in Ends, w \in Blind : Way(e, w)' \in Nat /\ Way(e, w)' <= Way(e, w)

\* No more at either end is no more on the way.
LEMMA LoweredWithin ==
  ASSUME QueueTypes,
         \A x \in Ends, w \in Blind : /\ Sending(x, w)' \in Nat /\ Sending(x, w)' <= Sending(x, w)
                                      /\ Coming(x, w)' \in Nat /\ Coming(x, w)' <= Coming(x, w)
  PROVE  Lowered
  <1> SUFFICES ASSUME NEW x \in Ends, NEW w \in Blind PROVE Way(x, w)' \in Nat /\ Way(x, w)' <= Way(x, w)
    BY DEF Lowered
  <1>1. Other(x) \in Ends
    BY OtherEnd
  <1>2. /\ Sending(x, w)' \in Nat /\ Sending(x, w)' <= Sending(x, w) /\ Sending(x, w) \in Nat
        /\ Coming(Other(x), w)' \in Nat /\ Coming(Other(x), w)' <= Coming(Other(x), w) /\ Coming(Other(x), w) \in Nat
    BY <1>1, EndWeights
  <1>3. Way(x, w)' = Sending(x, w)' + Coming(Other(x), w)' /\ Way(x, w) = Sending(x, w) + Coming(Other(x), w)
    BY DEF Way
  <1> QED BY <1>2, <1>3

\* The session of e ends, and the other end may have lost what it wrote.
LEMMA BreakDrops ==
  ASSUME QueueTypes, NEW e \in Ends, Break(e), UNCHANGED vbuf,
         net' = net \/ net' = [net EXCEPT ![Other(e)] = <<>>]
  PROVE  QueueTypes' /\ Lowered /\ Waiting' \in Nat /\ Waiting' <= Waiting
  <1>0. Other(e) \in Ends /\ Other(e) # e /\ Other(Other(e)) = e /\ \A x \in Ends : x = e \/ x = Other(e)
    BY OtherEnd
  <1>1. /\ evq' = [evq EXCEPT ![e] = <<>>] /\ sendq' = [sendq EXCEPT ![e] = <<>>]
        /\ epc' = [epc EXCEPT ![e] = "recv"] /\ eheld' = [eheld EXCEPT ![e] = Nothing]
        /\ rheld' = [rheld EXCEPT ![e] = <<>>]
    BY DEF Break
  <1>2. /\ <<>> \in Seq(Proper) /\ <<>> \in Seq(Wire) /\ <<>> \in Seq(Outgoing) /\ <<>> \in Seq(Arrived)
        /\ Len(<<>>) = 0 /\ EvCap \in Nat /\ SendCap \in Nat /\ NetCap \in Nat /\ Nothing \in Event
    BY PairAssumption, EventsMade
  <1>3. /\ evq' \in [Ends -> Seq(Proper)] /\ evq'["server"] \in Seq(Wire)
        /\ \A x \in Ends : Len(evq'[x]) <= EvCap
        /\ evq'[e] = <<>> /\ evq'[Other(e)] = evq[Other(e)]
    <2>1. Len(<<>>) <= EvCap
      BY <1>2
    <2> QED BY <1>1, <1>2, <2>1, EventQueueTypes
  <1>4. /\ epc' \in [Ends -> {"recv", "forward", "offer"}] /\ eheld' \in [Ends -> Event]
        /\ eheld'[e] = Nothing /\ eheld'[Other(e)] = eheld[Other(e)]
        /\ \A x \in Ends :
              /\ epc'[x] = "recv" => eheld'[x] = Nothing
              /\ epc'[x] = "forward" => eheld'[x] \in Outgoing
              /\ epc'[x] = "offer" => eheld'[x] \in Arrived /\ eheld'[x].k = "DATA" /\ eheld'[x].s \in Streams
    <2>1. "recv" \in {"recv", "forward", "offer"} /\ "recv" # "forward" /\ "recv" # "offer"
      OBVIOUS
    <2> QED BY <1>1, <1>2, <2>1, HeldTypes
  <1>5. /\ sendq \in [Ends -> Seq(Outgoing)] /\ rheld \in [Ends -> Seq(Arrived)] /\ net \in [Ends -> Seq(Outgoing)]
        /\ \A x \in Ends : Len(sendq[x]) <= SendCap /\ Len(rheld[x]) <= 1 /\ Len(net[x]) <= NetCap
    BY DEF QueueTypes
  <1>6. /\ sendq' \in [Ends -> Seq(Outgoing)] /\ sendq'[e] = <<>> /\ \A x \in Ends : x # e => sendq'[x] = sendq[x]
    BY <1>1, <1>2, <1>5, OneEnd
  <1>7. /\ rheld' \in [Ends -> Seq(Arrived)] /\ rheld'[e] = <<>> /\ \A x \in Ends : x # e => rheld'[x] = rheld[x]
    BY <1>1, <1>2, <1>5, OneEnd
  <1>8. net' \in [Ends -> Seq(Outgoing)] /\ net'[e] = net[e] /\ net'[Other(e)] \in {net[Other(e)], <<>>}
    <2>1. CASE net' = net
      BY <1>5, <2>1
    <2>2. CASE net' = [net EXCEPT ![Other(e)] = <<>>]
      <3>1. /\ net' \in [Ends -> Seq(Outgoing)] /\ net'[Other(e)] = <<>>
            /\ \A x \in Ends : x # Other(e) => net'[x] = net[x]
        BY <1>0, <1>2, <1>5, <2>2, OneEnd
      <3> QED BY <1>0, <3>1
    <2> QED BY <2>1, <2>2
  <1>9. \A x \in Ends : Len(sendq'[x]) <= SendCap /\ Len(rheld'[x]) <= 1 /\ Len(net'[x]) <= NetCap
    <2>1. Len(<<>>) <= SendCap /\ Len(<<>>) <= 1 /\ Len(<<>>) <= NetCap
      BY <1>2
    <2>2. \A x \in Ends : sendq'[x] \in {sendq[x], <<>>} /\ rheld'[x] \in {rheld[x], <<>>} /\ net'[x] \in {net[x], <<>>}
      BY <1>0, <1>6, <1>7, <1>8
    <2> QED BY <1>5, <2>1, <2>2
  <1>10. QueueTypes'
    BY <1>3, <1>4, <1>6, <1>7, <1>8, <1>9 DEF QueueTypes
  <1>11. ASSUME NEW w \in Blind
         PROVE  /\ Sending(e, w)' \in Nat /\ Sending(e, w)' <= Sending(e, w)
                /\ Coming(e, w)' \in Nat /\ Coming(e, w)' <= Coming(e, w)
                /\ Sending(Other(e), w)' \in Nat /\ Sending(Other(e), w)' <= Sending(Other(e), w)
                /\ Coming(Other(e), w)' \in Nat /\ Coming(Other(e), w)' <= Coming(Other(e), w)
    <2>1. Own(w) \in Weights /\ Far(w) \in Weights /\ Own(w)[Nothing] = 0 /\ Far(w)[Nothing] = 0
      BY Parts
    <2>2. Weight(<<>>, Own(w)) = 0 /\ Weight(<<>>, Far(w)) = 0
      BY <1>2, <2>1, WeightOne
    <2>3. /\ Weight(evq[e], Own(w)) \in Nat /\ Own(w)[eheld[e]] \in Nat /\ Weight(sendq[e], Own(w)) \in Nat
          /\ Weight(vbuf[e], Own(w)) \in Nat /\ Weight(net[e], Own(w)) \in Nat /\ Coming(e, w) \in Nat
      BY EndWeights
    <2>4. /\ Sending(e, w)' = 0 + 0 + 0 + Weight(vbuf[e], Own(w)) + Weight(net[e], Own(w))
          /\ Coming(e, w)' = 0 + 0 + 0
      BY <1>3, <1>4, <1>6, <1>7, <1>8, <2>1, <2>2 DEF Sending, Coming
    <2>5. Sending(e, w) = Weight(evq[e], Own(w)) + Own(w)[eheld[e]] + Weight(sendq[e], Own(w))
                            + Weight(vbuf[e], Own(w)) + Weight(net[e], Own(w))
      BY DEF Sending
    <2>6. /\ Sending(e, w)' \in Nat /\ Sending(e, w)' <= Sending(e, w)
          /\ Coming(e, w)' \in Nat /\ Coming(e, w)' <= Coming(e, w)
      <3>1. PICK a \in Nat, b \in Nat, c \in Nat, d \in Nat, n \in Nat, m \in Nat :
              /\ a = Weight(evq[e], Own(w)) /\ b = Own(w)[eheld[e]] /\ c = Weight(sendq[e], Own(w))
              /\ d = Weight(vbuf[e], Own(w)) /\ n = Weight(net[e], Own(w)) /\ m = Coming(e, w)
        BY <2>3
      <3>2. /\ 0 + 0 + 0 + d + n \in Nat /\ 0 + 0 + 0 + d + n <= a + b + c + d + n
            /\ 0 + 0 + 0 \in Nat /\ 0 + 0 + 0 <= m
        OBVIOUS
      <3>3. Sending(e, w)' = 0 + 0 + 0 + d + n /\ Sending(e, w) = a + b + c + d + n
        BY <2>4, <2>5, <3>1
      <3>4. Coming(e, w)' = 0 + 0 + 0 /\ Coming(e, w) = m
        BY <2>4, <3>1
      <3> QED BY <3>2, <3>3, <3>4
    <2>7. /\ Weight(evq[Other(e)], Own(w)) \in Nat /\ Own(w)[eheld[Other(e)]] \in Nat
          /\ Weight(sendq[Other(e)], Own(w)) \in Nat /\ Weight(vbuf[Other(e)], Own(w)) \in Nat
          /\ Weight(net[Other(e)], Own(w)) \in Nat /\ Coming(Other(e), w) \in Nat
      BY <1>0, EndWeights
    <2>8. Coming(Other(e), w)' = Coming(Other(e), w)
      BY <1>0, <1>3, <1>4, <1>7 DEF Coming
    <2>9. Sending(Other(e), w)' = Weight(evq[Other(e)], Own(w)) + Own(w)[eheld[Other(e)]]
             + Weight(sendq[Other(e)], Own(w)) + Weight(vbuf[Other(e)], Own(w)) + Weight(net'[Other(e)], Own(w))
      BY <1>0, <1>3, <1>4, <1>6 DEF Sending
    <2>10. Sending(Other(e), w) = Weight(evq[Other(e)], Own(w)) + Own(w)[eheld[Other(e)]]
             + Weight(sendq[Other(e)], Own(w)) + Weight(vbuf[Other(e)], Own(w)) + Weight(net[Other(e)], Own(w))
      BY DEF Sending
    <2>11. Weight(net'[Other(e)], Own(w)) \in Nat /\ Weight(net'[Other(e)], Own(w)) <= Weight(net[Other(e)], Own(w))
      <3>1. CASE net'[Other(e)] = net[Other(e)]
        BY <2>7, <3>1
      <3>2. CASE net'[Other(e)] = <<>>
        BY <2>2, <2>7, <3>2
      <3> QED BY <1>8, <3>1, <3>2
    <2>12. Sending(Other(e), w)' \in Nat /\ Sending(Other(e), w)' <= Sending(Other(e), w)
      <3>1. PICK a \in Nat, b \in Nat, c \in Nat, d \in Nat :
              /\ a = Weight(evq[Other(e)], Own(w)) /\ b = Own(w)[eheld[Other(e)]]
              /\ c = Weight(sendq[Other(e)], Own(w)) /\ d = Weight(vbuf[Other(e)], Own(w))
        BY <2>7
      <3>2. PICK m \in Nat, n \in Nat :
              /\ m = Weight(net'[Other(e)], Own(w)) /\ n = Weight(net[Other(e)], Own(w)) /\ m <= n
        BY <2>7, <2>11
      <3>3. a + b + c + d + m \in Nat /\ a + b + c + d + m <= a + b + c + d + n
        BY <3>2
      <3>4. Sending(Other(e), w)' = a + b + c + d + m /\ Sending(Other(e), w) = a + b + c + d + n
        BY <2>9, <2>10, <3>1, <3>2
      <3> QED BY <3>3, <3>4
    <2> QED BY <2>6, <2>7, <2>8, <2>12
  <1>12. Lowered
    BY <1>0, <1>11, LoweredWithin
  <1>13. Waiting' \in Nat /\ Waiting' <= Waiting
    <2>1. CASE e = "client"
      <3>1. Waiting' = 0
        BY <1>2, <1>3, <2>1, TheWeights, WeightOne DEF Waiting
      <3> QED BY <3>1, WaitingType
    <2>2. CASE e # "client"
      <3>1. Waiting' = Waiting
        BY <1>3, <2>2 DEF Waiting, Ends, Other
      <3> QED BY <3>1, WaitingType
    <2> QED BY <2>1, <2>2
  <1> QED BY <1>10, <1>12, <1>13

\* The last write of a session that is closing: what is left is dropped.
LEMMA LastWritten ==
  ASSUME QueueTypes, NEW e \in Ends, vbuf' = [vbuf EXCEPT ![e] = <<>>],
         \/ net' = net
         \/ \E n \in 1 .. Min({Len(vbuf[e]), NetCap - Len(net[e])}) :
               net' = [net EXCEPT ![e] = @ \o SubSeq(vbuf[e], 1, n)],
         UNCHANGED <<evq, epc, eheld, sendq, rheld>>
  PROVE  QueueTypes' /\ Lowered /\ Waiting' = Waiting
  <1>1. vbuf \in [Ends -> Seq(Outgoing)] /\ \A x \in Ends : Len(vbuf[x]) <= VBufMax
    BY DEF QueueTypes
  <1>2. vbuf' \in [Ends -> Seq(Outgoing)] /\ vbuf'[e] = <<>> /\ \A x \in Ends : x # e => vbuf'[x] = vbuf[x]
    <2>1. <<>> \in Seq(Outgoing)
      OBVIOUS
    <2> QED BY <1>1, <2>1, OneEnd
  <1>3. \A x \in Ends : Len(vbuf'[x]) <= VBufMax
    <2>1. Len(<<>>) <= VBufMax
      BY PairAssumption
    <2> QED BY <1>1, <1>2, <2>1
  <1>4. /\ net' \in [Ends -> Seq(Outgoing)] /\ net'[Other(e)] = net[Other(e)]
        /\ \A x \in Ends : Len(net'[x]) <= NetCap
        /\ \A w \in Weights : /\ Weight(net'[e], w) \in Nat
                              /\ Weight(net'[e], w) <= Weight(net[e], w) + Weight(vbuf[e], w)
    <2>0. \A w \in Weights : Weight(net[e], w) \in Nat /\ Weight(vbuf[e], w) \in Nat
      BY EndQueues, WeightType
    <2>1. CASE net' = net
      <3>1. \A w \in Weights : /\ Weight(net'[e], w) \in Nat
                               /\ Weight(net'[e], w) <= Weight(net[e], w) + Weight(vbuf[e], w)
        BY <2>0, <2>1
      <3> QED BY <2>1, <3>1 DEF QueueTypes
    <2>2. CASE \E n \in 1 .. Min({Len(vbuf[e]), NetCap - Len(net[e])}) :
                  net' = [net EXCEPT ![e] = @ \o SubSeq(vbuf[e], 1, n)]
      <3>1. PICK n \in 1 .. Min({Len(vbuf[e]), NetCap - Len(net[e])}) :
                  net' = [net EXCEPT ![e] = @ \o SubSeq(vbuf[e], 1, n)]
        BY <2>2
      <3> DEFINE v == SubSeq(vbuf[e], n + 1, Len(vbuf[e]))
      <3>2. /\ net' \in [Ends -> Seq(Outgoing)] /\ net'[Other(e)] = net[Other(e)]
            /\ \A x \in Ends : Len(net'[x]) <= NetCap
            /\ \A w \in Weights : /\ Weight(net'[e], w) \in Nat /\ Weight(v, w) \in Nat
                                  /\ Weight(net'[e], w) + Weight(v, w) = Weight(net[e], w) + Weight(vbuf[e], w)
        BY <3>1, NetTakes
      <3> HIDE DEF v
      <3>3. ASSUME NEW w \in Weights PROVE Weight(net'[e], w) <= Weight(net[e], w) + Weight(vbuf[e], w)
        <4>1. /\ Weight(net'[e], w) \in Nat /\ Weight(v, w) \in Nat /\ Weight(net[e], w) \in Nat
              /\ Weight(vbuf[e], w) \in Nat
              /\ Weight(net'[e], w) + Weight(v, w) = Weight(net[e], w) + Weight(vbuf[e], w)
          BY <2>0, <3>2
        <4>2. \A a, b, c, d \in Nat : a + b = c + d => a <= c + d
          OBVIOUS
        <4> QED BY <4>1, <4>2
      <3> QED BY <3>2, <3>3
    <2> QED BY <2>1, <2>2
  <1>5. QueueTypes'
    BY <1>2, <1>3, <1>4 DEF QueueTypes
  <1>6. ASSUME NEW w \in Blind
        PROVE  /\ Sending(e, w)' \in Nat /\ Sending(e, w)' <= Sending(e, w)
               /\ Coming(e, w)' = Coming(e, w) /\ Coming(e, w) \in Nat
               /\ Sending(Other(e), w)' = Sending(Other(e), w) /\ Sending(Other(e), w) \in Nat
               /\ Coming(Other(e), w)' = Coming(Other(e), w) /\ Coming(Other(e), w) \in Nat
    <2>1. Own(w) \in Weights
      BY Parts
    <2>2. Weight(<<>>, Own(w)) = 0
      BY <2>1, EventsMade, WeightOne
    <2>3. Weight(net'[e], Own(w)) \in Nat /\ Weight(net'[e], Own(w)) <= Weight(net[e], Own(w)) + Weight(vbuf[e], Own(w))
      BY <1>4, <2>1
    <2>4. /\ Weight(evq[e], Own(w)) \in Nat /\ Own(w)[eheld[e]] \in Nat /\ Weight(sendq[e], Own(w)) \in Nat
          /\ Weight(vbuf[e], Own(w)) \in Nat /\ Weight(net[e], Own(w)) \in Nat
          /\ Coming(e, w) \in Nat /\ Coming(Other(e), w) \in Nat /\ Sending(Other(e), w) \in Nat
      BY EndWeights, OtherEnd
    <2>5. Sending(e, w)' = Weight(evq[e], Own(w)) + Own(w)[eheld[e]] + Weight(sendq[e], Own(w))
                            + 0 + Weight(net'[e], Own(w))
      BY <1>2, <2>2 DEF Sending
    <2>6. Sending(e, w) = Weight(evq[e], Own(w)) + Own(w)[eheld[e]] + Weight(sendq[e], Own(w))
                            + Weight(vbuf[e], Own(w)) + Weight(net[e], Own(w))
      BY DEF Sending
    <2>7. \A a, v, n, m \in Nat : m <= n + v => a + 0 + m \in Nat /\ a + 0 + m <= a + v + n
      OBVIOUS
    <2>8. Sending(e, w)' \in Nat /\ Sending(e, w)' <= Sending(e, w)
      <3>1. PICK m \in Nat : m = Weight(net'[e], Own(w))
        BY <2>3
      <3>2. m <= Weight(net[e], Own(w)) + Weight(vbuf[e], Own(w))
        BY <2>3, <3>1
      <3>3. PICK a \in Nat : a = Weight(evq[e], Own(w)) + Own(w)[eheld[e]] + Weight(sendq[e], Own(w))
        BY <2>4
      <3>4. Sending(e, w)' = a + 0 + m
        BY <2>5, <3>1, <3>3
      <3>5. Sending(e, w) = a + Weight(vbuf[e], Own(w)) + Weight(net[e], Own(w))
        BY <2>6, <3>3
      <3>6. a + 0 + m \in Nat /\ a + 0 + m <= a + Weight(vbuf[e], Own(w)) + Weight(net[e], Own(w))
        BY <2>4, <2>7, <3>2
      <3> QED BY <3>4, <3>5, <3>6
    <2>9. Coming(e, w)' = Coming(e, w) /\ Coming(Other(e), w)' = Coming(Other(e), w)
      BY DEF Coming
    <2>10. Sending(Other(e), w)' = Sending(Other(e), w)
      BY <1>2, <1>4, OtherEnd DEF Sending
    <2> QED BY <2>4, <2>8, <2>9, <2>10
  <1>7. \A x \in Ends, w \in Blind : /\ Sending(x, w)' \in Nat /\ Sending(x, w)' <= Sending(x, w)
                                     /\ Coming(x, w)' \in Nat /\ Coming(x, w)' <= Coming(x, w)
    BY <1>6, OtherEnd
  <1>8. Lowered
    BY <1>7, LoweredWithin
  <1>9. Waiting' = Waiting
    BY DEF Waiting
  <1> QED BY <1>5, <1>8, <1>9

-----------------------------------------------------------------------------
(* What a step does to the parts of the invariant that count.               *)

\* The entries of the tables, and what is on the way for a stream.
LEMMA Entries ==
  ASSUME TableTypes, QueueTypes, NEW e \in Ends, NEW s \in Streams
  PROVE  /\ credit[e][s] \in Int /\ owed[e][s] \in Nat /\ unreported[e][s] \in Nat
         /\ dq[e][s] \in Nat /\ dq[e][s] <= DataCap /\ Unread(e, s) \in Nat
         /\ Window \in Nat /\ Other(e) \in Ends
         /\ Way(e, Wins(s)) \in Nat /\ Way(e, Data(s)) \in Nat /\ Way(e, Fins(s)) \in Nat
         /\ Made(e, s) \in Nat
  <1>1. /\ credit[e][s] \in Int /\ owed[e][s] \in Nat /\ unreported[e][s] \in Nat
        /\ dq[e][s] \in 0 .. DataCap /\ scope \in Scopes
    BY DEF TableTypes
  <1>2. DataCap \in Nat /\ Window \in Nat
    BY <1>1, PairAssumption DEF Window
  <1>3. dq[e][s] \in Nat /\ dq[e][s] <= DataCap /\ Unread(e, s) \in Nat
    BY <1>1, <1>2 DEF Unread
  <1>4. Way(e, Wins(s)) \in Nat /\ Way(e, Data(s)) \in Nat /\ Way(e, Fins(s)) \in Nat
    BY TheWeights, WayType
  <1>5. Made(e, s) \in Nat
    BY DEF Made
  <1> QED BY <1>1, <1>2, <1>3, <1>4, <1>5, OtherEnd

\* A window of which no more is spent.
LEMMA WindowStays ==
  ASSUME TableTypes, QueueTypes, NEW e \in Ends, NEW s \in Streams, WindowKept(e, s),
         credit'[e][s] = credit[e][s], owed'[e][s] = owed[e][s], scope' = scope,
         Unread(Other(e), s)' \in Nat, Unread(Other(e), s)' <= Unread(Other(e), s),
         unreported'[Other(e)][s] \in Nat, unreported'[Other(e)][s] <= unreported[Other(e)][s],
         Way(Other(e), Wins(s))' \in Nat, Way(Other(e), Wins(s))' <= Way(Other(e), Wins(s))
  PROVE  WindowKept(e, s)'
  <1>1. /\ credit[e][s] \in Int /\ owed[e][s] \in Nat /\ unreported[Other(e)][s] \in Nat
        /\ Unread(Other(e), s) \in Nat /\ Way(Other(e), Wins(s)) \in Nat /\ Window \in Nat
    BY Entries, OtherEnd
  <1>2. Spent(e, s)' = credit[e][s] + owed[e][s] + Unread(Other(e), s)' + unreported'[Other(e)][s] + Way(Other(e), Wins(s))'
    BY DEF Spent
  <1>3. Spent(e, s) = credit[e][s] + owed[e][s] + Unread(Other(e), s) + unreported[Other(e)][s] + Way(Other(e), Wins(s))
    BY DEF Spent
  <1>4. Spent(e, s)' <= Spent(e, s) /\ Spent(e, s) \in Int /\ Spent(e, s)' \in Int
    BY <1>1, <1>2, <1>3
  <1>5. Window' = Window /\ Writers' = Writers
    BY DEF Window, Writers
  <1>6. credit[e][s] >= -1 /\ Spent(e, s) <= Window /\ (e \notin Writers => credit[e][s] >= Window)
    BY DEF WindowKept
  <1>7. Spent(e, s)' <= Window
    BY <1>1, <1>4, <1>6
  <1> QED BY <1>5, <1>6, <1>7 DEF WindowKept

\* Nothing is written, offered or lost.
LEMMA OwedStays ==
  ASSUME TableTypes, QueueTypes, NEW e \in Ends, NEW s \in Streams, OwedKept(e, s), owed'[e][s] = owed[e][s],
         Way(e, Data(s))' \in Nat, Way(e, Data(s))' <= Way(e, Data(s)),
         relay'[Other(e)][s] = "open" /\ ~retired' =>
            relay[Other(e)][s] = "open" /\ ~retired /\ Way(e, Data(s))' = Way(e, Data(s))
  PROVE  OwedKept(e, s)'
  <1>1. Way(e, Data(s)) \in Nat /\ owed[e][s] \in Nat
    BY Entries
  <1>2. Way(e, Data(s))' <= owed'[e][s]
    BY <1>1 DEF OwedKept
  <1> QED BY <1>2 DEF OwedKept

\* No FIN is made.
LEMMA FinsStay ==
  ASSUME TableTypes, QueueTypes, NEW e \in Ends, NEW s \in Streams, FinsKept(e, s), scope' = scope,
         Way(e, Fins(s))' \in Nat, Way(e, Fins(s))' <= Way(e, Fins(s)),
         relay'[e][s] = relay[e][s], streams'[e] = streams[e], Running' => Running
  PROVE  FinsKept(e, s)'
  <1>1. Way(e, Fins(s)) \in Nat /\ Made(e, s) \in Nat
    BY Entries
  <1>2. Made(e, s)' = Made(e, s) /\ Closing' = Closing
    BY DEF Made, Closing
  <1>3. Way(e, Fins(s))' <= Made(e, s)'
    BY <1>1, <1>2 DEF FinsKept
  <1> QED BY <1>2, <1>3 DEF FinsKept

\* No more of what the routine makes is on the way.
LEMMA PingsStay ==
  ASSUME TableTypes, QueueTypes, PingsKept, due' = due, pings' = pings,
         Waiting' \in Nat, Waiting' <= Waiting,
         Way("client", Pings)' \in Nat, Way("server", Pings)' \in Nat,
         Way("client", Pings)' + Way("server", Pings)' <= Way("client", Pings) + Way("server", Pings)
  PROVE  PingsKept'
  <1>1. /\ Way("client", Pings) \in Nat /\ Way("server", Pings) \in Nat /\ Waiting \in Nat
        /\ pings \in Nat
    <2>1. scope \in Scopes /\ pings \in 0 .. scope.pings
      BY DEF TableTypes
    <2>2. scope.pings \in Nat
      BY <2>1, PairAssumption
    <2>3. "client" \in Ends /\ "server" \in Ends
      BY DEF Ends
    <2> QED BY <2>1, <2>2, <2>3, TheWeights, WayType, WaitingType
  <1>2. PICK a \in Nat : a = IF due = <<"PING", "ROUTINE">> THEN 1 ELSE 0
    OBVIOUS
  <1>3. PICK b \in Nat : b = IF due = <<>> THEN 0 ELSE 1
    OBVIOUS
  <1>4. Way("client", Pings) + Way("server", Pings) + a <= pings /\ Waiting + b <= pings
    BY <1>2, <1>3 DEF PingsKept
  <1>5. Way("client", Pings)' + Way("server", Pings)' + a <= pings /\ Waiting' + b <= pings
    <2>1. \A m, n, c, p \in Nat : m <= n /\ n + c <= p => m + c <= p
      OBVIOUS
    <2>2. /\ Way("client", Pings)' + Way("server", Pings)' \in Nat
          /\ Way("client", Pings) + Way("server", Pings) \in Nat
      BY <1>1
    <2> QED BY <1>1, <1>4, <2>1, <2>2
  <1>6. /\ a = IF due' = <<"PING", "ROUTINE">> THEN 1 ELSE 0
        /\ b = IF due' = <<>> THEN 0 ELSE 1
    BY <1>2, <1>3
  <1> QED BY <1>5, <1>6 DEF PingsKept

-----------------------------------------------------------------------------
(* Steps of the queues only.                                                *)

\* The tables stay; a session that ends does so when the client's was retired.
LEMMA Quiet ==
  ASSUME PairInv, QueueTypes', Waiting' \in Nat, Waiting' <= Waiting,
         UNCHANGED <<tables, counts, finLost>>, life' \in [Ends -> {"run", "closing", "over"}],
         Running' => Running, retired \/ Running',
         \A e \in Ends, s \in Streams :
            /\ Way(e, Wins(s))' \in Nat /\ Way(e, Wins(s))' <= Way(e, Wins(s))
            /\ Way(e, Fins(s))' \in Nat /\ Way(e, Fins(s))' <= Way(e, Fins(s))
            /\ Way(e, Data(s))' \in Nat /\ Way(e, Data(s))' <= Way(e, Data(s))
            /\ relay[Other(e)][s] = "open" /\ ~retired => Way(e, Data(s))' = Way(e, Data(s)),
         Way("client", Pings)' \in Nat, Way("server", Pings)' \in Nat,
         Way("client", Pings)' + Way("server", Pings)' <= Way("client", Pings) + Way("server", Pings)
  PROVE  PairInv'
  <1>1. /\ TableTypes /\ QueueTypes /\ LifeKept /\ PingsKept
        /\ \A e \in Ends, s \in Streams : WindowKept(e, s) /\ OwedKept(e, s) /\ FinsKept(e, s)
    BY DEF PairInv
  <1>2. /\ streams' = streams /\ relay' = relay /\ dq' = dq /\ credit' = credit /\ unreported' = unreported
        /\ scope' = scope /\ retired' = retired /\ pings' = pings /\ due' = due /\ owed' = owed /\ finLost' = finLost
    BY DEF tables, counts
  <1>3. TableTypes'
    BY <1>1, <1>2 DEF TableTypes
  <1>4. LifeKept'
    BY <1>1, <1>2 DEF LifeKept
  <1>5. PingsKept'
    BY <1>1, <1>2, PingsStay
  <1>6. ASSUME NEW e \in Ends, NEW s \in Streams
        PROVE  WindowKept(e, s)' /\ OwedKept(e, s)' /\ FinsKept(e, s)'
    <2>1. Other(e) \in Ends /\ Unread(Other(e), s)' = Unread(Other(e), s)
      BY <1>2, OtherEnd DEF Unread
    <2>2. /\ Unread(Other(e), s) \in Nat /\ unreported[Other(e)][s] \in Nat
      BY <1>1, <2>1, Entries
    <2>3. WindowKept(e, s)'
      BY <1>1, <1>2, <2>1, <2>2, WindowStays
    <2>4. OwedKept(e, s)'
      BY <1>1, <1>2, OwedStays
    <2>5. FinsKept(e, s)'
      BY <1>1, <1>2, FinsStay
    <2> QED BY <2>3, <2>4, <2>5
  <1> QED BY <1>3, <1>4, <1>5, <1>6 DEF PairInv

\* Frames move on.
LEMMA QuietMove ==
  ASSUME PairInv, QueueTypes', Moved, Waiting' \in Nat, Waiting' <= Waiting, UNCHANGED <<tables, life, counts, finLost>>
  PROVE  PairInv'
  <1>1. QueueTypes /\ TableTypes /\ LifeKept
    BY DEF PairInv
  <1>2. \A e \in Ends, w \in Blind : Way(e, w)' = Way(e, w) /\ Way(e, w) \in Nat
    BY <1>1, WayType DEF Moved
  <1>3. \A e \in Ends, s \in Streams :
            /\ Way(e, Wins(s))' \in Nat /\ Way(e, Wins(s))' <= Way(e, Wins(s))
            /\ Way(e, Fins(s))' \in Nat /\ Way(e, Fins(s))' <= Way(e, Fins(s))
            /\ Way(e, Data(s))' \in Nat /\ Way(e, Data(s))' <= Way(e, Data(s))
            /\ Way(e, Data(s))' = Way(e, Data(s))
    BY <1>2, TheWeights
  <1>4. /\ Way("client", Pings)' \in Nat /\ Way("server", Pings)' \in Nat
        /\ Way("client", Pings)' + Way("server", Pings)' <= Way("client", Pings) + Way("server", Pings)
    <2>1. "client" \in Ends /\ "server" \in Ends /\ Pings \in Blind
      BY TheWeights DEF Ends
    <2> QED BY <1>2, <2>1
  <1>5. life' \in [Ends -> {"run", "closing", "over"}] /\ (Running' => Running) /\ (retired \/ Running')
    BY <1>1 DEF TableTypes, LifeKept, Running
  <1> QED BY <1>3, <1>4, <1>5, Quiet

\* Frames are dropped with a session of which the client's was retired.
LEMMA QuietDrop ==
  ASSUME PairInv, QueueTypes', Lowered, Waiting' \in Nat, Waiting' <= Waiting, UNCHANGED <<tables, counts, finLost>>,
         life' \in [Ends -> {"run", "closing", "over"}], Running' => Running, retired
  PROVE  PairInv'
  <1>1. \A e \in Ends, w \in Blind : Way(e, w)' \in Nat /\ Way(e, w)' <= Way(e, w)
    BY DEF Lowered
  <1>2. \A e \in Ends, s \in Streams :
            /\ Way(e, Wins(s))' \in Nat /\ Way(e, Wins(s))' <= Way(e, Wins(s))
            /\ Way(e, Fins(s))' \in Nat /\ Way(e, Fins(s))' <= Way(e, Fins(s))
            /\ Way(e, Data(s))' \in Nat /\ Way(e, Data(s))' <= Way(e, Data(s))
    BY <1>1, TheWeights
  <1>3. "client" \in Ends /\ "server" \in Ends /\ Pings \in Blind /\ QueueTypes
    BY TheWeights DEF Ends, PairInv
  <1>4. /\ Way("client", Pings)' \in Nat /\ Way("server", Pings)' \in Nat
        /\ Way("client", Pings)' <= Way("client", Pings) /\ Way("server", Pings)' <= Way("server", Pings)
        /\ Way("client", Pings) \in Nat /\ Way("server", Pings) \in Nat
    BY <1>1, <1>3, WayType
  <1>5. Way("client", Pings)' + Way("server", Pings)' <= Way("client", Pings) + Way("server", Pings)
    BY <1>4
  <1> QED BY <1>2, <1>4, <1>5, Quiet

\* The steps of handle_send, handle_recv and of the queue of handle_event that move frames.
LEMMA MovesKeep ==
  ASSUME PairInv, NEW e \in Ends, EvForwarded(e) \/ SendRecv(e) \/ RecvFrame(e) \/ RecvPush(e) \/ (SendWritten(e) /\ life[e] = "run")
  PROVE  PairInv'
  <1>1. QueueTypes /\ Waiting \in Nat
    BY WaitingType DEF PairInv
  <1>2. QueueTypes' /\ Moved /\ Waiting' = Waiting
    BY <1>1, Forwarded, SendReceived, Received, Queued, Written
  <1>3. UNCHANGED <<tables, life, counts, finLost>>
    BY DEF EvForwarded, SendRecv, RecvFrame, RecvPush, SendWritten
  <1>4. Waiting' \in Nat /\ Waiting' <= Waiting
    BY <1>1, <1>2
  <1> QED BY <1>2, <1>3, <1>4, QuietMove

\* The last write of a session that is closing.
LEMMA LastKeeps ==
  ASSUME PairInv, NEW e \in Ends, life[e] # "run", SendWritten(e) \/ SendFails(e)
  PROVE  PairInv'
  <1>1. QueueTypes /\ Waiting \in Nat /\ life \in [Ends -> {"run", "closing", "over"}] /\ LifeKept
    BY WaitingType DEF PairInv, TableTypes
  <1>2. /\ vbuf' = [vbuf EXCEPT ![e] = <<>>] /\ life' = [life EXCEPT ![e] = "over"]
        /\ \/ net' = net
           \/ \E n \in 1 .. Min({Len(vbuf[e]), NetCap - Len(net[e])}) :
                 net' = [net EXCEPT ![e] = @ \o SubSeq(vbuf[e], 1, n)]
        /\ UNCHANGED <<evq, epc, eheld, sendq, rheld>> /\ UNCHANGED <<tables, counts, finLost>>
    <2>1. CASE SendWritten(e)
      BY <2>1 DEF SendWritten
    <2>2. CASE SendFails(e)
      BY <2>2 DEF SendFails, tables
    <2> QED BY <2>1, <2>2
  <1>3. QueueTypes' /\ Lowered /\ Waiting' = Waiting
    BY <1>1, <1>2, LastWritten
  <1>4. life' \in [Ends -> {"run", "closing", "over"}] /\ ~Running' /\ ~Running
    BY <1>1, <1>2 DEF Running
  <1>5. retired
    BY <1>1, <1>4 DEF LifeKept
  <1> QED BY <1>1, <1>2, <1>3, <1>4, <1>5, QuietDrop

-----------------------------------------------------------------------------
(* handle_event takes an event.                                             *)

\* The event that is taken, and handle_event before.
LEMMA TakenEvent ==
  ASSUME QueueTypes, NEW e \in Ends, NEW k, NEW b \in BOOLEAN, Taken(e, k, b)
  PROVE  /\ evq[e] # <<>> /\ life[e] = "run" /\ epc[e] = "recv" /\ eheld[e] = Nothing
         /\ Head(evq[e]) \in Event /\ Head(evq[e]) \in Proper /\ Head(evq[e]).k = k /\ Head(evq[e]).remote = b
         /\ k # "ROUTINE" /\ ~b => Head(evq[e]) \in Outgoing
         /\ k # "ROUTINE" /\ b => Head(evq[e]) \in Arrived
         /\ epc = [epc EXCEPT ![e] = "recv"] /\ eheld = [eheld EXCEPT ![e] = Nothing]
  <1>1. evq[e] # <<>> /\ life[e] = "run" /\ epc[e] = "recv" /\ Head(evq[e]).k = k /\ Head(evq[e]).remote = b
    BY DEF Taken
  <1>2. Head(evq[e]) \in Event /\ Head(evq[e]) \in Proper
    BY <1>1, Taking
  <1>3. eheld[e] = Nothing
    BY <1>1, EndQueues
  <1>4. epc = [epc EXCEPT ![e] = "recv"] /\ eheld = [eheld EXCEPT ![e] = Nothing]
    BY <1>1, <1>3 DEF QueueTypes
  <1>5. /\ k # "ROUTINE" /\ ~b => Head(evq[e]) \in Outgoing
        /\ k # "ROUTINE" /\ b => Head(evq[e]) \in Arrived
    BY <1>1, <1>2 DEF Outgoing, Arrived, Wire
  <1> QED BY <1>1, <1>2, <1>3, <1>4, <1>5

\* The event is not held.
LEMMA TookOff ==
  ASSUME QueueTypes, NEW e \in Ends, NEW k, NEW b \in BOOLEAN, Taken(e, k, b), evq' = Rest(e),
         UNCHANGED <<epc, eheld, sendq, vbuf, net, rheld>>
  PROVE  /\ QueueTypes' /\ Waiting' \in Nat /\ Waiting' <= Waiting
         /\ \A w \in Blind :
              LET d == w[Head(evq[e])] IN
              /\ Way(e, w)' \in Nat /\ Way(Other(e), w)' \in Nat /\ d \in Nat
              /\ Way(e, w)' + (IF b THEN 0 ELSE d) = Way(e, w)
              /\ Way(Other(e), w)' + (IF b THEN d ELSE 0) = Way(Other(e), w)
  <1>1. /\ evq[e] # <<>> /\ eheld[e] = Nothing /\ Head(evq[e]) \in Event /\ Head(evq[e]).remote = b
        /\ epc' = [epc EXCEPT ![e] = "recv"] /\ eheld' = [eheld EXCEPT ![e] = Nothing]
    BY TakenEvent
  <1>2. Nothing \in Event /\ "recv" \in {"recv", "forward", "offer"} /\ "recv" # "forward" /\ "recv" # "offer"
    BY EventsMade
  <1>3. QueueTypes' /\ Waiting' \in Nat /\ Waiting' <= Waiting
    BY <1>1, <1>2, TookTypes
  <1>4. \A w \in Blind :
            /\ Way(e, w)' + Own(w)[Head(evq[e])] = Way(e, w) + Own(w)[Nothing]
            /\ Way(Other(e), w)' + Far(w)[Head(evq[e])] = Way(Other(e), w) + Far(w)[Nothing]
            /\ Way(e, w)' \in Nat /\ Way(Other(e), w)' \in Nat
    BY <1>1, <1>2, Took
  <1>5. ASSUME NEW w \in Blind
        PROVE LET d == w[Head(evq[e])] IN
              /\ Way(e, w)' \in Nat /\ Way(Other(e), w)' \in Nat /\ d \in Nat
              /\ Way(e, w)' + (IF b THEN 0 ELSE d) = Way(e, w)
              /\ Way(Other(e), w)' + (IF b THEN d ELSE 0) = Way(Other(e), w)
    <2> DEFINE d == w[Head(evq[e])]
    <2>1. /\ Own(w)[Nothing] = 0 /\ Far(w)[Nothing] = 0 /\ d \in Nat
          /\ Own(w)[Head(evq[e])] = (IF b THEN 0 ELSE d) /\ Far(w)[Head(evq[e])] = (IF b THEN d ELSE 0)
      BY <1>1, Parts
    <2>2. Way(e, w) \in Nat /\ Way(Other(e), w) \in Nat
      BY WayType, OtherEnd
    <2>3. /\ Way(e, w)' + (IF b THEN 0 ELSE d) = Way(e, w) + 0
          /\ Way(Other(e), w)' + (IF b THEN d ELSE 0) = Way(Other(e), w) + 0
          /\ Way(e, w)' \in Nat /\ Way(Other(e), w)' \in Nat
      BY <1>4, <2>1
    <2> HIDE DEF d
    <2>4. /\ Way(e, w)' + (IF b THEN 0 ELSE d) = Way(e, w)
          /\ Way(Other(e), w)' + (IF b THEN d ELSE 0) = Way(Other(e), w)
      BY <2>2, <2>3
    <2> QED BY <2>1, <2>3, <2>4 DEF d
  <1> QED BY <1>3, <1>5

\* The weights of an event that is taken are what is less on the way.
LEMMA TookOffShares ==
  ASSUME QueueTypes, NEW e \in Ends, NEW ev \in Event, NEW b \in BOOLEAN,
         \A w \in Blind :
              /\ Way(e, w)' \in Nat /\ Way(Other(e), w)' \in Nat /\ w[ev] \in Nat
              /\ Way(e, w)' + (IF b THEN 0 ELSE w[ev]) = Way(e, w)
              /\ Way(Other(e), w)' + (IF b THEN w[ev] ELSE 0) = Way(Other(e), w)
  PROVE  /\ \A x \in Ends, w \in Blind : /\ Way(x, w)' \in Nat /\ Way(x, w)' <= Way(x, w)
                                         /\ (w[ev] = 0 => Way(x, w)' = Way(x, w))
                                         /\ (b /\ x = e => Way(x, w)' = Way(x, w))
         /\ Way("client", Pings)' \in Nat /\ Way("server", Pings)' \in Nat
         /\ Way("client", Pings)' + Way("server", Pings)' <= Way("client", Pings) + Way("server", Pings)
  <1>1. ASSUME NEW x \in Ends, NEW w \in Blind
        PROVE  /\ Way(x, w)' \in Nat /\ Way(x, w)' <= Way(x, w) /\ Way(x, w) \in Nat
               /\ (w[ev] = 0 => Way(x, w)' = Way(x, w))
               /\ (b /\ x = e => Way(x, w)' = Way(x, w))
    <2>1. x = e \/ x = Other(e)
      BY OtherEnd
    <2>2. Way(x, w) \in Nat
      BY WayType
    <2>3. CASE x = e
      BY <2>2, <2>3
    <2>4. CASE x = Other(e)
      BY <2>2, <2>4, OtherEnd
    <2> QED BY <2>1, <2>3, <2>4
  <1>2. "client" \in Ends /\ "server" \in Ends /\ Pings \in Blind
    BY TheWeights DEF Ends
  <1>3. /\ Way("client", Pings)' \in Nat /\ Way("server", Pings)' \in Nat
        /\ Way("client", Pings) \in Nat /\ Way("server", Pings) \in Nat
        /\ Way("client", Pings)' <= Way("client", Pings) /\ Way("server", Pings)' <= Way("server", Pings)
    BY <1>1, <1>2
  <1>4. Way("client", Pings)' + Way("server", Pings)' <= Way("client", Pings) + Way("server", Pings)
    BY <1>3
  <1> QED BY <1>1, <1>3, <1>4

\* An event without effect: a PONG, a ROUTINE, DATA for a stream that is not in the map.
LEMMA DropKeeps ==
  ASSUME PairInv, NEW e \in Ends, NEW k, NEW b \in BOOLEAN, Taken(e, k, b), evq' = Rest(e),
         k # "DATA" \/ (b /\ Head(evq[e]).s \notin streams[e]),
         UNCHANGED <<epc, eheld, sendq, vbuf, net, rheld, tables, life, counts, finLost>>
  PROVE  PairInv'
  <1> DEFINE ev == Head(evq[e])
  <1>1. QueueTypes /\ TableTypes /\ LifeKept /\ \A s \in Streams : FinsKept(e, s)
    BY DEF PairInv
  <1>2. ev \in Event /\ ev.k = k
    BY <1>1, TakenEvent
  <1>3. /\ QueueTypes' /\ Waiting' \in Nat /\ Waiting' <= Waiting
        /\ \A w \in Blind :
              /\ Way(e, w)' \in Nat /\ Way(Other(e), w)' \in Nat /\ w[ev] \in Nat
              /\ Way(e, w)' + (IF b THEN 0 ELSE w[ev]) = Way(e, w)
              /\ Way(Other(e), w)' + (IF b THEN w[ev] ELSE 0) = Way(Other(e), w)
    BY <1>1, TookOff
  <1> HIDE DEF ev
  <1>4. /\ \A x \in Ends, w \in Blind : /\ Way(x, w)' \in Nat /\ Way(x, w)' <= Way(x, w)
                                        /\ (w[ev] = 0 => Way(x, w)' = Way(x, w))
                                        /\ (b /\ x = e => Way(x, w)' = Way(x, w))
        /\ Way("client", Pings)' \in Nat /\ Way("server", Pings)' \in Nat
        /\ Way("client", Pings)' + Way("server", Pings)' <= Way("client", Pings) + Way("server", Pings)
    BY <1>1, <1>2, <1>3, TookOffShares
  <1>5. ASSUME NEW x \in Ends, NEW s \in Streams, relay[Other(x)][s] = "open"
        PROVE  Way(x, Data(s))' = Way(x, Data(s))
    <2>1. Data(s) \in Blind /\ Data(s)[ev] = IF ev.k = "DATA" /\ ev.s = s THEN 1 ELSE 0
      BY <1>2, TheWeights, EventWeights
    <2>2. CASE Data(s)[ev] = 0
      BY <1>4, <2>1, <2>2
    <2>3. CASE Data(s)[ev] # 0
      <3>1. b /\ s \notin streams[e]
        BY <1>2, <2>1, <2>3 DEF ev
      <3>2. relay[e][s] # "open"
        BY <1>1, <3>1 DEF FinsKept
      <3>3. x = e
        BY <1>5, <3>2, OtherEnd
      <3> QED BY <1>4, <2>1, <3>1, <3>3
    <2> QED BY <2>2, <2>3
  <1>6. \A x \in Ends, s \in Streams :
            /\ Way(x, Wins(s))' \in Nat /\ Way(x, Wins(s))' <= Way(x, Wins(s))
            /\ Way(x, Fins(s))' \in Nat /\ Way(x, Fins(s))' <= Way(x, Fins(s))
            /\ Way(x, Data(s))' \in Nat /\ Way(x, Data(s))' <= Way(x, Data(s))
            /\ relay[Other(x)][s] = "open" /\ ~retired => Way(x, Data(s))' = Way(x, Data(s))
    BY <1>4, <1>5, TheWeights
  <1>7. life' \in [Ends -> {"run", "closing", "over"}] /\ (Running' => Running) /\ (retired \/ Running')
    BY <1>1 DEF TableTypes, LifeKept, Running
  <1>8. UNCHANGED <<tables, counts, finLost>>
    OBVIOUS
  <1> QED BY <1>3, <1>4, <1>6, <1>7, <1>8, Quiet

\* The event is held, to be sent on or offered.
LEMMA HoldKeeps ==
  ASSUME PairInv, NEW e \in Ends, NEW k, NEW b \in BOOLEAN, Taken(e, k, b), evq' = Rest(e),
         NEW p \in {"forward", "offer"}, p = "forward" => k # "ROUTINE" /\ ~b,
         p = "offer" => k = "DATA" /\ b /\ Head(evq[e]).s \in streams[e],
         epc' = [epc EXCEPT ![e] = p], eheld' = [eheld EXCEPT ![e] = Head(evq[e])],
         UNCHANGED <<sendq, vbuf, net, rheld, tables, life, counts, finLost>>
  PROVE  PairInv'
  <1> DEFINE h == Head(evq[e])
  <1>1. QueueTypes /\ TableTypes
    BY DEF PairInv
  <1>2. /\ evq[e] # <<>> /\ eheld[e] = Nothing /\ h \in Event /\ h.k = k
        /\ k # "ROUTINE" /\ ~b => h \in Outgoing
        /\ k # "ROUTINE" /\ b => h \in Arrived
    BY <1>1, TakenEvent
  <1>3. streams[e] \subseteq Streams
    BY <1>1 DEF TableTypes
  <1>4. /\ p \in {"recv", "forward", "offer"} /\ p # "recv" /\ (p = "forward" => h \in Outgoing)
        /\ (p = "offer" => h \in Arrived /\ h.k = "DATA" /\ h.s \in Streams)
    BY <1>2, <1>3
  <1>5. /\ QueueTypes' /\ Waiting' \in Nat /\ Waiting' <= Waiting
    BY <1>1, <1>2, <1>4, TookTypes
  <1>6. \A w \in Blind :
            /\ Way(e, w)' + Own(w)[h] = Way(e, w) + Own(w)[h]
            /\ Way(Other(e), w)' + Far(w)[h] = Way(Other(e), w) + Far(w)[h]
            /\ Way(e, w)' \in Nat /\ Way(Other(e), w)' \in Nat
    BY <1>1, <1>2, Took
  <1> HIDE DEF h
  <1>7. ASSUME NEW w \in Blind PROVE Way(e, w)' = Way(e, w) /\ Way(Other(e), w)' = Way(Other(e), w)
    <2>1. /\ Way(e, w)' + Own(w)[h] = Way(e, w) + Own(w)[h]
          /\ Way(Other(e), w)' + Far(w)[h] = Way(Other(e), w) + Far(w)[h]
          /\ Way(e, w)' \in Nat /\ Way(Other(e), w)' \in Nat
      BY <1>6
    <2>2. Way(e, w) \in Nat /\ Way(Other(e), w) \in Nat
      BY <1>1, WayType, OtherEnd
    <2>3. Own(w)[h] \in Nat /\ Far(w)[h] \in Nat
      BY <1>2, Parts DEF Weights
    <2> QED BY <2>1, <2>2, <2>3
  <1>8. Moved
    BY <1>7, OtherEnd DEF Moved
  <1> QED BY <1>5, <1>8, QuietMove

\* handle_event takes an event of this end to send it on.
LEMMA SendKeeps ==
  ASSUME PairInv, NEW e \in Ends, EvSend(e)
  PROVE  PairInv'
  <1>1. PICK k \in {"DATA", "WIN", "PING"} : Taken(e, k, FALSE)
    BY DEF EvSend
  <1>2. /\ evq' = Rest(e) /\ epc' = [epc EXCEPT ![e] = "forward"] /\ eheld' = [eheld EXCEPT ![e] = Head(evq[e])]
        /\ UNCHANGED <<sendq, vbuf, net, rheld, tables, life, counts, finLost>>
    BY DEF EvSend, Forward
  <1>3. "forward" \in {"forward", "offer"} /\ k # "ROUTINE" /\ "forward" # "offer" /\ FALSE \in BOOLEAN
    OBVIOUS
  <1> QED BY <1>1, <1>2, <1>3, HoldKeeps

\* handle_event takes DATA of the other end: held for its stream, or dropped
\* when the stream has left the map, and then its relay is not open.
LEMMA DataKeeps ==
  ASSUME PairInv, NEW e \in Ends, EvData(e)
  PROVE  PairInv'
  <1>1. /\ Taken(e, "DATA", TRUE) /\ evq' = Rest(e)
        /\ UNCHANGED <<sendq, vbuf, net, rheld, tables, life, counts, finLost>>
    BY DEF EvData
  <1>2. CASE Head(evq[e]).s \in streams[e]
    <2>1. epc' = [epc EXCEPT ![e] = "offer"] /\ eheld' = [eheld EXCEPT ![e] = Head(evq[e])]
      BY <1>2 DEF EvData
    <2>2. "offer" \in {"forward", "offer"} /\ "forward" # "offer" /\ TRUE \in BOOLEAN
      OBVIOUS
    <2> QED BY <1>1, <1>2, <2>1, <2>2, HoldKeeps
  <1>3. CASE Head(evq[e]).s \notin streams[e]
    <2>1. UNCHANGED <<epc, eheld>>
      BY <1>3 DEF EvData
    <2>2. TRUE \in BOOLEAN
      OBVIOUS
    <2> QED BY <1>1, <1>3, <2>1, <2>2, DropKeeps
  <1> QED BY <1>2, <1>3

\* handle_event takes a PONG of the other end.
LEMMA PongKeeps ==
  ASSUME PairInv, NEW e \in Ends, EvPong(e)
  PROVE  PairInv'
  <1>1. /\ Taken(e, "PONG", TRUE) /\ evq' = Rest(e) /\ TRUE \in BOOLEAN /\ "PONG" # "DATA"
        /\ UNCHANGED <<epc, eheld, sendq, vbuf, net, rheld, tables, life, counts, finLost>>
    BY DEF EvPong
  <1> QED BY <1>1, DropKeeps

\* A PING is answered.
LEMMA PingKeeps ==
  ASSUME PairInv, NEW e \in Ends, EvPing(e)
  PROVE  PairInv'
  <1> DEFINE f == Head(evq[e])
             h == Local("PONG", 0)
  <1>0. /\ Taken(e, "PING", TRUE) /\ evq' = Rest(e) /\ TRUE \in BOOLEAN
        /\ epc' = [epc EXCEPT ![e] = "forward"] /\ eheld' = [eheld EXCEPT ![e] = h]
        /\ UNCHANGED <<sendq, vbuf, net, rheld>> /\ UNCHANGED <<tables, life, counts, finLost>>
    BY DEF EvPing, Forward
  <1>1. QueueTypes /\ TableTypes /\ LifeKept
    BY DEF PairInv
  <1>2. evq[e] # <<>> /\ eheld[e] = Nothing /\ f \in Event /\ f.k = "PING" /\ f.remote
    BY <1>0, <1>1, TakenEvent
  <1>3. h \in Outgoing /\ h \in Event /\ h.k = "PONG" /\ ~h.remote
    BY EventsMade, EventSets DEF Outgoing
  <1> HIDE DEF h
  <1>4. QueueTypes' /\ Waiting' \in Nat /\ Waiting' <= Waiting
    <2>1. "forward" \in {"recv", "forward", "offer"} /\ "forward" # "recv" /\ "forward" # "offer"
      OBVIOUS
    <2> QED BY <1>0, <1>1, <1>2, <1>3, <2>1, TookTypes
  <1>5. \A w \in Blind :
            /\ Way(e, w)' + Own(w)[f] = Way(e, w) + Own(w)[h]
            /\ Way(Other(e), w)' + Far(w)[f] = Way(Other(e), w) + Far(w)[h]
            /\ Way(e, w)' \in Nat /\ Way(Other(e), w)' \in Nat
    BY <1>0, <1>1, <1>2, <1>3, Took
  <1> HIDE DEF f
  <1>6. ASSUME NEW w \in Blind
        PROVE  /\ Way(e, w)' = Way(e, w) + w[h] /\ Way(Other(e), w)' + w[f] = Way(Other(e), w)
               /\ Way(e, w) \in Nat /\ Way(Other(e), w) \in Nat /\ Way(e, w)' \in Nat /\ Way(Other(e), w)' \in Nat
    <2>1. /\ Own(w)[f] = 0 /\ Far(w)[f] = w[f] /\ Own(w)[h] = w[h] /\ Far(w)[h] = 0
          /\ w[f] \in Nat /\ w[h] \in Nat
      BY <1>2, <1>3, Parts
    <2>2. Way(e, w) \in Nat /\ Way(Other(e), w) \in Nat
      BY <1>1, WayType, OtherEnd
    <2>3. /\ Way(e, w)' + 0 = Way(e, w) + w[h]
          /\ Way(Other(e), w)' + w[f] = Way(Other(e), w) + 0
          /\ Way(e, w)' \in Nat /\ Way(Other(e), w)' \in Nat
      BY <1>5, <2>1
    <2> QED BY <2>1, <2>2, <2>3
  <1>7. /\ Pings \in Blind /\ Pings[f] = 1 /\ Pings[h] = 1
        /\ \A s : /\ Data(s) \in Blind /\ Wins(s) \in Blind /\ Fins(s) \in Blind
                  /\ Data(s)[f] = 0 /\ Wins(s)[f] = 0 /\ Fins(s)[f] = 0
                  /\ Data(s)[h] = 0 /\ Wins(s)[h] = 0 /\ Fins(s)[h] = 0
    BY <1>2, <1>3, TheWeights, EventWeights
  <1>8. ASSUME NEW x \in Ends, NEW w \in Blind, w[f] = 0, w[h] = 0
        PROVE  Way(x, w)' = Way(x, w) /\ Way(x, w) \in Nat
    <2>1. CASE x = e
      BY <1>6, <1>8, <2>1
    <2>2. CASE x = Other(e)
      BY <1>6, <1>8, <2>2
    <2> QED BY <2>1, <2>2, OtherEnd
  <1>9. \A x \in Ends, s \in Streams :
            /\ Way(x, Wins(s))' \in Nat /\ Way(x, Wins(s))' <= Way(x, Wins(s))
            /\ Way(x, Fins(s))' \in Nat /\ Way(x, Fins(s))' <= Way(x, Fins(s))
            /\ Way(x, Data(s))' \in Nat /\ Way(x, Data(s))' <= Way(x, Data(s))
            /\ Way(x, Data(s))' = Way(x, Data(s))
    BY <1>7, <1>8
  <1>10. /\ Way("client", Pings)' \in Nat /\ Way("server", Pings)' \in Nat
         /\ Way("client", Pings)' + Way("server", Pings)' <= Way("client", Pings) + Way("server", Pings)
    <2>1. /\ Way(e, Pings)' = Way(e, Pings) + 1 /\ Way(Other(e), Pings)' + 1 = Way(Other(e), Pings)
          /\ Way(e, Pings) \in Nat /\ Way(Other(e), Pings) \in Nat
          /\ Way(e, Pings)' \in Nat /\ Way(Other(e), Pings)' \in Nat
      BY <1>6, <1>7
    <2>2. CASE e = "client"
      BY <2>1, <2>2 DEF Other
    <2>3. CASE e = "server"
      BY <2>1, <2>3 DEF Other
    <2> QED BY <2>2, <2>3 DEF Ends
  <1>11. life' \in [Ends -> {"run", "closing", "over"}] /\ (Running' => Running) /\ (retired \/ Running')
    BY <1>0, <1>1 DEF TableTypes, LifeKept, Running
  <1>12. UNCHANGED <<tables, counts, finLost>>
    BY <1>0
  <1> QED BY <1>4, <1>9, <1>10, <1>11, <1>12, Quiet

\* The window of a stream is updated.
LEMMA WinKeeps ==
  ASSUME PairInv, NEW e \in Ends, EvWin(e)
  PROVE  PairInv'
  <1> DEFINE ev == Head(evq[e])
  <1>t. PICK t, n : t = ev.s /\ n = ev.n
    OBVIOUS
  <1>0. /\ Taken(e, "WIN", TRUE) /\ evq' = Rest(e) /\ TRUE \in BOOLEAN
        /\ credit' = IF t \in streams[e] THEN [credit EXCEPT ![e][t] = @ + n] ELSE credit
        /\ UNCHANGED <<epc, eheld, sendq, vbuf, net, rheld>>
        /\ streams' = streams /\ relay' = relay /\ dq' = dq /\ unreported' = unreported /\ life' = life
        /\ scope' = scope /\ retired' = retired /\ pings' = pings /\ due' = due /\ owed' = owed /\ finLost' = finLost
    BY <1>t DEF EvWin, counts
  <1>1. /\ TableTypes /\ QueueTypes /\ LifeKept /\ PingsKept
        /\ \A x \in Ends, s \in Streams : WindowKept(x, s) /\ OwedKept(x, s) /\ FinsKept(x, s)
    BY DEF PairInv
  <1>2. ev \in Event /\ ev.k = "WIN" /\ n \in Nat
    <2>1. ev \in Event /\ ev.k = "WIN"
      BY <1>0, <1>1, TakenEvent
    <2> QED BY <1>t, <2>1 DEF Event
  <1>3. /\ QueueTypes' /\ Waiting' \in Nat /\ Waiting' <= Waiting
        /\ \A w \in Blind :
              /\ Way(e, w)' \in Nat /\ Way(Other(e), w)' \in Nat /\ w[ev] \in Nat
              /\ Way(e, w)' + (IF TRUE THEN 0 ELSE w[ev]) = Way(e, w)
              /\ Way(Other(e), w)' + (IF TRUE THEN w[ev] ELSE 0) = Way(Other(e), w)
    BY <1>0, <1>1, TookOff
  <1> HIDE DEF ev
  <1>4. /\ \A x \in Ends, w \in Blind : /\ Way(x, w)' \in Nat /\ Way(x, w)' <= Way(x, w)
                                        /\ (w[ev] = 0 => Way(x, w)' = Way(x, w))
        /\ Way("client", Pings)' \in Nat /\ Way("server", Pings)' \in Nat
        /\ Way("client", Pings)' + Way("server", Pings)' <= Way("client", Pings) + Way("server", Pings)
    BY <1>0, <1>1, <1>2, <1>3, TookOffShares
  <1>5. \A s : /\ Data(s) \in Blind /\ Wins(s) \in Blind /\ Fins(s) \in Blind
               /\ Data(s)[ev] = 0 /\ Fins(s)[ev] = 0
    BY <1>2, TheWeights, EventWeights
  <1>6. Wins(t)[ev] = n
    BY <1>t, <1>2, EventWeights
  <1>7. Way(Other(e), Wins(t))' + n = Way(Other(e), Wins(t))
    BY <1>3, <1>5, <1>6
  <1>8. credit \in [Ends -> [Streams -> Int]] /\ (t \in streams[e] => t \in Streams)
    BY <1>1 DEF TableTypes
  <1>9. credit' \in [Ends -> [Streams -> Int]]
    BY <1>0, <1>2, <1>8
  <1>10. \A x \in Ends, s \in Streams :
            credit'[x][s] = IF x = e /\ s = t /\ t \in streams[e] THEN credit[x][s] + n ELSE credit[x][s]
    BY <1>0, <1>8
  <1>11. TableTypes'
    BY <1>0, <1>1, <1>9 DEF TableTypes
  <1>12. LifeKept' /\ (Running' => Running)
    BY <1>0, <1>1 DEF LifeKept, Running
  <1>13. PingsKept'
    BY <1>0, <1>1, <1>3, <1>4, PingsStay
  <1>14. ASSUME NEW x \in Ends, NEW s \in Streams
         PROVE  WindowKept(x, s)' /\ OwedKept(x, s)' /\ FinsKept(x, s)'
    <2>1. /\ Other(x) \in Ends /\ Unread(Other(x), s)' = Unread(Other(x), s)
          /\ Way(Other(x), Wins(s))' \in Nat /\ Way(Other(x), Wins(s))' <= Way(Other(x), Wins(s))
      BY <1>0, <1>4, <1>5, OtherEnd DEF Unread
    <2>2. /\ Unread(Other(x), s) \in Nat /\ unreported[Other(x)][s] \in Nat /\ Way(Other(x), Wins(s)) \in Nat
          /\ credit[x][s] \in Int /\ owed[x][s] \in Nat /\ Window \in Nat
      BY <1>1, <2>1, Entries
    <2>3. WindowKept(x, s)'
      <3>1. CASE x = e /\ s = t /\ t \in streams[e]
        <4>1. credit'[x][s] = credit[x][s] + n /\ Way(Other(x), Wins(s))' + n = Way(Other(x), Wins(s))
          BY <1>7, <1>10, <3>1
        <4>2. Spent(x, s) = credit[x][s] + owed[x][s] + Unread(Other(x), s) + unreported[Other(x)][s] + Way(Other(x), Wins(s))
          BY DEF Spent
        <4>3. Spent(x, s)' = credit'[x][s] + owed[x][s] + Unread(Other(x), s) + unreported[Other(x)][s] + Way(Other(x), Wins(s))'
          BY <1>0, <2>1 DEF Spent
        <4>4. Spent(x, s)' = Spent(x, s)
          BY <1>2, <2>1, <2>2, <4>1, <4>2, <4>3
        <4>5. Window' = Window /\ Writers' = Writers
          BY <1>0 DEF Window, Writers
        <4>6. credit[x][s] >= -1 /\ Spent(x, s) <= Window /\ (x \notin Writers => credit[x][s] >= Window)
          BY <1>1 DEF WindowKept
        <4>7. credit'[x][s] >= -1 /\ (x \notin Writers => credit'[x][s] >= Window)
          BY <1>2, <2>2, <4>1, <4>6
        <4> QED BY <4>4, <4>5, <4>6, <4>7 DEF WindowKept
      <3>2. CASE ~(x = e /\ s = t /\ t \in streams[e])
        <4>1. credit'[x][s] = credit[x][s]
          BY <1>10, <3>2
        <4> QED BY <1>0, <1>1, <2>1, <2>2, <4>1, WindowStays
      <3> QED BY <3>1, <3>2
    <2>4. OwedKept(x, s)'
      <3>1. Way(x, Data(s))' \in Nat /\ Way(x, Data(s))' <= Way(x, Data(s)) /\ Way(x, Data(s))' = Way(x, Data(s))
        BY <1>4, <1>5
      <3> QED BY <1>0, <1>1, <3>1, OwedStays
    <2>5. FinsKept(x, s)'
      <3>1. Way(x, Fins(s))' \in Nat /\ Way(x, Fins(s))' <= Way(x, Fins(s))
        BY <1>4, <1>5
      <3> QED BY <1>0, <1>1, <1>12, <3>1, FinsStay
    <2> QED BY <2>3, <2>4, <2>5
  <1> QED BY <1>3, <1>11, <1>12, <1>13, <1>14 DEF PairInv

\* The DATA that is held was offered to its stream.
LEMMA OfferedQueues ==
  ASSUME QueueTypes, NEW e \in Ends, epc[e] = "offer", evq' = evq,
         epc' = [epc EXCEPT ![e] = "recv"], eheld' = [eheld EXCEPT ![e] = Nothing],
         UNCHANGED <<sendq, vbuf, net, rheld>>
  PROVE  /\ QueueTypes' /\ Waiting' = Waiting
         /\ \A w \in Blind : /\ Way(e, w)' \in Nat /\ Way(Other(e), w)' \in Nat /\ w[eheld[e]] \in Nat
                             /\ Way(e, w)' + (IF TRUE THEN 0 ELSE w[eheld[e]]) = Way(e, w)
                             /\ Way(Other(e), w)' + (IF TRUE THEN w[eheld[e]] ELSE 0) = Way(Other(e), w)
  <1>1. eheld[e] \in Event /\ eheld[e].remote
    BY EndQueues DEF Arrived
  <1>2. Nothing \in Event /\ "recv" \in {"recv", "forward", "offer"} /\ "recv" # "forward" /\ "recv" # "offer"
    BY EventsMade
  <1>3. /\ epc' \in [Ends -> {"recv", "forward", "offer"}] /\ eheld' \in [Ends -> Event]
        /\ eheld'[e] = Nothing /\ eheld'[Other(e)] = eheld[Other(e)]
        /\ \A x \in Ends :
              /\ epc'[x] = "recv" => eheld'[x] = Nothing
              /\ epc'[x] = "forward" => eheld'[x] \in Outgoing
              /\ epc'[x] = "offer" => eheld'[x] \in Arrived /\ eheld'[x].k = "DATA" /\ eheld'[x].s \in Streams
    BY <1>2, HeldTypes
  <1>4. QueueTypes'
    BY <1>3 DEF QueueTypes
  <1>5. Waiting' = Waiting
    BY DEF Waiting
  <1>6. ASSUME NEW w \in Blind
        PROVE  /\ Way(e, w)' \in Nat /\ Way(Other(e), w)' \in Nat /\ w[eheld[e]] \in Nat
               /\ Way(e, w)' = Way(e, w)
               /\ Way(Other(e), w)' + w[eheld[e]] = Way(Other(e), w)
    <2>1. /\ Own(w)[Nothing] = 0 /\ Far(w)[Nothing] = 0 /\ w[eheld[e]] \in Nat
          /\ Own(w)[eheld[e]] = 0 /\ Far(w)[eheld[e]] = w[eheld[e]]
      BY <1>1, Parts
    <2>2. /\ Weight(evq[e], Own(w)) \in Nat /\ Weight(evq[e], Far(w)) \in Nat
          /\ Way(e, w) \in Nat /\ Way(Other(e), w) \in Nat
      BY EndWeights, WayType, OtherEnd
    <2>3. evq'[e] = evq[e] /\ evq'[Other(e)] = evq[Other(e)] /\ Own(w)[Nothing] \in Nat /\ Far(w)[Nothing] \in Nat
      BY <2>1
    <2>4. /\ Way(e, w)' + Weight(evq[e], Own(w)) + Own(w)[eheld[e]]
                = Way(e, w) + Weight(evq[e], Own(w)) + Own(w)[Nothing]
          /\ Way(Other(e), w)' + Weight(evq[e], Far(w)) + Far(w)[eheld[e]]
                = Way(Other(e), w) + Weight(evq[e], Far(w)) + Far(w)[Nothing]
          /\ Way(e, w)' \in Nat /\ Way(Other(e), w)' \in Nat
      BY <1>3, <2>2, <2>3, Requeued
    <2>5. /\ Way(e, w)' + Weight(evq[e], Own(w)) + 0 = Way(e, w) + Weight(evq[e], Own(w)) + 0
          /\ Way(Other(e), w)' + Weight(evq[e], Far(w)) + w[eheld[e]]
                = Way(Other(e), w) + Weight(evq[e], Far(w)) + 0
      BY <2>1, <2>4
    <2>6. Way(e, w)' = Way(e, w)
      BY <2>2, <2>4, <2>5
    <2>7. Way(Other(e), w)' + w[eheld[e]] = Way(Other(e), w)
      BY <2>1, <2>2, <2>4, <2>5
    <2> QED BY <2>1, <2>4, <2>6, <2>7
  <1>7. ASSUME NEW w \in Blind PROVE Way(e, w)' + 0 = Way(e, w)
    BY <1>6
  <1> QED BY <1>4, <1>5, <1>6, <1>7

\* offer_data returns.
LEMMA OfferKeeps ==
  ASSUME PairInv, NEW e \in Ends, EvOffered(e)
  PROVE  PairInv'
  <1> DEFINE ev == eheld[e]
             o == Other(e)
             rx == relay[e][ev.s] \in {"open", "closed"}
  <1>t. PICK t : t = ev.s
    OBVIOUS
  <1>b. PICK b \in BOOLEAN : b <=> rx
    OBVIOUS
  <1>0. /\ epc[e] = "offer" /\ (b => dq[e][t] < DataCap)
        /\ dq' = IF b THEN [dq EXCEPT ![e][t] = @ + 1] ELSE dq
        /\ owed' = IF b THEN [owed EXCEPT ![o][t] = @ - 1] ELSE owed
        /\ epc' = [epc EXCEPT ![e] = "recv"] /\ eheld' = [eheld EXCEPT ![e] = Nothing]
        /\ evq' = evq /\ UNCHANGED <<sendq, vbuf, net, rheld>>
        /\ streams' = streams /\ relay' = relay /\ credit' = credit /\ unreported' = unreported /\ life' = life
        /\ scope' = scope /\ retired' = retired /\ pings' = pings /\ due' = due /\ finLost' = finLost
    BY <1>t, <1>b DEF EvOffered
  <1>1. /\ TableTypes /\ QueueTypes /\ LifeKept /\ PingsKept
        /\ \A x \in Ends, s \in Streams : WindowKept(x, s) /\ OwedKept(x, s) /\ FinsKept(x, s)
    BY DEF PairInv
  <1>2. ev \in Event /\ ev.k = "DATA" /\ t \in Streams /\ o \in Ends /\ o # e /\ Other(o) = e
    BY <1>t, <1>0, <1>1, EndQueues, OtherEnd
  <1>3. /\ QueueTypes' /\ Waiting' = Waiting
        /\ \A w \in Blind : /\ Way(e, w)' \in Nat /\ Way(o, w)' \in Nat /\ w[ev] \in Nat
                            /\ Way(e, w)' + (IF TRUE THEN 0 ELSE w[ev]) = Way(e, w)
                            /\ Way(o, w)' + (IF TRUE THEN w[ev] ELSE 0) = Way(o, w)
    BY <1>0, <1>1, OfferedQueues
  <1> HIDE DEF ev
  <1>4. /\ \A x \in Ends, w \in Blind : /\ Way(x, w)' \in Nat /\ Way(x, w)' <= Way(x, w)
                                        /\ (w[ev] = 0 => Way(x, w)' = Way(x, w))
                                        /\ (x = e => Way(x, w)' = Way(x, w))
        /\ Way("client", Pings)' \in Nat /\ Way("server", Pings)' \in Nat
        /\ Way("client", Pings)' + Way("server", Pings)' <= Way("client", Pings) + Way("server", Pings)
    <2>1. TRUE \in BOOLEAN
      OBVIOUS
    <2> QED BY <1>1, <1>2, <1>3, <2>1, TookOffShares
  <1>5. \A s : /\ Data(s) \in Blind /\ Wins(s) \in Blind /\ Fins(s) \in Blind
               /\ Wins(s)[ev] = 0 /\ Fins(s)[ev] = 0 /\ Data(s)[ev] = IF s = t THEN 1 ELSE 0
    BY <1>t, <1>2, TheWeights, EventWeights
  <1>6. Way(o, Data(t))' + 1 = Way(o, Data(t))
    BY <1>3, <1>5
  <1>7. relay[e][t] = "open" => b
    BY <1>t, <1>b DEF ev
  <1>8. owed \in [Ends -> [Streams -> Nat]] /\ dq \in [Ends -> [Streams -> 0 .. DataCap]] /\ DataCap \in Nat
    BY <1>1, PairAssumption DEF TableTypes
  <1>9. Way(o, Data(t))' \in Nat /\ owed[o][t] \in Nat /\ Way(o, Data(t)) <= owed[o][t] /\ owed[o][t] - 1 \in Nat
    <2>1. Way(o, Data(t))' \in Nat /\ owed[o][t] \in Nat /\ Way(o, Data(t)) \in Nat
      BY <1>1, <1>2, <1>3, <1>5, <1>8, Entries
    <2>2. Way(o, Data(t)) <= owed[o][t]
      BY <1>1, <1>2 DEF OwedKept
    <2> QED BY <1>6, <2>1, <2>2
  <1>10. /\ owed' \in [Ends -> [Streams -> Nat]]
         /\ \A x \in Ends, s \in Streams :
              owed'[x][s] = IF b /\ x = o /\ s = t THEN owed[x][s] - 1 ELSE owed[x][s]
    BY <1>0, <1>2, <1>8, <1>9
  <1>11. /\ dq' \in [Ends -> [Streams -> 0 .. DataCap]]
         /\ \A x \in Ends, s \in Streams :
              dq'[x][s] = IF b /\ x = e /\ s = t THEN dq[x][s] + 1 ELSE dq[x][s]
    <2>1. dq[e][t] \in 0 .. DataCap /\ (b => dq[e][t] + 1 \in 0 .. DataCap)
      BY <1>0, <1>2, <1>8
    <2> QED BY <1>0, <1>2, <1>8, <2>1
  <1>12. TableTypes'
    BY <1>0, <1>1, <1>10, <1>11 DEF TableTypes
  <1>13. LifeKept' /\ (Running' => Running)
    BY <1>0, <1>1 DEF LifeKept, Running
  <1>14. PingsKept'
    <2>1. Waiting' \in Nat /\ Waiting' <= Waiting
      BY <1>1, <1>3, WaitingType
    <2> QED BY <1>0, <1>1, <1>4, <2>1, PingsStay
  <1>15. ASSUME NEW x \in Ends, NEW s \in Streams
         PROVE  WindowKept(x, s)' /\ OwedKept(x, s)' /\ FinsKept(x, s)'
    <2>1. /\ Other(x) \in Ends /\ Way(Other(x), Wins(s))' = Way(Other(x), Wins(s))
      BY <1>4, <1>5, OtherEnd
    <2>2. /\ Unread(Other(x), s) \in Nat /\ unreported[Other(x)][s] \in Nat /\ Way(Other(x), Wins(s)) \in Nat
          /\ credit[x][s] \in Int /\ owed[x][s] \in Nat /\ Window \in Nat /\ Way(x, Data(s)) \in Nat
      BY <1>1, <2>1, Entries
    <2>3. CASE b /\ x = o /\ s = t
      <3>1. owed'[x][s] = owed[x][s] - 1 /\ dq'[e][s] = dq[e][s] + 1 /\ dq[e][s] \in Nat /\ Other(x) = e
        BY <1>2, <1>8, <1>10, <1>11, <2>3
      <3>2. Unread(e, s)' \in Nat /\ Unread(e, s)' <= Unread(e, s) + 1
        BY <1>0, <3>1 DEF Unread
      <3>3. WindowKept(x, s)'
        <4>1. Spent(x, s) = credit[x][s] + owed[x][s] + Unread(e, s) + unreported[e][s] + Way(e, Wins(s))
          BY <3>1 DEF Spent
        <4>2. Spent(x, s)' = credit[x][s] + (owed[x][s] - 1) + Unread(e, s)' + unreported[e][s] + Way(e, Wins(s))
          BY <1>0, <2>1, <3>1 DEF Spent
        <4>3. Spent(x, s)' <= Spent(x, s) /\ Spent(x, s) \in Int /\ Spent(x, s)' \in Int
          BY <2>2, <3>1, <3>2, <4>1, <4>2
        <4>4. Window' = Window /\ Writers' = Writers
          BY <1>0 DEF Window, Writers
        <4>5. credit[x][s] >= -1 /\ Spent(x, s) <= Window /\ (x \notin Writers => credit[x][s] >= Window)
          BY <1>1 DEF WindowKept
        <4>6. Spent(x, s)' <= Window
          BY <2>2, <4>3, <4>5
        <4> QED BY <1>0, <4>4, <4>5, <4>6 DEF WindowKept
      <3>4. OwedKept(x, s)'
        <4>1. Way(x, Data(s))' + 1 = Way(x, Data(s)) /\ Way(x, Data(s))' \in Nat
          BY <1>6, <1>9, <2>3
        <4>2. Way(x, Data(s)) <= owed[x][s] => Way(x, Data(s))' <= owed'[x][s]
          BY <2>2, <3>1, <4>1
        <4>3. owed[x][s] = Way(x, Data(s)) => owed'[x][s] = Way(x, Data(s))'
          BY <2>2, <3>1, <4>1
        <4> QED BY <1>0, <1>1, <4>2, <4>3 DEF OwedKept
      <3> QED BY <3>3, <3>4, <1>0, <1>1, <1>4, <1>5, <1>13, FinsStay
    <2>4. CASE ~(b /\ x = o /\ s = t)
      <3>1. owed'[x][s] = owed[x][s]
        BY <1>10, <2>4
      <3>2. Unread(Other(x), s)' = Unread(Other(x), s)
        <4>1. ~(b /\ Other(x) = e /\ s = t)
          BY <2>4, OtherEnd
        <4>2. dq'[Other(x)][s] = dq[Other(x)][s]
          BY <1>11, <2>1, <4>1
        <4> QED BY <1>0, <4>2 DEF Unread
      <3>3. WindowKept(x, s)'
        BY <1>0, <1>1, <2>1, <2>2, <3>1, <3>2, WindowStays
      <3>4. OwedKept(x, s)'
        <4>1. Way(x, Data(s))' \in Nat /\ Way(x, Data(s))' <= Way(x, Data(s))
          BY <1>4, <1>5
        <4>2. relay[Other(x)][s] = "open" => Way(x, Data(s))' = Way(x, Data(s))
          <5>1. CASE x = e \/ s # t
            BY <1>4, <1>5, <5>1
          <5>2. CASE x = o /\ s = t
            BY <1>2, <1>7, <2>4, <5>2
          <5> QED BY <5>1, <5>2, OtherEnd
        <4> QED BY <1>0, <1>1, <3>1, <4>1, <4>2, OwedStays
      <3> QED BY <3>3, <3>4, <1>0, <1>1, <1>4, <1>5, <1>13, FinsStay
    <2> QED BY <2>3, <2>4
  <1> QED BY <1>3, <1>12, <1>13, <1>14, <1>15 DEF PairInv

-----------------------------------------------------------------------------
(* A session ends.                                                          *)

\* process_event breaks: the client's session was retired.
LEMMA BreakKeeps ==
  ASSUME PairInv, NEW e \in Ends, Break(e), retired, UNCHANGED vbuf,
         net' = net \/ net' = [net EXCEPT ![Other(e)] = <<>>],
         UNCHANGED <<dq, credit, unreported, counts, finLost>>
  PROVE  PairInv'
  <1>0. /\ streams' = [streams EXCEPT ![e] = {}]
        /\ relay' = [relay EXCEPT ![e] = [s \in Streams |->
                       IF s \in streams[e] /\ relay[e][s] = "open" THEN "closed" ELSE relay[e][s]]]
        /\ life' = [life EXCEPT ![e] = IF vbuf[e] = <<>> THEN "over" ELSE "closing"]
        /\ dq' = dq /\ credit' = credit /\ unreported' = unreported
        /\ scope' = scope /\ retired' = retired /\ pings' = pings /\ due' = due /\ owed' = owed /\ finLost' = finLost
    BY DEF Break, counts
  <1>1. /\ TableTypes /\ QueueTypes /\ LifeKept /\ PingsKept
        /\ \A x \in Ends, s \in Streams : WindowKept(x, s) /\ OwedKept(x, s) /\ FinsKept(x, s)
    BY DEF PairInv
  <1>2. QueueTypes' /\ Lowered /\ Waiting' \in Nat /\ Waiting' <= Waiting
    BY <1>1, BreakDrops
  <1>3. /\ streams \in [Ends -> SUBSET Streams] /\ life \in [Ends -> {"run", "closing", "over"}]
        /\ relay \in [Ends -> [Streams -> {"open", "closed", "deaf", "over"}]]
    BY <1>1 DEF TableTypes
  <1>4. /\ streams' \in [Ends -> SUBSET Streams] /\ life' \in [Ends -> {"run", "closing", "over"}]
        /\ life'[e] # "run"
        /\ \A x \in Ends : streams'[x] = IF x = e THEN {} ELSE streams[x]
    BY <1>0, <1>3
  <1>5. /\ relay' \in [Ends -> [Streams -> {"open", "closed", "deaf", "over"}]]
        /\ \A x \in Ends, s \in Streams :
             relay'[x][s] = IF x = e /\ s \in streams[e] /\ relay[e][s] = "open" THEN "closed" ELSE relay[x][s]
    BY <1>0, <1>3
  <1>6. TableTypes'
    BY <1>0, <1>1, <1>4, <1>5 DEF TableTypes
  <1>7. LifeKept' /\ ~Running'
    BY <1>0, <1>1, <1>4 DEF LifeKept, Running
  <1>8. \A x \in Ends, w \in Blind : Way(x, w)' \in Nat /\ Way(x, w)' <= Way(x, w)
    BY <1>2 DEF Lowered
  <1>9. PingsKept'
    <2>1. "client" \in Ends /\ "server" \in Ends /\ Pings \in Blind
      BY TheWeights DEF Ends
    <2>2. /\ Way("client", Pings)' \in Nat /\ Way("server", Pings)' \in Nat
          /\ Way("client", Pings)' <= Way("client", Pings) /\ Way("server", Pings)' <= Way("server", Pings)
          /\ Way("client", Pings) \in Nat /\ Way("server", Pings) \in Nat
      BY <1>1, <1>8, <2>1, WayType
    <2>3. Way("client", Pings)' + Way("server", Pings)' <= Way("client", Pings) + Way("server", Pings)
      BY <2>2
    <2> QED BY <1>0, <1>1, <1>2, <2>2, <2>3, PingsStay
  <1>10. ASSUME NEW x \in Ends, NEW s \in Streams
         PROVE  WindowKept(x, s)' /\ OwedKept(x, s)' /\ FinsKept(x, s)'
    <2>1. /\ Other(x) \in Ends
          /\ Way(Other(x), Wins(s))' \in Nat /\ Way(Other(x), Wins(s))' <= Way(Other(x), Wins(s))
          /\ Way(x, Data(s))' \in Nat /\ Way(x, Data(s))' <= Way(x, Data(s))
          /\ Way(x, Fins(s))' \in Nat /\ Way(x, Fins(s))' <= Way(x, Fins(s))
      BY <1>8, OtherEnd, TheWeights
    <2>2. unreported[Other(x)][s] \in Nat /\ dq[Other(x)][s] \in Nat
      BY <1>1, <2>1, Entries
    <2>3. Unread(Other(x), s)' \in Nat /\ Unread(Other(x), s)' <= Unread(Other(x), s)
      BY <1>0, <1>5, <2>1, <2>2 DEF Unread
    <2>4. WindowKept(x, s)'
      BY <1>0, <1>1, <2>1, <2>2, <2>3, WindowStays
    <2>5. OwedKept(x, s)'
      BY <1>0, <1>1, <2>1, OwedStays
    <2>6. FinsKept(x, s)'
      <3>1. Made(x, s) \in Nat /\ Made(x, s)' \in Nat /\ Made(x, s) <= Made(x, s)'
        BY <1>4, <1>5 DEF Made
      <3>2. Way(x, Fins(s)) \in Nat /\ Way(x, Fins(s)) <= Made(x, s)
        BY <1>1, Entries DEF FinsKept
      <3>3. Way(x, Fins(s))' <= Made(x, s)'
        BY <2>1, <3>1, <3>2
      <3>4. s \notin streams'[x] => relay'[x][s] # "open"
        BY <1>1, <1>4, <1>5 DEF FinsKept
      <3> QED BY <1>7, <3>3, <3>4 DEF FinsKept
    <2> QED BY <2>4, <2>5, <2>6
  <1> QED BY <1>2, <1>6, <1>7, <1>9, <1>10 DEF PairInv

\* The other end has closed: by a read or by a write.
LEMMA OtherEndedKeeps ==
  ASSUME PairInv, NEW e \in Ends, ConnectionEnds(e) \/ (SendFails(e) /\ life[e] = "run")
  PROVE  PairInv'
  <1>1. /\ Break(e) /\ life[Other(e)] = "over" /\ UNCHANGED vbuf
        /\ net' = net \/ net' = [net EXCEPT ![Other(e)] = <<>>]
        /\ UNCHANGED <<dq, credit, unreported, counts, finLost>>
    BY DEF ConnectionEnds, SendFails
  <1>2. retired
    BY <1>1, OtherEnd DEF PairInv, LifeKept, Running
  <1> QED BY <1>1, <1>2, BreakKeeps

\* handle_event takes a ROUTINE, which ends a retired session without streams.
LEMMA RoutineEventKeeps ==
  ASSUME PairInv, NEW e \in Ends, EvRoutine(e)
  PROVE  PairInv'
  <1>1. Taken(e, "ROUTINE", FALSE) /\ UNCHANGED <<vbuf, net, dq, credit, unreported, counts, finLost>>
    BY DEF EvRoutine
  <1>2. CASE e = "client" /\ retired /\ streams[e] = {}
    BY <1>1, <1>2, BreakKeeps DEF EvRoutine
  <1>3. CASE ~(e = "client" /\ retired /\ streams[e] = {})
    <2>1. /\ evq' = Rest(e) /\ FALSE \in BOOLEAN /\ "ROUTINE" # "DATA"
          /\ UNCHANGED <<epc, eheld, sendq, vbuf, net, rheld, tables, life, counts, finLost>>
      BY <1>1, <1>3 DEF EvRoutine, tables
    <2> QED BY <1>1, <2>1, DropKeeps
  <1> QED BY <1>2, <1>3

-----------------------------------------------------------------------------
(* A FIN is taken.                                                          *)

\* The queues: a FIN of this end is sent on, and one more is queued when the
\* stream was in the map.
LEMMA FinQueues ==
  ASSUME QueueTypes, NEW e \in Ends, NEW b \in BOOLEAN, Taken(e, "FIN", b), NEW c \in BOOLEAN, NEW t,
         c => t \in Streams,
         evq' = IF c THEN [evq EXCEPT ![e] = Append(Tail(evq[e]), Local("FIN", t))] ELSE Rest(e),
         IF b THEN UNCHANGED <<epc, eheld>> ELSE Forward(e, Head(evq[e])),
         UNCHANGED <<sendq, vbuf, net, rheld>>
  PROVE  /\ QueueTypes' /\ Waiting' \in Nat /\ Waiting' <= Waiting
         /\ \A w \in Blind :
              /\ Way(e, w)' \in Nat /\ Way(Other(e), w)' \in Nat
              /\ Way(e, w)' = Way(e, w) + (IF c THEN w[Local("FIN", t)] ELSE 0)
              /\ Way(Other(e), w)' + (IF b THEN w[Head(evq[e])] ELSE 0) = Way(Other(e), w)
  <1> DEFINE f == Head(evq[e])
             p == IF b THEN "recv" ELSE "forward"
             h == IF b THEN Nothing ELSE f
  <1>1. /\ evq[e] # <<>> /\ eheld[e] = Nothing /\ f \in Event /\ f.remote = b
        /\ (~b => f \in Outgoing)
        /\ epc = [epc EXCEPT ![e] = "recv"] /\ eheld = [eheld EXCEPT ![e] = Nothing]
    BY TakenEvent
  <1>2. epc' = [epc EXCEPT ![e] = p] /\ eheld' = [eheld EXCEPT ![e] = h]
    <2>1. CASE b
      BY <1>1, <2>1
    <2>2. CASE ~b
      BY <2>2 DEF Forward
    <2> QED BY <2>1, <2>2
  <1>3. /\ h \in Event /\ p \in {"recv", "forward", "offer"} /\ p # "offer"
        /\ (p = "recv" => h = Nothing) /\ (p = "forward" => h \in Outgoing)
    BY <1>1, EventsMade
  <1>4. \A w \in Blind :
            /\ w[f] \in Nat /\ (b => Own(w)[f] = 0 /\ Far(w)[f] = w[f] /\ Own(w)[h] = 0 /\ Far(w)[h] = 0)
            /\ (~b => Own(w)[f] = w[f] /\ Far(w)[f] = 0 /\ Own(w)[h] = w[f] /\ Far(w)[h] = 0)
    BY <1>1, Parts
  <1>5. QueueTypes' /\ Waiting' \in Nat /\ Waiting' <= Waiting
    <2> HIDE DEF p, h
    <2>1. CASE c
      <3>1. t \in Streams /\ evq' = [evq EXCEPT ![e] = Append(Tail(evq[e]), Local("FIN", t))]
        BY <2>1
      <3> QED BY <1>1, <1>2, <1>3, <3>1, TookFinTypes
    <2>2. CASE ~c
      <3>1. evq' = Rest(e)
        BY <2>2
      <3> QED BY <1>1, <1>2, <1>3, <3>1, TookTypes
    <2> QED BY <2>1, <2>2
  <1> HIDE DEF p, h
  <1>6. ASSUME NEW w \in Blind
        PROVE  /\ Way(e, w)' \in Nat /\ Way(Other(e), w)' \in Nat
               /\ Way(e, w)' + Own(w)[f] = Way(e, w) + (IF c THEN w[Local("FIN", t)] ELSE 0) + Own(w)[h]
               /\ Way(Other(e), w)' + Far(w)[f] = Way(Other(e), w) + Far(w)[h]
               /\ (IF c THEN w[Local("FIN", t)] ELSE 0) \in Nat
    <2>1. CASE c
      <3>0. t \in Streams /\ evq' = [evq EXCEPT ![e] = Append(Tail(evq[e]), Local("FIN", t))]
        BY <2>1
      <3>1. evq \in [Ends -> Seq(Proper)] /\ eheld \in [Ends -> Event]
        BY DEF QueueTypes
      <3>2. /\ evq'[e] = Append(Tail(evq[e]), Local("FIN", t)) /\ evq'[Other(e)] = evq[Other(e)]
            /\ eheld'[e] = h /\ eheld'[Other(e)] = eheld[Other(e)]
        BY <1>2, <3>0, <3>1, OtherEnd
      <3>3. /\ Way(e, w)' + Own(w)[f] = Way(e, w) + w[Local("FIN", t)] + Own(w)[h]
            /\ Way(Other(e), w)' + Far(w)[f] = Way(Other(e), w) + Far(w)[h]
            /\ Way(e, w)' \in Nat /\ Way(Other(e), w)' \in Nat
        BY <1>1, <1>3, <3>0, <3>2, TookFin
      <3>4. w[Local("FIN", t)] \in Nat
        BY <3>0, EventsMade, EventSets, Parts
      <3> QED BY <2>1, <3>3, <3>4
    <2>2. CASE ~c
      <3>0. evq' = Rest(e)
        BY <2>2
      <3>1. /\ Way(e, w)' + Own(w)[f] = Way(e, w) + Own(w)[h]
            /\ Way(Other(e), w)' + Far(w)[f] = Way(Other(e), w) + Far(w)[h]
            /\ Way(e, w)' \in Nat /\ Way(Other(e), w)' \in Nat
        BY <1>1, <1>2, <1>3, <3>0, Took
      <3>2. Way(e, w) \in Nat
        BY WayType
      <3>3. Way(e, w) + 0 = Way(e, w)
        BY <3>2
      <3> QED BY <2>2, <3>1, <3>3
    <2> QED BY <2>1, <2>2
  <1> HIDE DEF f
  <1>7. ASSUME NEW w \in Blind
        PROVE  /\ Way(e, w)' = Way(e, w) + (IF c THEN w[Local("FIN", t)] ELSE 0)
               /\ Way(Other(e), w)' + (IF b THEN w[f] ELSE 0) = Way(Other(e), w)
    <2> DEFINE a == IF c THEN w[Local("FIN", t)] ELSE 0
    <2>1. /\ Way(e, w)' \in Nat /\ Way(Other(e), w)' \in Nat
          /\ Way(e, w)' + Own(w)[f] = Way(e, w) + a + Own(w)[h]
          /\ Way(Other(e), w)' + Far(w)[f] = Way(Other(e), w) + Far(w)[h]
          /\ a \in Nat
      BY <1>6
    <2>2. /\ w[f] \in Nat /\ Way(e, w) \in Nat /\ Way(Other(e), w) \in Nat
      BY <1>4, WayType, OtherEnd
    <2> HIDE DEF a
    <2>3. CASE b
      <3>1. Way(e, w)' + 0 = Way(e, w) + a + 0 /\ Way(Other(e), w)' + w[f] = Way(Other(e), w) + 0
        BY <1>4, <2>1, <2>3
      <3>2. Way(e, w)' = Way(e, w) + a /\ Way(Other(e), w)' + w[f] = Way(Other(e), w)
        BY <2>1, <2>2, <3>1
      <3> QED BY <2>3, <3>2 DEF a
    <2>4. CASE ~b
      <3>1. Way(e, w)' + w[f] = Way(e, w) + a + w[f] /\ Way(Other(e), w)' + 0 = Way(Other(e), w) + 0
        BY <1>4, <2>1, <2>4
      <3>2. Way(e, w)' = Way(e, w) + a /\ Way(Other(e), w)' + 0 = Way(Other(e), w)
        BY <2>1, <2>2, <3>1
      <3> QED BY <2>4, <3>2 DEF a
    <2> QED BY <2>3, <2>4
  <1> QED BY <1>5, <1>6, <1>7 DEF f

\* A FIN that is taken was on the way.
LEMMA HeadOnWay ==
  ASSUME QueueTypes, NEW e \in Ends, evq[e] # <<>>, NEW w \in Blind
  PROVE  /\ Head(evq[e]).remote => w[Head(evq[e])] <= Way(Other(e), w)
         /\ ~Head(evq[e]).remote => w[Head(evq[e])] <= Way(e, w)
  <1> DEFINE f == Head(evq[e])
             r == Tail(evq[e])
  <1>1. evq[e] \in Seq(Event) /\ Own(w) \in Weights /\ Far(w) \in Weights
    BY EndQueues, Parts
  <1>2. /\ f \in Event /\ r \in Seq(Event) /\ Weight(evq[e], Own(w)) = Own(w)[f] + Weight(r, Own(w))
        /\ Weight(evq[e], Far(w)) = Far(w)[f] + Weight(r, Far(w))
    BY <1>1, WeightTail
  <1>3. Weight(r, Own(w)) \in Nat /\ Weight(r, Far(w)) \in Nat
    BY <1>1, <1>2, WeightType
  <1>4. /\ w[f] \in Nat /\ (f.remote => Far(w)[f] = w[f]) /\ (~f.remote => Own(w)[f] = w[f])
        /\ Own(w)[f] \in Nat /\ Far(w)[f] \in Nat
    BY <1>1, <1>2, Parts DEF Weights
  <1> HIDE DEF f, r
  <1>5. Own(w)[f] <= Weight(evq[e], Own(w)) /\ Far(w)[f] <= Weight(evq[e], Far(w))
    BY <1>2, <1>3, <1>4
  <1>6. /\ Weight(evq[e], Own(w)) \in Nat /\ Weight(evq[e], Far(w)) \in Nat
        /\ Own(w)[eheld[e]] \in Nat /\ Far(w)[eheld[e]] \in Nat
        /\ Weight(sendq[e], Own(w)) \in Nat /\ Weight(vbuf[e], Own(w)) \in Nat
        /\ Weight(net[e], Own(w)) \in Nat /\ Weight(rheld[e], Far(w)) \in Nat
    BY EndWeights
  <1>7. Weight(evq[e], Own(w)) <= Sending(e, w) /\ Weight(evq[e], Far(w)) <= Coming(e, w)
    <2>1. Weight(evq[e], Own(w)) <= Sending(e, w)
      <3>1. \A i, j, k, m, n \in Nat : i <= i + j + k + m + n
        OBVIOUS
      <3> QED BY <1>6, <3>1 DEF Sending
    <2>2. Weight(evq[e], Far(w)) <= Coming(e, w)
      <3>1. \A i, j, k \in Nat : j <= i + j + k
        OBVIOUS
      <3> QED BY <1>6, <3>1 DEF Coming
    <2> QED BY <2>1, <2>2
  <1>8. /\ Sending(e, w) \in Nat /\ Coming(e, w) \in Nat /\ Sending(Other(e), w) \in Nat /\ Coming(Other(e), w) \in Nat
        /\ Other(Other(e)) = e
    BY EndWeights, OtherEnd
  <1>9. Sending(e, w) <= Way(e, w) /\ Coming(e, w) <= Way(Other(e), w) /\ Way(e, w) \in Nat /\ Way(Other(e), w) \in Nat
    BY <1>8 DEF Way
  <1>10. Own(w)[f] <= Way(e, w) /\ Far(w)[f] <= Way(Other(e), w)
    <2>1. \A i, j, k, m \in Nat : i <= j /\ j <= k /\ k <= m => i <= m
      OBVIOUS
    <2>2. Own(w)[f] <= Weight(evq[e], Own(w)) /\ Far(w)[f] <= Weight(evq[e], Far(w))
      BY <1>4, <1>5, <1>6
    <2>3. Own(w)[f] \in Nat /\ Far(w)[f] \in Nat /\ Weight(evq[e], Own(w)) \in Nat /\ Weight(evq[e], Far(w)) \in Nat
      BY <1>4, <1>5, <1>6
    <2> QED BY <1>7, <1>8, <1>9, <2>1, <2>2, <2>3
  <1> QED BY <1>4, <1>10 DEF f

\* handle_fin_event of a session that goes on.
LEMMA FinTableKeeps ==
  ASSUME PairInv, NEW e \in Ends, NEW b \in BOOLEAN, EvFin(e, b), NEW t, t = Head(evq[e]).s,
         ~(e = "client" /\ retired /\ streams[e] \ {t} = {})
  PROVE  PairInv'
  <1> DEFINE f == Head(evq[e])
             o == Other(e)
  <1>c. PICK c \in BOOLEAN : c <=> t \in streams[e]
    OBVIOUS
  <1>0. Taken(e, "FIN", b) /\ UNCHANGED <<vbuf, net, credit, unreported, counts>>
    BY DEF EvFin
  <1>1. /\ TableTypes /\ QueueTypes /\ LifeKept /\ PingsKept
        /\ \A x \in Ends, s \in Streams : WindowKept(x, s) /\ OwedKept(x, s) /\ FinsKept(x, s)
    BY DEF PairInv
  <1>2. /\ evq[e] # <<>> /\ f \in Event /\ f.k = "FIN" /\ f.remote = b
    BY <1>0, <1>1, TakenEvent
  <1>3. Len(Tail(evq[e])) < EvCap /\ Len(Tail(evq[e])) \in Nat
    BY <1>1, <1>2, Taking
  <1>4. /\ streams' = [streams EXCEPT ![e] = streams[e] \ {t}]
        /\ relay' = IF c /\ relay[e][t] = "open" THEN [relay EXCEPT ![e][t] = "closed"] ELSE relay
        /\ dq' = IF c /\ relay[e][t] \in {"open", "closed"} /\ dq[e][t] < DataCap
                 THEN [dq EXCEPT ![e][t] = @ + 1] ELSE dq
        /\ evq' = IF c THEN [evq EXCEPT ![e] = Fin(e, t, Tail(evq[e]))] ELSE Rest(e)
        /\ finLost' = IF c THEN FinLost(e, t, Tail(evq[e])) ELSE finLost
        /\ (IF FinForwards(b) THEN Forward(e, f) ELSE UNCHANGED <<epc, eheld>>)
        /\ UNCHANGED <<life, sendq, rheld>>
    BY <1>c DEF EvFin
  <1>5. Fin(e, t, Tail(evq[e])) = Append(Tail(evq[e]), Local("FIN", t))
    BY <1>3 DEF Fin
  <1>6. IF b THEN UNCHANGED <<epc, eheld>> ELSE Forward(e, f)
    BY <1>4 DEF FinForwards
  <1>7. /\ streams \in [Ends -> SUBSET Streams] /\ relay \in [Ends -> [Streams -> {"open", "closed", "deaf", "over"}]]
        /\ dq \in [Ends -> [Streams -> 0 .. DataCap]] /\ finLost \in [Ends -> [Streams -> BOOLEAN]]
        /\ DataCap \in Nat
    BY <1>1, PairAssumption DEF TableTypes
  <1>8. c => t \in Streams
    BY <1>c, <1>7
  <1>9. /\ QueueTypes' /\ Waiting' \in Nat /\ Waiting' <= Waiting
        /\ \A w \in Blind :
              /\ Way(e, w)' \in Nat /\ Way(o, w)' \in Nat
              /\ Way(e, w)' = Way(e, w) + (IF c THEN w[Local("FIN", t)] ELSE 0)
              /\ Way(o, w)' + (IF b THEN w[f] ELSE 0) = Way(o, w)
    <2>1. evq' = IF c THEN [evq EXCEPT ![e] = Append(Tail(evq[e]), Local("FIN", t))] ELSE Rest(e)
      BY <1>4, <1>5
    <2>2. UNCHANGED <<sendq, vbuf, net, rheld>>
      BY <1>0, <1>4
    <2> QED BY <1>0, <1>1, <1>6, <1>8, <2>1, <2>2, FinQueues
  <1>10. /\ streams' \in [Ends -> SUBSET Streams]
         /\ \A x \in Ends : streams'[x] = IF x = e THEN streams[x] \ {t} ELSE streams[x]
    BY <1>4, <1>7
  <1>11. /\ relay' \in [Ends -> [Streams -> {"open", "closed", "deaf", "over"}]]
         /\ \A x \in Ends, s \in Streams :
              relay'[x][s] = IF c /\ x = e /\ s = t /\ relay[x][s] = "open" THEN "closed" ELSE relay[x][s]
    BY <1>4, <1>7, <1>8
  <1>12. /\ dq' \in [Ends -> [Streams -> 0 .. DataCap]]
         /\ \A x \in Ends, s \in Streams : ~(c /\ x = e /\ s = t) => dq'[x][s] = dq[x][s]
    <2>1. CASE c /\ relay[e][t] \in {"open", "closed"} /\ dq[e][t] < DataCap
      <3>1. t \in Streams /\ dq[e][t] + 1 \in 0 .. DataCap
        BY <1>7, <1>8, <2>1
      <3> QED BY <1>4, <1>7, <2>1, <3>1
    <2>2. CASE ~(c /\ relay[e][t] \in {"open", "closed"} /\ dq[e][t] < DataCap)
      BY <1>4, <1>7, <2>2
    <2> QED BY <2>1, <2>2
  <1>13. finLost' \in [Ends -> [Streams -> BOOLEAN]]
    <2>1. CASE c
      <3>1. finLost' = [finLost EXCEPT ![e][t] = @ \/ Len(Tail(evq[e])) >= EvCap]
        BY <1>4, <2>1 DEF FinLost
      <3>2. PICK d \in BOOLEAN : d <=> (finLost[e][t] \/ Len(Tail(evq[e])) >= EvCap)
        OBVIOUS
      <3>3. finLost' = [finLost EXCEPT ![e] = [finLost[e] EXCEPT ![t] = finLost[e][t] \/ Len(Tail(evq[e])) >= EvCap]]
        BY <3>1
      <3>4. (finLost[e][t] \/ Len(Tail(evq[e])) >= EvCap) \in BOOLEAN
        OBVIOUS
      <3>5. [finLost[e] EXCEPT ![t] = finLost[e][t] \/ Len(Tail(evq[e])) >= EvCap] \in [Streams -> BOOLEAN]
        BY <1>7, <3>4, Zenon
      <3> QED BY <1>7, <3>3, <3>5, OneEnd
    <2>2. CASE ~c
      BY <1>4, <1>7, <2>2
    <2> QED BY <2>1, <2>2
  <1>14. /\ credit' = credit /\ unreported' = unreported /\ scope' = scope /\ retired' = retired /\ pings' = pings
         /\ due' = due /\ owed' = owed /\ life' = life
    BY <1>0, <1>4 DEF counts
  <1>15. TableTypes'
    BY <1>1, <1>10, <1>11, <1>12, <1>13, <1>14 DEF TableTypes
  <1>16. LifeKept' /\ (Running' => Running)
    BY <1>1, <1>14 DEF LifeKept, Running
  <1> HIDE DEF f
  <1>17. /\ Pings \in Blind /\ Pings[f] = 0
         /\ \A s : /\ Data(s) \in Blind /\ Wins(s) \in Blind /\ Fins(s) \in Blind
                   /\ Data(s)[f] = 0 /\ Wins(s)[f] = 0
    BY <1>2, TheWeights, EventWeights
  <1>18. c => /\ Pings[Local("FIN", t)] = 0
              /\ \A s : /\ Data(s)[Local("FIN", t)] = 0 /\ Wins(s)[Local("FIN", t)] = 0
                        /\ Fins(s)[Local("FIN", t)] = IF s = t THEN 1 ELSE 0
    <2>1. SUFFICES ASSUME t \in Streams
                   PROVE  /\ Pings[Local("FIN", t)] = 0
                          /\ \A s : /\ Data(s)[Local("FIN", t)] = 0 /\ Wins(s)[Local("FIN", t)] = 0
                                    /\ Fins(s)[Local("FIN", t)] = IF s = t THEN 1 ELSE 0
      BY <1>8
    <2>2. PICK g \in Event : g = Local("FIN", t) /\ g.k = "FIN" /\ g.s = t
      BY <2>1, EventsMade, EventSets
    <2>3. /\ Pings[g] = 0
          /\ \A s : Data(s)[g] = 0 /\ Wins(s)[g] = 0 /\ Fins(s)[g] = IF s = t THEN 1 ELSE 0
      BY <2>2, EventWeights
    <2> QED BY <2>2, <2>3
  <1>19. ASSUME NEW x \in Ends, NEW w \in Blind, w[f] = 0, c => w[Local("FIN", t)] = 0
         PROVE  Way(x, w)' = Way(x, w) /\ Way(x, w) \in Nat
    <2>1. Way(x, w) \in Nat
      BY <1>1, WayType
    <2>2. Way(e, w)' = Way(e, w) + (IF c THEN w[Local("FIN", t)] ELSE 0) /\ Way(o, w)' + (IF b THEN w[f] ELSE 0) = Way(o, w)
          /\ Way(o, w)' \in Nat
      BY <1>9
    <2>3. (IF c THEN w[Local("FIN", t)] ELSE 0) = 0 /\ (IF b THEN w[f] ELSE 0) = 0
      BY <1>19
    <2>4. Way(e, w)' = Way(e, w) + 0 /\ Way(o, w)' + 0 = Way(o, w)
      BY <2>2, <2>3
    <2>5. CASE x = e
      BY <2>1, <2>4, <2>5
    <2>6. CASE x = o
      BY <2>1, <2>2, <2>4, <2>6
    <2> QED BY <2>5, <2>6, OtherEnd
  <1>20. PingsKept'
    <2>1. "client" \in Ends /\ "server" \in Ends
      BY DEF Ends
    <2>2. /\ Way("client", Pings)' = Way("client", Pings) /\ Way("server", Pings)' = Way("server", Pings)
          /\ Way("client", Pings) \in Nat /\ Way("server", Pings) \in Nat
      BY <1>17, <1>18, <1>19, <2>1
    <2> QED BY <1>1, <1>9, <1>14, <2>2, PingsStay
  <1>21. Closing = {} /\ Running => t \notin Streams
    <2>1. SUFFICES ASSUME Closing = {}, Running, t \in Streams PROVE FALSE
      OBVIOUS
    <2>2. Fins(t)[f] = 1
      BY <1>2, EventWeights DEF f
    <2>3. PICK z \in Ends : 1 <= Way(z, Fins(t))
      <3>1. CASE b
        BY <1>1, <1>2, <1>17, <2>2, <3>1, HeadOnWay, OtherEnd DEF f
      <3>2. CASE ~b
        BY <1>1, <1>2, <1>17, <2>2, <3>2, HeadOnWay DEF f
      <3> QED BY <3>1, <3>2
    <2>4. Way(z, Fins(t)) <= Made(z, t) /\ relay[z][t] = "open" /\ t \in streams[z]
      BY <1>1, <2>1 DEF FinsKept
    <2>5. Made(z, t) = 0 /\ Way(z, Fins(t)) \in Nat
      BY <1>1, <2>1, <2>4, Entries DEF Made
    <2> QED BY <2>3, <2>4, <2>5
  <1>22. ASSUME NEW x \in Ends, NEW s \in Streams
         PROVE  WindowKept(x, s)' /\ OwedKept(x, s)' /\ FinsKept(x, s)'
    <2>1. /\ Other(x) \in Ends /\ Way(Other(x), Wins(s))' = Way(Other(x), Wins(s)) /\ Way(Other(x), Wins(s)) \in Nat
          /\ Way(x, Data(s))' = Way(x, Data(s)) /\ Way(x, Data(s)) \in Nat
      BY <1>17, <1>18, <1>19, OtherEnd
    <2>2. unreported[Other(x)][s] \in Nat /\ dq[Other(x)][s] \in Nat /\ Unread(Other(x), s) \in Nat
      BY <1>1, <2>1, Entries
    <2>3. Unread(Other(x), s)' \in Nat /\ Unread(Other(x), s)' <= Unread(Other(x), s)
      <3>1. CASE c /\ Other(x) = e /\ s = t
        <4>1. relay'[Other(x)][s] # "open"
          BY <1>11, <2>1, <3>1
        <4> QED BY <2>2, <4>1 DEF Unread
      <3>2. CASE ~(c /\ Other(x) = e /\ s = t)
        <4>1. relay'[Other(x)][s] = relay[Other(x)][s] /\ dq'[Other(x)][s] = dq[Other(x)][s]
          BY <1>11, <1>12, <2>1, <3>2
        <4>2. Unread(Other(x), s)' = Unread(Other(x), s)
          BY <4>1 DEF Unread
        <4> QED BY <2>2, <4>2
      <3> QED BY <3>1, <3>2
    <2>4. WindowKept(x, s)'
      BY <1>1, <1>14, <2>1, <2>2, <2>3, WindowStays
    <2>5. OwedKept(x, s)'
      <3>1. relay'[Other(x)][s] = "open" => relay[Other(x)][s] = "open"
        BY <1>11, <2>1
      <3> QED BY <1>1, <1>14, <2>1, <3>1, OwedStays
    <2>6. CASE x = o
      <3>1. Way(x, Fins(s))' \in Nat /\ Way(x, Fins(s))' <= Way(x, Fins(s))
        <4>1. Way(o, Fins(s))' \in Nat /\ Way(o, Fins(s))' + (IF b THEN Fins(s)[f] ELSE 0) = Way(o, Fins(s))
          BY <1>9, <1>17
        <4>2. Fins(s)[f] \in Nat
          BY <1>2, EventWeights
        <4>3. PICK d \in Nat : Way(o, Fins(s))' + d = Way(o, Fins(s))
          BY <4>1, <4>2
        <4> QED BY <2>6, <4>1, <4>3
      <3>2. relay'[x][s] = relay[x][s] /\ streams'[x] = streams[x]
        BY <1>10, <1>11, <2>6, OtherEnd
      <3>3. FinsKept(x, s)'
        BY <1>1, <1>14, <1>16, <3>1, <3>2, FinsStay
      <3> QED BY <2>4, <2>5, <3>3
    <2>7. CASE x = e
      <3>1. Way(x, Fins(s)) \in Nat /\ Made(x, s) \in Nat /\ Way(x, Fins(s)) <= Made(x, s)
        BY <1>1, Entries DEF FinsKept
      <3>2. Way(x, Fins(s))' = Way(x, Fins(s)) + (IF c /\ s = t THEN 1 ELSE 0)
        <4>1. Way(x, Fins(s))' = Way(x, Fins(s)) + (IF c THEN Fins(s)[Local("FIN", t)] ELSE 0)
          BY <1>9, <1>17, <2>7
        <4>2. (IF c THEN Fins(s)[Local("FIN", t)] ELSE 0) = IF c /\ s = t THEN 1 ELSE 0
          BY <1>18
        <4> QED BY <4>1, <4>2
      <3>3. Made(x, s)' = Made(x, s) + (IF c /\ s = t THEN 1 ELSE 0)
        <4>1. relay'[x][s] = "over" <=> relay[x][s] = "over"
          BY <1>11, <2>7
        <4>2. s \in streams'[x] <=> s \in streams[x] /\ ~(c /\ s = t)
          BY <1>c, <1>10, <2>7
        <4>3. c /\ s = t => s \in streams[x]
          BY <1>c, <2>7
        <4> QED BY <4>1, <4>2, <4>3 DEF Made
      <3>4. Way(x, Fins(s))' <= Made(x, s)'
        BY <3>1, <3>2, <3>3
      <3>5. s \notin streams'[x] => relay'[x][s] # "open"
        BY <1>c, <1>1, <1>10, <1>11, <2>7 DEF FinsKept
      <3>6. Closing' = {} /\ Running' => relay'[x][s] = "open" /\ s \in streams'[x]
        <4>1. SUFFICES ASSUME Closing = {}, Running PROVE relay'[x][s] = "open" /\ s \in streams'[x]
          BY <1>14, <1>16 DEF Closing
        <4>2. s # t
          BY <1>21, <4>1
        <4>3. relay[x][s] = "open" /\ s \in streams[x]
          BY <1>1, <4>1 DEF FinsKept
        <4> QED BY <1>10, <1>11, <2>7, <4>2, <4>3
      <3>7. FinsKept(x, s)'
        BY <3>4, <3>5, <3>6 DEF FinsKept
      <3> QED BY <2>4, <2>5, <3>7
    <2> QED BY <2>6, <2>7, OtherEnd
  <1> QED BY <1>9, <1>15, <1>16, <1>20, <1>22 DEF PairInv

\* handle_event takes a FIN of either end.
LEMMA FinKeeps ==
  ASSUME PairInv, NEW e \in Ends, NEW b \in BOOLEAN, EvFin(e, b)
  PROVE  PairInv'
  <1>1. PICK t : t = Head(evq[e]).s
    OBVIOUS
  <1>2. CASE e = "client" /\ retired /\ streams[e] \ {t} = {}
    <2>1. Break(e) /\ UNCHANGED <<dq, finLost>> /\ UNCHANGED <<vbuf, net, credit, unreported, counts>>
      BY <1>1, <1>2 DEF EvFin
    <2> QED BY <1>2, <2>1, BreakKeeps
  <1>3. CASE ~(e = "client" /\ retired /\ streams[e] \ {t} = {})
    BY <1>1, <1>3, FinTableKeeps
  <1> QED BY <1>2, <1>3

-----------------------------------------------------------------------------
(* The relays and the routine.                                              *)

\* An event is queued that is not a ROUTINE, or one that is.
LEMMA PushedWaiting ==
  ASSUME QueueTypes, NEW e \in Ends, NEW ev \in Event, evq' = [evq EXCEPT ![e] = Append(@, ev)]
  PROVE  Waiting' \in Nat /\ Waiting \in Nat /\ Waiting' = Waiting + (IF e = "client" THEN Routines[ev] ELSE 0)
  <1>1. evq \in [Ends -> Seq(Proper)] /\ evq[e] \in Seq(Event) /\ Waiting \in Nat
    BY EndQueues, WaitingType DEF QueueTypes
  <1>2. Routines[ev] \in Nat
    BY TheWeights DEF Weights
  <1>3. CASE e = "client"
    <2>1. evq'["client"] = Append(evq["client"], ev)
      BY <1>1, <1>3
    <2>2. Weight(Append(evq["client"], ev), Routines) = Weight(evq["client"], Routines) + Routines[ev]
      BY <1>1, <1>3, TheWeights, WeightAppend
    <2>3. Waiting' = Waiting + Routines[ev]
      BY <2>1, <2>2 DEF Waiting
    <2> HIDE DEF Waiting
    <2> QED BY <1>1, <1>2, <1>3, <2>3
  <1>4. CASE e # "client"
    <2>1. evq'["client"] = evq["client"]
      BY <1>1, <1>4
    <2>2. Waiting' = Waiting
      BY <2>1 DEF Waiting
    <2> QED BY <1>1, <1>4, <2>2
  <1> QED BY <1>3, <1>4

\* poll_write of a stream.
LEMMA WriteKeeps ==
  ASSUME PairInv, NEW e \in Ends, NEW t \in Streams, AppWrite(e, t)
  PROVE  PairInv'
  <1> DEFINE ev == Local("DATA", t)
             o == Other(e)
  <1>0. /\ credit[e][t] >= 0 /\ Len(evq[e]) < EvCap /\ e \in Writers
        /\ evq' = [evq EXCEPT ![e] = Append(@, ev)]
        /\ credit' = [credit EXCEPT ![e][t] = @ - 1]
        /\ owed' = [owed EXCEPT ![e][t] = @ + 1]
        /\ UNCHANGED <<epc, eheld, sendq, vbuf, net, rheld>>
        /\ streams' = streams /\ relay' = relay /\ dq' = dq /\ unreported' = unreported /\ life' = life
        /\ scope' = scope /\ retired' = retired /\ pings' = pings /\ due' = due /\ finLost' = finLost
    BY DEF AppWrite, MayWrite, EvRoom
  <1>1. /\ TableTypes /\ QueueTypes /\ LifeKept /\ PingsKept
        /\ \A x \in Ends, s \in Streams : WindowKept(x, s) /\ OwedKept(x, s) /\ FinsKept(x, s)
    BY DEF PairInv
  <1>2. ev \in Proper /\ ev \in Event /\ ev \in Wire /\ ~ev.remote /\ ev.k = "DATA" /\ ev.s = t
    BY EventsMade, EventSets
  <1> HIDE DEF ev
  <1>3. /\ QueueTypes'
        /\ \A w \in Blind : Way(e, w)' = Way(e, w) + w[ev] /\ Way(o, w)' = Way(o, w)
    BY <1>0, <1>1, <1>2, Pushed
  <1>4. \A s : /\ Data(s) \in Blind /\ Wins(s) \in Blind /\ Fins(s) \in Blind
               /\ Wins(s)[ev] = 0 /\ Fins(s)[ev] = 0 /\ Data(s)[ev] = IF s = t THEN 1 ELSE 0
    BY <1>2, TheWeights, EventWeights
  <1>5. Pings \in Blind /\ Pings[ev] = 0 /\ Routines[ev] = 0
    BY <1>2, TheWeights, EventWeights
  <1>6. ASSUME NEW x \in Ends, NEW w \in Blind
        PROVE  Way(x, w) \in Nat /\ (w[ev] = 0 \/ x # e => Way(x, w)' = Way(x, w)) /\ (x = e => Way(x, w)' = Way(x, w) + w[ev])
    <2>1. Way(x, w) \in Nat
      BY <1>1, WayType
    <2>2. CASE x = e
      BY <1>3, <2>1, <2>2
    <2>3. CASE x = o
      BY <1>3, <2>1, <2>3, OtherEnd
    <2> QED BY <2>2, <2>3, OtherEnd
  <1>7. credit \in [Ends -> [Streams -> Int]] /\ owed \in [Ends -> [Streams -> Nat]]
    BY <1>1 DEF TableTypes
  <1>8. /\ credit' \in [Ends -> [Streams -> Int]] /\ owed' \in [Ends -> [Streams -> Nat]]
        /\ \A x \in Ends, s \in Streams :
             /\ credit'[x][s] = IF x = e /\ s = t THEN credit[x][s] - 1 ELSE credit[x][s]
             /\ owed'[x][s] = IF x = e /\ s = t THEN owed[x][s] + 1 ELSE owed[x][s]
    BY <1>0, <1>7
  <1>9. TableTypes'
    BY <1>0, <1>1, <1>8 DEF TableTypes
  <1>10. LifeKept' /\ (Running' => Running)
    BY <1>0, <1>1 DEF LifeKept, Running
  <1>11. PingsKept'
    <2>1. "client" \in Ends /\ "server" \in Ends
      BY DEF Ends
    <2>2. /\ Way("client", Pings)' = Way("client", Pings) /\ Way("server", Pings)' = Way("server", Pings)
          /\ Way("client", Pings) \in Nat /\ Way("server", Pings) \in Nat
      BY <1>5, <1>6, <2>1
    <2>3. Waiting' \in Nat /\ Waiting' <= Waiting
      <3>1. Waiting' \in Nat /\ Waiting \in Nat /\ Waiting' = Waiting + (IF e = "client" THEN Routines[ev] ELSE 0)
        BY <1>0, <1>1, <1>2, PushedWaiting
      <3> QED BY <1>5, <3>1
    <2> QED BY <1>0, <1>1, <2>2, <2>3, PingsStay
  <1>12. ASSUME NEW x \in Ends, NEW s \in Streams
         PROVE  WindowKept(x, s)' /\ OwedKept(x, s)' /\ FinsKept(x, s)'
    <2>1. /\ Other(x) \in Ends /\ Way(Other(x), Wins(s))' = Way(Other(x), Wins(s)) /\ Way(Other(x), Wins(s)) \in Nat
          /\ Unread(Other(x), s)' = Unread(Other(x), s)
          /\ Way(x, Fins(s))' = Way(x, Fins(s)) /\ Way(x, Fins(s)) \in Nat
      BY <1>0, <1>4, <1>6, OtherEnd DEF Unread
    <2>2. /\ Unread(Other(x), s) \in Nat /\ unreported[Other(x)][s] \in Nat
          /\ credit[x][s] \in Int /\ owed[x][s] \in Nat /\ Window \in Nat /\ Way(x, Data(s)) \in Nat
      BY <1>1, <2>1, Entries
    <2>3. FinsKept(x, s)'
      BY <1>0, <1>1, <1>10, <2>1, FinsStay
    <2>4. CASE x = e /\ s = t
      <3>1. credit'[x][s] = credit[x][s] - 1 /\ owed'[x][s] = owed[x][s] + 1 /\ Way(x, Data(s))' = Way(x, Data(s)) + 1
        BY <1>4, <1>6, <1>8, <2>4
      <3>2. WindowKept(x, s)'
        <4>1. Spent(x, s) = credit[x][s] + owed[x][s] + Unread(Other(x), s) + unreported[Other(x)][s] + Way(Other(x), Wins(s))
          BY DEF Spent
        <4>2. Spent(x, s)' = (credit[x][s] - 1) + (owed[x][s] + 1) + Unread(Other(x), s) + unreported[Other(x)][s]
                             + Way(Other(x), Wins(s))
          BY <1>0, <2>1, <3>1 DEF Spent
        <4>3. Spent(x, s)' = Spent(x, s)
          BY <2>1, <2>2, <4>1, <4>2
        <4>4. Window' = Window /\ Writers' = Writers /\ x \in Writers
          BY <1>0, <2>4 DEF Window, Writers
        <4>5. credit[x][s] >= 0 /\ Spent(x, s) <= Window
          BY <1>0, <1>1, <2>4 DEF WindowKept
        <4>6. credit'[x][s] >= -1
          BY <2>2, <3>1, <4>5
        <4> QED BY <4>3, <4>4, <4>5, <4>6 DEF WindowKept
      <3>3. OwedKept(x, s)'
        <4>1. Way(x, Data(s)) <= owed[x][s] => Way(x, Data(s))' <= owed'[x][s]
          BY <2>2, <3>1
        <4>2. owed[x][s] = Way(x, Data(s)) => owed'[x][s] = Way(x, Data(s))'
          BY <3>1
        <4> QED BY <1>0, <1>1, <4>1, <4>2 DEF OwedKept
      <3> QED BY <2>3, <3>2, <3>3
    <2>5. CASE ~(x = e /\ s = t)
      <3>1. credit'[x][s] = credit[x][s] /\ owed'[x][s] = owed[x][s] /\ Way(x, Data(s))' = Way(x, Data(s))
        BY <1>4, <1>6, <1>8, <2>5
      <3>2. WindowKept(x, s)'
        BY <1>0, <1>1, <2>1, <2>2, <3>1, WindowStays
      <3>3. OwedKept(x, s)'
        BY <1>0, <1>1, <2>2, <3>1, OwedStays
      <3> QED BY <2>3, <3>2, <3>3
    <2> QED BY <2>4, <2>5
  <1> QED BY <1>3, <1>9, <1>10, <1>11, <1>12 DEF PairInv

\* The queues stay.
LEMMA SameQueues ==
  ASSUME QueueTypes, UNCHANGED <<evq, epc, eheld, sendq, vbuf, net, rheld>>
  PROVE  /\ QueueTypes' /\ Waiting' = Waiting /\ Waiting \in Nat
         /\ \A x \in Ends, w \in Blind : Way(x, w)' = Way(x, w) /\ Way(x, w) \in Nat
  <1>1. QueueTypes' /\ Waiting' = Waiting /\ Waiting \in Nat
    BY WaitingType DEF QueueTypes, Waiting
  <1>2. ASSUME NEW x \in Ends, NEW w \in Blind PROVE Way(x, w)' = Way(x, w) /\ Way(x, w) \in Nat
    BY WayType DEF Way, Sending, Coming
  <1> QED BY <1>1, <1>2

\* poll_read of a stream, and the report of its window.
LEMMA ReadKeeps ==
  ASSUME PairInv, NEW e \in Ends, NEW t \in Streams, AppRead(e, t)
  PROVE  PairInv'
  <1>n. PICK n : n = unreported[e][t] + 1
    OBVIOUS
  <1>d. PICK done \in BOOLEAN : done <=> n >= Report /\ (~(e = "client" /\ retired) => EvRoom(e))
    OBVIOUS
  <1>g. PICK g \in BOOLEAN : g <=> done /\ ~(e = "client" /\ retired)
    OBVIOUS
  <1> DEFINE ev == Ev("WIN", t, n, FALSE)
             o == Other(e)
  <1>0. /\ relay[e][t] = "open" /\ dq[e][t] > 0
        /\ dq' = [dq EXCEPT ![e][t] = @ - 1]
        /\ unreported' = [unreported EXCEPT ![e][t] = IF done THEN 0 ELSE n]
        /\ evq' = IF g THEN [evq EXCEPT ![e] = Append(@, ev)] ELSE evq
        /\ UNCHANGED <<epc, eheld, sendq, vbuf, net, rheld>>
        /\ streams' = streams /\ relay' = relay /\ credit' = credit /\ life' = life
        /\ scope' = scope /\ retired' = retired /\ pings' = pings /\ due' = due /\ owed' = owed /\ finLost' = finLost
    BY <1>n, <1>d, <1>g DEF AppRead, counts
  <1>1. /\ TableTypes /\ QueueTypes /\ LifeKept /\ PingsKept
        /\ \A x \in Ends, s \in Streams : WindowKept(x, s) /\ OwedKept(x, s) /\ FinsKept(x, s)
    BY DEF PairInv
  <1>2. unreported[e][t] \in Nat /\ n \in Nat \ {0} /\ n \in Nat
    <2>1. unreported[e][t] \in Nat
      BY <1>1, Entries
    <2> QED BY <1>n, <2>1
  <1>3. ev \in Proper /\ ev \in Event /\ ev \in Wire /\ ~ev.remote /\ ev.k = "WIN" /\ ev.s = t /\ ev.n = n
    <2>1. \A m \in Nat \ {0} : LET v == Ev("WIN", t, m, FALSE)
                              IN v \in Outgoing /\ v.k = "WIN" /\ v.s = t /\ v.n = m /\ ~v.remote
      BY EventsMade
    <2>2. ev \in Outgoing /\ ~ev.remote /\ ev.k = "WIN" /\ ev.s = t /\ ev.n = n
      BY <1>2, <2>1, Zenon
    <2> QED BY <2>2, EventSets
  <1> HIDE DEF ev
  <1>4. \A s : /\ Data(s) \in Blind /\ Wins(s) \in Blind /\ Fins(s) \in Blind
               /\ Data(s)[ev] = 0 /\ Fins(s)[ev] = 0 /\ Wins(s)[ev] = IF s = t THEN n ELSE 0
    BY <1>3, TheWeights, EventWeights
  <1>5. Pings \in Blind /\ Pings[ev] = 0 /\ Routines[ev] = 0
    BY <1>3, TheWeights, EventWeights
  <1>6. /\ QueueTypes' /\ Waiting' \in Nat /\ Waiting' <= Waiting
        /\ \A x \in Ends, w \in Blind :
             /\ Way(x, w) \in Nat
             /\ w[ev] = 0 \/ x # e => Way(x, w)' = Way(x, w)
             /\ x = e => Way(x, w)' = Way(x, w) + (IF g THEN w[ev] ELSE 0)
    <2>1. CASE g
      <3>0. evq' = [evq EXCEPT ![e] = Append(@, ev)] /\ Len(evq[e]) < EvCap
        BY <1>d, <1>g, <1>0, <2>1 DEF EvRoom
      <3>1. /\ QueueTypes'
            /\ \A w \in Blind : Way(e, w)' = Way(e, w) + w[ev] /\ Way(o, w)' = Way(o, w)
        BY <1>0, <1>1, <1>3, <3>0, Pushed
      <3>2. Waiting' \in Nat /\ Waiting' <= Waiting
        <4>1. Waiting' \in Nat /\ Waiting \in Nat /\ Waiting' = Waiting + (IF e = "client" THEN Routines[ev] ELSE 0)
          BY <1>1, <1>3, <3>0, PushedWaiting
        <4> QED BY <1>5, <4>1
      <3>3. ASSUME NEW x \in Ends, NEW w \in Blind
            PROVE  /\ Way(x, w) \in Nat
                   /\ w[ev] = 0 \/ x # e => Way(x, w)' = Way(x, w)
                   /\ x = e => Way(x, w)' = Way(x, w) + w[ev]
        <4>1. Way(x, w) \in Nat
          BY <1>1, WayType
        <4>2. CASE x = e
          BY <3>1, <4>1, <4>2
        <4>3. CASE x = o
          BY <3>1, <4>1, <4>3, OtherEnd
        <4> QED BY <4>2, <4>3, OtherEnd
      <3> QED BY <2>1, <3>1, <3>2, <3>3
    <2>2. CASE ~g
      <3>1. UNCHANGED <<evq, epc, eheld, sendq, vbuf, net, rheld>>
        BY <1>0, <2>2
      <3>2. /\ QueueTypes' /\ Waiting' = Waiting /\ Waiting \in Nat
            /\ \A x \in Ends, w \in Blind : Way(x, w)' = Way(x, w) /\ Way(x, w) \in Nat
        BY <1>1, <3>1, SameQueues
      <3>3. \A x \in Ends, w \in Blind : Way(x, w)' = Way(x, w) + 0
        BY <3>2
      <3>4. Waiting' \in Nat /\ Waiting' <= Waiting
        BY <3>2
      <3> QED BY <2>2, <3>2, <3>3, <3>4
    <2> QED BY <2>1, <2>2
  <1>7. /\ unreported \in [Ends -> [Streams -> Nat]] /\ dq \in [Ends -> [Streams -> 0 .. DataCap]] /\ DataCap \in Nat
    BY <1>1, PairAssumption DEF TableTypes
  <1>8. /\ unreported' \in [Ends -> [Streams -> Nat]]
        /\ \A x \in Ends, s \in Streams :
             unreported'[x][s] = IF x = e /\ s = t THEN IF done THEN 0 ELSE n ELSE unreported[x][s]
    BY <1>0, <1>2, <1>7
  <1>9. /\ dq' \in [Ends -> [Streams -> 0 .. DataCap]]
        /\ \A x \in Ends, s \in Streams : dq'[x][s] = IF x = e /\ s = t THEN dq[x][s] - 1 ELSE dq[x][s]
    <2>1. dq[e][t] - 1 \in 0 .. DataCap
      BY <1>0, <1>7
    <2> QED BY <1>0, <1>7, <2>1
  <1>10. TableTypes'
    BY <1>0, <1>1, <1>8, <1>9 DEF TableTypes
  <1>11. LifeKept' /\ (Running' => Running)
    BY <1>0, <1>1 DEF LifeKept, Running
  <1>12. PingsKept'
    <2>1. "client" \in Ends /\ "server" \in Ends
      BY DEF Ends
    <2>2. /\ Way("client", Pings)' = Way("client", Pings) /\ Way("server", Pings)' = Way("server", Pings)
          /\ Way("client", Pings) \in Nat /\ Way("server", Pings) \in Nat
      BY <1>5, <1>6, <2>1
    <2> QED BY <1>0, <1>1, <1>6, <2>2, PingsStay
  <1>13. ASSUME NEW x \in Ends, NEW s \in Streams
         PROVE  WindowKept(x, s)' /\ OwedKept(x, s)' /\ FinsKept(x, s)'
    <2>1. /\ Other(x) \in Ends /\ Way(Other(x), Wins(s)) \in Nat
          /\ Way(x, Fins(s))' = Way(x, Fins(s)) /\ Way(x, Fins(s)) \in Nat
          /\ Way(x, Data(s))' = Way(x, Data(s)) /\ Way(x, Data(s)) \in Nat
      BY <1>4, <1>6, OtherEnd
    <2>2. /\ Unread(Other(x), s) \in Nat /\ unreported[Other(x)][s] \in Nat /\ dq[Other(x)][s] \in Nat
          /\ credit[x][s] \in Int /\ owed[x][s] \in Nat /\ Window \in Nat
      BY <1>1, <2>1, Entries
    <2>3. FinsKept(x, s)'
      BY <1>0, <1>1, <1>11, <2>1, FinsStay
    <2>4. OwedKept(x, s)'
      BY <1>0, <1>1, <2>1, OwedStays
    <2>5. CASE Other(x) = e /\ s = t
      <3>1. /\ Unread(e, t) = dq[e][t] /\ Unread(e, t)' = dq[e][t] - 1 /\ dq[e][t] \in Nat /\ dq[e][t] - 1 \in Nat
        BY <1>0, <1>9, <2>2, <2>5 DEF Unread
      <3>2. unreported'[e][t] = (IF done THEN 0 ELSE n) /\ unreported[e][t] + 1 = n
        BY <1>n, <1>8
      <3>3. Way(e, Wins(t))' = Way(e, Wins(t)) + (IF g THEN n ELSE 0) /\ Way(e, Wins(t)) \in Nat
        BY <1>4, <1>6
      <3>4. g => done
        BY <1>g
      <3>5. /\ Unread(e, t)' \in Nat /\ unreported'[e][t] \in Nat /\ Way(e, Wins(t))' \in Nat
            /\ Unread(e, t)' + unreported'[e][t] + Way(e, Wins(t))' <= Unread(e, t) + unreported[e][t] + Way(e, Wins(t))
        <4>1. CASE g
          BY <1>2, <3>1, <3>2, <3>3, <3>4, <4>1
        <4>2. CASE ~g /\ done
          BY <1>2, <3>1, <3>2, <3>3, <4>2
        <4>3. CASE ~done
          BY <1>2, <3>1, <3>2, <3>3, <3>4, <4>3
        <4> QED BY <4>1, <4>2, <4>3
      <3>6. Spent(x, s) = credit[x][s] + owed[x][s] + Unread(e, t) + unreported[e][t] + Way(e, Wins(t))
        BY <2>5 DEF Spent
      <3>7. Spent(x, s)' = credit[x][s] + owed[x][s] + Unread(e, t)' + unreported'[e][t] + Way(e, Wins(t))'
        BY <1>0, <2>5 DEF Spent
      <3>8. \A i \in Int, j, k, m, p, k1, m1, p1 \in Nat :
              k1 + m1 + p1 <= k + m + p => /\ i + j + k1 + m1 + p1 <= i + j + k + m + p
                                           /\ i + j + k1 + m1 + p1 \in Int /\ i + j + k + m + p \in Int
        OBVIOUS
      <3>9. Spent(x, s)' <= Spent(x, s) /\ Spent(x, s) \in Int /\ Spent(x, s)' \in Int
        BY <1>2, <2>2, <3>1, <3>3, <3>5, <3>6, <3>7, <3>8
      <3>10. Window' = Window /\ Writers' = Writers
        BY <1>0 DEF Window, Writers
      <3>11. credit[x][s] >= -1 /\ Spent(x, s) <= Window /\ (x \notin Writers => credit[x][s] >= Window)
        BY <1>1 DEF WindowKept
      <3>12. Spent(x, s)' <= Window
        BY <2>2, <3>9, <3>11
      <3>13. WindowKept(x, s)'
        BY <1>0, <3>10, <3>11, <3>12 DEF WindowKept
      <3> QED BY <2>3, <2>4, <3>13
    <2>6. CASE ~(Other(x) = e /\ s = t)
      <3>1. unreported'[Other(x)][s] = unreported[Other(x)][s] /\ Unread(Other(x), s)' = Unread(Other(x), s)
        BY <1>0, <1>8, <1>9, <2>1, <2>6 DEF Unread
      <3>2. Way(Other(x), Wins(s))' = Way(Other(x), Wins(s))
        BY <1>4, <1>6, <2>1, <2>6
      <3>3. WindowKept(x, s)'
        BY <1>0, <1>1, <2>1, <2>2, <3>1, <3>2, WindowStays
      <3> QED BY <2>3, <2>4, <3>3
    <2> QED BY <2>5, <2>6
  <1> QED BY <1>6, <1>10, <1>11, <1>12, <1>13 DEF PairInv

\* A relay closes; perhaps a FIN is queued for it.
LEMMA RelayKeeps ==
  ASSUME PairInv, NEW e \in Ends, NEW t \in Streams, NEW to \in {"closed", "deaf", "over"}, NEW n \in {0, 1},
         relay' = [relay EXCEPT ![e][t] = to], relay[e][t] # "over", n = 1 => to = "over",
         e \in Closing \/ relay[e][t] # "open",
         streams' = streams, dq' = dq, credit' = credit, unreported' = unreported, life' = life,
         UNCHANGED counts, finLost' \in [Ends -> [Streams -> BOOLEAN]],
         QueueTypes', Waiting' \in Nat, Waiting' <= Waiting,
         \A x \in Ends, w \in Blind :
            Way(x, w)' = Way(x, w) + (IF x = e /\ n = 1 THEN w[Local("FIN", t)] ELSE 0)
  PROVE  PairInv'
  <1> DEFINE ev == Local("FIN", t)
  <1>0. scope' = scope /\ retired' = retired /\ pings' = pings /\ due' = due /\ owed' = owed
    BY DEF counts
  <1>1. /\ TableTypes /\ QueueTypes /\ LifeKept /\ PingsKept
        /\ \A x \in Ends, s \in Streams : WindowKept(x, s) /\ OwedKept(x, s) /\ FinsKept(x, s)
    BY DEF PairInv
  <1>2. ev \in Event /\ ev.k = "FIN" /\ ev.s = t
    BY EventsMade, EventSets
  <1>3. \A x \in Ends, w \in Blind : Way(x, w)' = Way(x, w) + (IF x = e /\ n = 1 THEN w[ev] ELSE 0)
    OBVIOUS
  <1> HIDE DEF ev
  <1>4. /\ Pings \in Blind /\ Pings[ev] = 0
        /\ \A s : /\ Data(s) \in Blind /\ Wins(s) \in Blind /\ Fins(s) \in Blind
                  /\ Data(s)[ev] = 0 /\ Wins(s)[ev] = 0 /\ Fins(s)[ev] = IF s = t THEN 1 ELSE 0
    BY <1>2, TheWeights, EventWeights
  <1>5. ASSUME NEW x \in Ends, NEW w \in Blind, w[ev] = 0 PROVE Way(x, w)' = Way(x, w) /\ Way(x, w) \in Nat
    <2>1. Way(x, w) \in Nat
      BY <1>1, WayType
    <2>2. Way(x, w)' = Way(x, w) + 0
      BY <1>3, <1>5
    <2> QED BY <2>1, <2>2
  <1>6. relay \in [Ends -> [Streams -> {"open", "closed", "deaf", "over"}]]
    BY <1>1 DEF TableTypes
  <1>7. /\ relay' \in [Ends -> [Streams -> {"open", "closed", "deaf", "over"}]]
        /\ \A x \in Ends, s \in Streams : relay'[x][s] = IF x = e /\ s = t THEN to ELSE relay[x][s]
    BY <1>6
  <1>8. TableTypes'
    BY <1>0, <1>1, <1>7 DEF TableTypes
  <1>9. LifeKept' /\ (Running' => Running)
    BY <1>0, <1>1 DEF LifeKept, Running
  <1>10. PingsKept'
    <2>1. "client" \in Ends /\ "server" \in Ends
      BY DEF Ends
    <2>2. /\ Way("client", Pings)' = Way("client", Pings) /\ Way("server", Pings)' = Way("server", Pings)
          /\ Way("client", Pings) \in Nat /\ Way("server", Pings) \in Nat
      BY <1>4, <1>5, <2>1
    <2> QED BY <1>0, <1>1, <2>2, PingsStay
  <1>11. ASSUME NEW x \in Ends, NEW s \in Streams
         PROVE  WindowKept(x, s)' /\ OwedKept(x, s)' /\ FinsKept(x, s)'
    <2>1. /\ Other(x) \in Ends /\ Way(Other(x), Wins(s)) \in Nat /\ Way(Other(x), Wins(s))' = Way(Other(x), Wins(s))
          /\ Way(x, Data(s))' = Way(x, Data(s)) /\ Way(x, Data(s)) \in Nat
      BY <1>4, <1>5, OtherEnd
    <2>2. unreported[Other(x)][s] \in Nat /\ dq[Other(x)][s] \in Nat
      BY <1>1, <2>1, Entries
    <2>3. Unread(Other(x), s)' \in Nat /\ Unread(Other(x), s)' <= Unread(Other(x), s)
      BY <1>7, <2>1, <2>2 DEF Unread
    <2>4. WindowKept(x, s)'
      BY <1>0, <1>1, <2>1, <2>2, <2>3, WindowStays
    <2>5. OwedKept(x, s)'
      <3>1. relay'[Other(x)][s] = "open" => relay[Other(x)][s] = "open"
        BY <1>7, <2>1
      <3> QED BY <1>0, <1>1, <2>1, <3>1, OwedStays
    <2>6. FinsKept(x, s)'
      <3>1. Way(x, Fins(s)) \in Nat /\ Made(x, s) \in Nat /\ Way(x, Fins(s)) <= Made(x, s)
        BY <1>1, Entries DEF FinsKept
      <3>2. CASE x = e /\ s = t
        <4>1. Way(x, Fins(s))' = Way(x, Fins(s)) + n
          BY <1>3, <1>4, <3>2
        <4>2. Made(x, s)' = Made(x, s) + (IF to = "over" THEN 1 ELSE 0)
          BY <1>7, <3>2 DEF Made
        <4>3. Way(x, Fins(s))' <= Made(x, s)'
          BY <3>1, <4>1, <4>2
        <4>4. relay'[x][s] # "open"
          BY <1>7, <3>2
        <4>5. ~(Closing = {} /\ Running)
          BY <1>1, <3>2 DEF FinsKept
        <4>6. Closing' = Closing
          BY <1>0 DEF Closing
        <4> QED BY <1>9, <4>3, <4>4, <4>5, <4>6 DEF FinsKept
      <3>3. CASE ~(x = e /\ s = t)
        <4>1. Way(x, Fins(s))' = Way(x, Fins(s)) + (IF x = e /\ n = 1 THEN Fins(s)[ev] ELSE 0)
          BY <1>3, <1>4
        <4>2. (IF x = e /\ n = 1 THEN Fins(s)[ev] ELSE 0) = 0
          BY <1>4, <3>3
        <4>3. Way(x, Fins(s))' = Way(x, Fins(s))
          BY <3>1, <4>1, <4>2
        <4>4. relay'[x][s] = relay[x][s]
          BY <1>7, <3>3
        <4> QED BY <1>0, <1>1, <1>9, <3>1, <4>3, <4>4, FinsStay
      <3> QED BY <3>2, <3>3
    <2> QED BY <2>4, <2>5, <2>6
  <1> QED BY <1>8, <1>9, <1>10, <1>11 DEF PairInv

\* poll_shutdown, and poll_read of a closed stream.
LEMMA CloseKeeps ==
  ASSUME PairInv, NEW e \in Ends, NEW t \in Streams, AppShutdown(e, t) \/ AppReadClosed(e, t)
  PROVE  PairInv'
  <1>1. QueueTypes /\ finLost \in [Ends -> [Streams -> BOOLEAN]]
    BY DEF PairInv, TableTypes
  <1>2. PICK to \in {"closed", "deaf"} : relay' = [relay EXCEPT ![e][t] = to]
    BY DEF AppShutdown, AppReadClosed
  <1>3. /\ relay[e][t] # "over"
        /\ e \in Closing \/ relay[e][t] # "open"
        /\ UNCHANGED <<evq, epc, eheld, sendq, vbuf, net, rheld>>
        /\ streams' = streams /\ dq' = dq /\ credit' = credit /\ unreported' = unreported /\ life' = life
        /\ UNCHANGED counts /\ finLost' = finLost
    BY DEF AppShutdown, AppReadClosed, queues
  <1>4. /\ QueueTypes' /\ Waiting' = Waiting /\ Waiting \in Nat
        /\ \A x \in Ends, w \in Blind : Way(x, w)' = Way(x, w) /\ Way(x, w) \in Nat
    BY <1>1, <1>3, SameQueues
  <1>5. \A x \in Ends, w \in Blind : Way(x, w)' = Way(x, w) + (IF x = e /\ 0 = 1 THEN w[Local("FIN", t)] ELSE 0)
    BY <1>4
  <1>6. Waiting' \in Nat /\ Waiting' <= Waiting /\ 0 \in {0, 1} /\ 0 # 1 /\ to \in {"closed", "deaf", "over"}
    BY <1>4
  <1> QED BY <1>1, <1>2, <1>3, <1>4, <1>5, <1>6, RelayKeeps

\* close() of a stream.
LEMMA EndKeeps ==
  ASSUME PairInv, NEW e \in Ends, NEW t \in Streams, AppEnds(e, t)
  PROVE  PairInv'
  <1> DEFINE ev == Local("FIN", t)
  <1>1. QueueTypes /\ finLost \in [Ends -> [Streams -> BOOLEAN]]
    BY DEF PairInv, TableTypes
  <1>2. /\ relay[e][t] = "deaf" /\ relay' = [relay EXCEPT ![e][t] = "over"]
        /\ UNCHANGED <<epc, eheld, sendq, vbuf, net, rheld>>
        /\ streams' = streams /\ dq' = dq /\ credit' = credit /\ unreported' = unreported /\ life' = life
        /\ UNCHANGED counts
        /\ IF life[e] = "run"
           THEN evq' = [evq EXCEPT ![e] = Fin(e, t, evq[e])] /\ finLost' = FinLost(e, t, evq[e])
           ELSE UNCHANGED <<evq, finLost>>
    BY DEF AppEnds
  <1>3. finLost' \in [Ends -> [Streams -> BOOLEAN]]
    <2>1. CASE life[e] = "run"
      <3>1. finLost' = [finLost EXCEPT ![e] = [finLost[e] EXCEPT ![t] = finLost[e][t] \/ Len(evq[e]) >= EvCap]]
        BY <1>2, <2>1 DEF FinLost
      <3>2. [finLost[e] EXCEPT ![t] = finLost[e][t] \/ Len(evq[e]) >= EvCap] \in [Streams -> BOOLEAN]
        <4>1. (finLost[e][t] \/ Len(evq[e]) >= EvCap) \in BOOLEAN
          OBVIOUS
        <4> QED BY <1>1, <4>1, Zenon
      <3> QED BY <1>1, <3>1, <3>2, OneEnd
    <2>2. CASE life[e] # "run"
      BY <1>1, <1>2, <2>2
    <2> QED BY <2>1, <2>2
  <1>4. PICK n \in {0, 1} : n = IF life[e] = "run" /\ Len(evq[e]) < EvCap THEN 1 ELSE 0
    OBVIOUS
  <1>5. ev \in Wire /\ ev \in Proper /\ ev \in Event /\ ~ev.remote /\ ev.k = "FIN"
    BY EventsMade, EventSets
  <1>6. Routines[ev] = 0
    BY <1>5, EventWeights
  <1>7. /\ QueueTypes' /\ Waiting' \in Nat /\ Waiting' <= Waiting
        /\ \A x \in Ends, w \in Blind :
             Way(x, w)' = Way(x, w) + (IF x = e /\ n = 1 THEN w[ev] ELSE 0)
    <2>1. CASE n = 1
      <3>1. evq' = [evq EXCEPT ![e] = Append(@, ev)] /\ Len(evq[e]) < EvCap
        BY <1>2, <1>4, <2>1 DEF Fin
      <3> HIDE DEF ev
      <3>2. /\ QueueTypes'
            /\ \A w \in Blind : Way(e, w)' = Way(e, w) + w[ev] /\ Way(Other(e), w)' = Way(Other(e), w)
        BY <1>1, <1>2, <1>5, <3>1, Pushed
      <3>3. Waiting' \in Nat /\ Waiting' <= Waiting
        <4>1. Waiting' \in Nat /\ Waiting \in Nat /\ Waiting' = Waiting + (IF e = "client" THEN Routines[ev] ELSE 0)
          BY <1>1, <1>5, <3>1, PushedWaiting
        <4> QED BY <1>6, <4>1
      <3>4. ASSUME NEW x \in Ends, NEW w \in Blind
            PROVE  Way(x, w)' = Way(x, w) + (IF x = e /\ n = 1 THEN w[ev] ELSE 0)
        <4>1. CASE x = e
          BY <2>1, <3>2, <4>1
        <4>2. CASE x = Other(e)
          <5>1. x # e /\ Way(x, w)' = Way(x, w) /\ Way(x, w) \in Nat
            BY <1>1, <3>2, <4>2, OtherEnd, WayType
          <5> QED BY <5>1
        <4> QED BY <4>1, <4>2, OtherEnd
      <3> QED BY <3>2, <3>3, <3>4
    <2>2. CASE n # 1
      <3>1. evq' = evq
        <4>1. CASE life[e] # "run"
          BY <1>2, <4>1
        <4>2. CASE life[e] = "run"
          <5>1. Fin(e, t, evq[e]) = evq[e]
            BY <1>4, <2>2, <4>2 DEF Fin
          <5>2. evq \in [Ends -> Seq(Proper)]
            BY <1>1 DEF QueueTypes
          <5> QED BY <1>2, <4>2, <5>1, <5>2
        <4> QED BY <4>1, <4>2
      <3>2. /\ QueueTypes' /\ Waiting' = Waiting /\ Waiting \in Nat
            /\ \A x \in Ends, w \in Blind : Way(x, w)' = Way(x, w) /\ Way(x, w) \in Nat
        BY <1>1, <1>2, <3>1, SameQueues
      <3>3. \A x \in Ends, w \in Blind : Way(x, w)' = Way(x, w) + 0
        BY <3>2
      <3>4. Waiting' \in Nat /\ Waiting' <= Waiting
        BY <3>2
      <3> QED BY <2>2, <3>2, <3>3, <3>4
    <2> QED BY <2>1, <2>2
  <1>8. n = 1 => "over" = "over"
    OBVIOUS
  <1> QED BY <1>2, <1>3, <1>7, RelayKeeps

\* Nothing but what the routine keeps has changed.
LEMMA RoutineTables ==
  ASSUME PairInv, QueueTypes', PingsKept', UNCHANGED <<tables, life, scope, owed, finLost>>,
         retired' \in BOOLEAN, retired => retired', retired' => scope.retires,
         pings' \in 0 .. scope.pings, due' \in {<<>>, <<"ROUTINE">>, <<"PING", "ROUTINE">>},
         \A x \in Ends, s \in Streams :
            /\ Way(x, Wins(s))' = Way(x, Wins(s)) /\ Way(x, Fins(s))' = Way(x, Fins(s))
            /\ Way(x, Data(s))' = Way(x, Data(s))
  PROVE  PairInv'
  <1>1. /\ TableTypes /\ QueueTypes /\ LifeKept /\ PingsKept
        /\ \A x \in Ends, s \in Streams : WindowKept(x, s) /\ OwedKept(x, s) /\ FinsKept(x, s)
    BY DEF PairInv
  <1>2. /\ streams' = streams /\ relay' = relay /\ dq' = dq /\ credit' = credit /\ unreported' = unreported
        /\ life' = life /\ scope' = scope /\ owed' = owed /\ finLost' = finLost
    BY DEF tables
  <1>3. TableTypes'
    BY <1>1, <1>2 DEF TableTypes
  <1>4. LifeKept' /\ (Running' => Running)
    BY <1>1, <1>2 DEF LifeKept, Running
  <1>5. ASSUME NEW x \in Ends, NEW s \in Streams
        PROVE  WindowKept(x, s)' /\ OwedKept(x, s)' /\ FinsKept(x, s)'
    <2>1. Other(x) \in Ends /\ Unread(Other(x), s)' = Unread(Other(x), s)
      BY <1>2, OtherEnd DEF Unread
    <2>2. /\ Unread(Other(x), s) \in Nat /\ unreported[Other(x)][s] \in Nat /\ Way(Other(x), Wins(s)) \in Nat
          /\ Way(x, Data(s)) \in Nat /\ Way(x, Fins(s)) \in Nat
      BY <1>1, <2>1, Entries
    <2>3. WindowKept(x, s)'
      BY <1>1, <1>2, <2>1, <2>2, WindowStays
    <2>4. OwedKept(x, s)'
      BY <1>1, <1>2, <2>2, OwedStays
    <2>5. FinsKept(x, s)'
      BY <1>1, <1>2, <1>4, <2>2, FinsStay
    <2> QED BY <2>3, <2>4, <2>5
  <1> QED BY <1>1, <1>3, <1>4, <1>5 DEF PairInv

\* The runs of the routine, and what it made of them so far.
LEMMA PingCounts ==
  ASSUME TableTypes, QueueTypes
  PROVE  /\ pings \in Nat /\ scope.pings \in Nat /\ pings <= scope.pings
         /\ "client" \in Ends /\ "server" \in Ends /\ Other("client") = "server"
         /\ Way("client", Pings) \in Nat /\ Way("server", Pings) \in Nat /\ Waiting \in Nat
  <1>1. scope \in Scopes /\ pings \in 0 .. scope.pings
    BY DEF TableTypes
  <1>2. scope.pings \in Nat
    BY <1>1, PairAssumption
  <1>3. "client" \in Ends /\ "server" \in Ends /\ Other("client") = "server"
    BY DEF Ends, Other
  <1> QED BY <1>1, <1>2, <1>3, TheWeights, WayType, WaitingType

\* The routine comes to the client's session.
LEMMA RoutineKeeps ==
  ASSUME PairInv, Routine
  PROVE  PairInv'
  <1>1. TableTypes /\ QueueTypes /\ LifeKept /\ PingsKept
    BY DEF PairInv
  <1>2. /\ due = <<>> /\ pings < scope.pings /\ pings' = pings + 1 /\ retired' \in {retired, scope.retires}
        /\ due' = IF retired THEN <<"ROUTINE">> ELSE <<"PING", "ROUTINE">>
        /\ UNCHANGED <<evq, epc, eheld, sendq, vbuf, net, rheld>>
        /\ UNCHANGED <<tables, life, scope, owed, finLost>>
    BY DEF Routine, queues
  <1>3. /\ QueueTypes' /\ Waiting' = Waiting
        /\ \A x \in Ends, w \in Blind : Way(x, w)' = Way(x, w)
    BY <1>1, <1>2, SameQueues
  <1>4. /\ pings \in Nat /\ scope.pings \in Nat /\ "client" \in Ends /\ "server" \in Ends
        /\ Way("client", Pings) \in Nat /\ Way("server", Pings) \in Nat /\ Waiting \in Nat
    BY <1>1, PingCounts
  <1>5. Way("client", Pings)' = Way("client", Pings) /\ Way("server", Pings)' = Way("server", Pings)
    BY <1>3, <1>4, TheWeights
  <1>6. pings' \in 0 .. scope.pings
    BY <1>2, <1>4
  <1>7. due' \in {<<>>, <<"ROUTINE">>, <<"PING", "ROUTINE">>}
    BY <1>2
  <1>8. retired \in BOOLEAN /\ scope.retires \in BOOLEAN /\ (retired => scope.retires)
    BY <1>1, PairAssumption DEF TableTypes, LifeKept
  <1>9. retired' \in BOOLEAN /\ (retired => retired') /\ (retired' => scope.retires)
    BY <1>2, <1>8
  <1>10. PingsKept'
    <2>1. Way("client", Pings) + Way("server", Pings) + 0 <= pings /\ Waiting + 0 <= pings
      BY <1>1, <1>2 DEF PingsKept
    <2>2. Way("client", Pings)' + Way("server", Pings)' + 1 <= pings' /\ Waiting' + 1 <= pings'
      BY <1>2, <1>3, <1>4, <1>5, <2>1
    <2>3. Way("client", Pings)' + Way("server", Pings)' + 0 <= pings' /\ Waiting' + 0 <= pings'
      BY <1>2, <1>3, <1>4, <1>5, <2>1
    <2> QED BY <2>2, <2>3 DEF PingsKept
  <1> QED BY <1>2, <1>3, <1>6, <1>7, <1>9, <1>10, TheWeights, RoutineTables

\* One of its events is sent, or refused by a session that is over.
LEMMA RoutineSendKeeps ==
  ASSUME PairInv, RoutineSend
  PROVE  PairInv'
  <1>1. TableTypes /\ QueueTypes /\ LifeKept /\ PingsKept
    BY DEF PairInv
  <1>2. /\ due # <<>> /\ due' = Tail(due) /\ retired' = retired /\ pings' = pings
        /\ UNCHANGED <<epc, eheld, sendq, vbuf, net, rheld>>
        /\ UNCHANGED <<tables, life, scope, owed, finLost>>
    BY DEF RoutineSend
  <1>3. /\ pings \in Nat /\ "client" \in Ends /\ "server" \in Ends /\ Other("client") = "server"
        /\ Way("client", Pings) \in Nat /\ Way("server", Pings) \in Nat /\ Waiting \in Nat
    BY <1>1, PingCounts
  <1>4. due \in {<<"ROUTINE">>, <<"PING", "ROUTINE">>}
    BY <1>1, <1>2 DEF TableTypes
  <1>5. PICK k \in {"PING", "ROUTINE"} : /\ k = Head(due) /\ due' = IF k = "PING" THEN <<"ROUTINE">> ELSE <<>>
                                         /\ due = IF k = "PING" THEN <<"PING", "ROUTINE">> ELSE <<"ROUTINE">>
    <2>1. CASE due = <<"ROUTINE">>
      <3>1. Head(due) = "ROUTINE" /\ Tail(due) = <<>>
        BY <2>1
      <3> QED BY <1>2, <2>1, <3>1
    <2>2. CASE due = <<"PING", "ROUTINE">>
      <3>1. Head(due) = "PING" /\ Tail(due) = <<"ROUTINE">>
        BY <2>2
      <3> QED BY <1>2, <2>2, <3>1
    <2> QED BY <1>4, <2>1, <2>2
  <1>6. PICK ev : ev = Local(k, 0)
    OBVIOUS
  <1>7. /\ ev \in Proper /\ ev \in Event /\ ~ev.remote /\ ev.k = k
    BY <1>6, EventsMade, EventSets DEF Outgoing
  <1>8. /\ \A s : Data(s)[ev] = 0 /\ Wins(s)[ev] = 0 /\ Fins(s)[ev] = 0
        /\ Pings[ev] = (IF k = "PING" THEN 1 ELSE 0) /\ Routines[ev] = IF k = "PING" THEN 0 ELSE 1
    BY <1>7, EventWeights
  <1>9. /\ QueueTypes' /\ \A s \in Streams, x \in Ends :
             /\ Way(x, Wins(s))' = Way(x, Wins(s)) /\ Way(x, Fins(s))' = Way(x, Fins(s))
             /\ Way(x, Data(s))' = Way(x, Data(s))
        /\ Way("client", Pings)' <= Way("client", Pings) + (IF k = "PING" THEN 1 ELSE 0)
        /\ Way("client", Pings)' \in Nat /\ Way("server", Pings)' = Way("server", Pings)
        /\ Waiting' \in Nat /\ Waiting' <= Waiting + IF k = "PING" THEN 0 ELSE 1
    <2>1. CASE life["client"] = "run"
      <3>1. Len(evq["client"]) < EvCap /\ evq' = [evq EXCEPT !["client"] = Append(@, ev)]
        BY <1>5, <1>6, <2>1 DEF RoutineSend, EvRoom
      <3>2. /\ QueueTypes'
            /\ \A w \in Blind : Way("client", w)' = Way("client", w) + w[ev] /\ Way("server", w)' = Way("server", w)
        BY <1>1, <1>2, <1>3, <1>7, <3>1, Pushed
      <3>3. Waiting' \in Nat /\ Waiting' = Waiting + Routines[ev]
        BY <1>1, <1>3, <1>7, <3>1, PushedWaiting
      <3>4. ASSUME NEW s \in Streams, NEW x \in Ends
            PROVE  /\ Way(x, Wins(s))' = Way(x, Wins(s)) /\ Way(x, Fins(s))' = Way(x, Fins(s))
                   /\ Way(x, Data(s))' = Way(x, Data(s))
        <4>1. Way(x, Wins(s)) \in Nat /\ Way(x, Fins(s)) \in Nat /\ Way(x, Data(s)) \in Nat
          BY <1>1, Entries
        <4>2. Wins(s) \in Blind /\ Fins(s) \in Blind /\ Data(s) \in Blind /\ Wins(s)[ev] = 0 /\ Fins(s)[ev] = 0 /\ Data(s)[ev] = 0
          BY <1>8, TheWeights
        <4>3. CASE x = "client"
          BY <3>2, <4>1, <4>2, <4>3
        <4>4. CASE x = "server"
          BY <3>2, <4>2, <4>4
        <4> QED BY <4>3, <4>4 DEF Ends
      <3>5. /\ Way("client", Pings)' = Way("client", Pings) + Pings[ev]
            /\ Way("server", Pings)' = Way("server", Pings)
        BY <3>2, TheWeights
      <3>6. /\ Way("client", Pings)' <= Way("client", Pings) + (IF k = "PING" THEN 1 ELSE 0)
            /\ Way("client", Pings)' \in Nat
        BY <1>3, <1>8, <3>5
      <3>7. Waiting' <= Waiting + IF k = "PING" THEN 0 ELSE 1
        BY <1>3, <1>8, <3>3
      <3> QED BY <3>2, <3>3, <3>4, <3>5, <3>6, <3>7
    <2>2. CASE life["client"] # "run"
      <3>1. evq' = evq
        BY <2>2 DEF RoutineSend
      <3>2. /\ QueueTypes' /\ Waiting' = Waiting
            /\ \A x \in Ends, w \in Blind : Way(x, w)' = Way(x, w)
        BY <1>1, <1>2, <3>1, SameQueues
      <3>3. Way("client", Pings)' = Way("client", Pings) /\ Way("server", Pings)' = Way("server", Pings)
        BY <1>3, <3>2, TheWeights
      <3>4. /\ Way("client", Pings)' <= Way("client", Pings) + (IF k = "PING" THEN 1 ELSE 0)
            /\ Waiting' <= Waiting + (IF k = "PING" THEN 0 ELSE 1)
        BY <1>3, <3>2, <3>3
      <3> QED BY <1>3, <3>2, <3>3, <3>4, TheWeights
    <2> QED BY <2>1, <2>2
  <1>10. PingsKept'
    <2>0. \A a, b, c, i, p \in Nat :
             c <= a + i /\ a + b + i <= p => c + b + 0 <= p
      OBVIOUS
    <2>1. CASE k = "PING"
      <3>1. due = <<"PING", "ROUTINE">> /\ due' = <<"ROUTINE">> /\ due # <<>> /\ due' # <<>> /\ due' # <<"PING", "ROUTINE">>
        BY <1>5, <2>1
      <3>2. Way("client", Pings) + Way("server", Pings) + 1 <= pings /\ Waiting + 1 <= pings
        BY <1>1, <3>1 DEF PingsKept
      <3>3. Way("client", Pings)' <= Way("client", Pings) + 1 /\ Waiting' <= Waiting + 0
        BY <1>9, <2>1
      <3>4. Way("client", Pings)' + Way("server", Pings)' + 0 <= pings'
        BY <1>2, <1>3, <1>9, <2>0, <3>2, <3>3
      <3>5. Waiting' + 1 <= pings'
        <4>1. \A m, n, p \in Nat : m <= n + 0 /\ n + 1 <= p => m + 1 <= p
          OBVIOUS
        <4> QED BY <1>2, <1>3, <1>9, <3>2, <3>3, <4>1
      <3> QED BY <3>1, <3>4, <3>5 DEF PingsKept
    <2>2. CASE k = "ROUTINE"
      <3>1. due = <<"ROUTINE">> /\ due' = <<>> /\ due # <<>> /\ due # <<"PING", "ROUTINE">> /\ due' # <<"PING", "ROUTINE">>
        BY <1>5, <2>2
      <3>2. Way("client", Pings) + Way("server", Pings) + 0 <= pings /\ Waiting + 1 <= pings
        BY <1>1, <3>1 DEF PingsKept
      <3>3. Way("client", Pings)' <= Way("client", Pings) + 0 /\ Waiting' <= Waiting + 1
        BY <1>9, <2>2
      <3>4. Way("client", Pings)' + Way("server", Pings)' + 0 <= pings'
        BY <1>2, <1>3, <1>9, <2>0, <3>2, <3>3
      <3>5. Waiting' + 0 <= pings'
        <4>1. \A m, n, p \in Nat : m <= n + 1 /\ n + 1 <= p => m + 0 <= p
          OBVIOUS
        <4> QED BY <1>2, <1>3, <1>9, <3>2, <3>3, <4>1
      <3> QED BY <3>1, <3>4, <3>5 DEF PingsKept
    <2> QED BY <2>1, <2>2
  <1>11. /\ retired' \in BOOLEAN /\ (retired => retired') /\ (retired' => scope.retires)
         /\ pings' \in 0 .. scope.pings /\ due' \in {<<>>, <<"ROUTINE">>, <<"PING", "ROUTINE">>}
    BY <1>1, <1>2, <1>5 DEF TableTypes, LifeKept
  <1> QED BY <1>2, <1>9, <1>10, <1>11, RoutineTables

-----------------------------------------------------------------------------
(* The invariant holds.                                                     *)

\* At the start nothing is on the way and no window is spent.
LEMMA InitKeeps ==
  ASSUME Init
  PROVE  PairInv
  <1>1. /\ scope \in Scopes /\ evq = [e \in Ends |-> <<>>] /\ epc = [e \in Ends |-> "recv"]
        /\ eheld = [e \in Ends |-> Nothing] /\ sendq = [e \in Ends |-> <<>>]
        /\ vbuf = [e \in Ends |-> <<>>] /\ net = [e \in Ends |-> <<>>] /\ rheld = [e \in Ends |-> <<>>]
        /\ streams = [e \in Ends |-> Streams] /\ life = [e \in Ends |-> "run"]
        /\ retired = FALSE /\ pings = 0 /\ due = <<>>
    BY DEF Init
  <1>2. \A e \in Ends, s \in Streams :
           /\ relay[e][s] = "open" /\ dq[e][s] = 0 /\ credit[e][s] = Window /\ unreported[e][s] = 0
           /\ owed[e][s] = 0 /\ finLost[e][s] = FALSE
    BY DEF Init, PerStream
  <1>3. Window \in Nat /\ scope.pings \in Nat /\ DataCap \in Nat /\ EvCap \in Nat /\ SendCap \in Nat
        /\ VBufMax \in Nat /\ NetCap \in Nat
    BY <1>1, PairAssumption DEF Window
  <1>4. TableTypes
    <2>1. /\ relay \in [Ends -> [Streams -> {"open", "closed", "deaf", "over"}]]
          /\ dq \in [Ends -> [Streams -> 0 .. DataCap]] /\ credit \in [Ends -> [Streams -> Int]]
          /\ unreported \in [Ends -> [Streams -> Nat]] /\ owed \in [Ends -> [Streams -> Nat]]
      BY <1>3 DEF Init, PerStream
    <2>2. finLost \in [Ends -> [Streams -> BOOLEAN]]
      BY Zenon DEF Init, PerStream
    <2>3. streams \in [Ends -> SUBSET Streams] /\ life \in [Ends -> {"run", "closing", "over"}]
      BY <1>1
    <2>4. scope \in Scopes /\ pings \in 0 .. scope.pings
      BY <1>1, <1>3
    <2>5. retired \in BOOLEAN /\ due \in {<<>>, <<"ROUTINE">>, <<"PING", "ROUTINE">>}
      BY <1>1
    <2> QED BY <2>1, <2>2, <2>3, <2>4, <2>5, Zenon DEF TableTypes
  <1>5. QueueTypes
    <2>1. <<>> \in Seq(Proper) /\ <<>> \in Seq(Wire) /\ <<>> \in Seq(Outgoing) /\ <<>> \in Seq(Arrived)
          /\ Len(<<>>) = 0 /\ Nothing \in Event
      BY EventsMade
    <2>2. "server" \in Ends
      BY DEF Ends
    <2> QED BY <1>1, <1>3, <2>1, <2>2 DEF QueueTypes
  <1>6. Running /\ LifeKept
    BY <1>1 DEF Running, LifeKept
  <1>7. ASSUME NEW e \in Ends, NEW w \in Blind PROVE Way(e, w) = 0
    <2>1. /\ Own(w) \in Weights /\ Far(w) \in Weights /\ Own(w)[Nothing] = 0 /\ Far(w)[Nothing] = 0
          /\ Nothing \in Event /\ Other(e) \in Ends
      BY Parts, EventsMade, OtherEnd
    <2>2. Weight(<<>>, Own(w)) = 0 /\ Weight(<<>>, Far(w)) = 0
      BY <2>1, WeightOne
    <2>3. Sending(e, w) = 0 + 0 + 0 + 0 + 0
      BY <1>1, <2>1, <2>2 DEF Sending
    <2>4. Coming(Other(e), w) = 0 + 0 + 0
      BY <1>1, <2>1, <2>2 DEF Coming
    <2> QED BY <2>3, <2>4 DEF Way
  <1>8. PingsKept
    <2>1. "client" \in Ends /\ "server" \in Ends
      BY DEF Ends
    <2>2. Way("client", Pings) = 0 /\ Way("server", Pings) = 0
      BY <1>7, <2>1, TheWeights
    <2>3. Waiting = 0
      <3>1. Weight(<<>>, Routines) = 0
        BY TheWeights, EventsMade, WeightOne
      <3> QED BY <1>1, <2>1, <3>1 DEF Waiting
    <2> QED BY <1>1, <2>2, <2>3 DEF PingsKept
  <1>9. ASSUME NEW e \in Ends, NEW s \in Streams
        PROVE  WindowKept(e, s) /\ OwedKept(e, s) /\ FinsKept(e, s)
    <2>1. Way(Other(e), Wins(s)) = 0 /\ Way(e, Data(s)) = 0 /\ Way(e, Fins(s)) = 0 /\ Other(e) \in Ends
      BY <1>7, TheWeights, OtherEnd
    <2>2. Spent(e, s) = Window + 0 + 0 + 0 + 0
      BY <1>2, <2>1 DEF Spent, Unread
    <2>3. WindowKept(e, s)
      BY <1>2, <1>3, <2>2 DEF WindowKept
    <2>4. OwedKept(e, s)
      BY <1>2, <2>1 DEF OwedKept
    <2>5. FinsKept(e, s)
      BY <1>1, <1>2, <2>1 DEF FinsKept, Made
    <2> QED BY <2>3, <2>4, <2>5
  <1> QED BY <1>4, <1>5, <1>6, <1>8, <1>9 DEF PairInv

\* A step that changes nothing.
LEMMA StutterKeeps ==
  ASSUME PairInv, UNCHANGED vars
  PROVE  PairInv'
  <1>1. QueueTypes
    BY DEF PairInv
  <1>2. UNCHANGED <<evq, epc, eheld, sendq, vbuf, net, rheld>> /\ UNCHANGED <<tables, life, counts, finLost>>
    BY DEF vars, queues
  <1>3. /\ QueueTypes' /\ Waiting' = Waiting /\ Waiting \in Nat
        /\ \A x \in Ends, w \in Blind : Way(x, w)' = Way(x, w)
    BY <1>1, <1>2, SameQueues
  <1>4. Moved /\ Waiting' \in Nat /\ Waiting' <= Waiting
    BY <1>3 DEF Moved
  <1> QED BY <1>2, <1>3, <1>4, QuietMove

\* Every step of either end keeps the invariant.
LEMMA NextKeeps ==
  ASSUME PairInv, Next
  PROVE  PairInv'
  <1>1. CASE Routine
    BY <1>1, RoutineKeeps
  <1>2. CASE RoutineSend
    BY <1>2, RoutineSendKeeps
  <1>3. ASSUME NEW e \in Ends, Handle(e) PROVE PairInv'
    <2>1. CASE EvSend(e)
      BY <2>1, SendKeeps
    <2>2. CASE EvPing(e)
      BY <2>2, PingKeeps
    <2>3. CASE EvPong(e)
      BY <2>3, PongKeeps
    <2>4. CASE EvWin(e)
      BY <2>4, WinKeeps
    <2>5. CASE EvFin(e, TRUE) \/ EvFin(e, FALSE)
      BY <2>5, FinKeeps
    <2>6. CASE EvRoutine(e)
      BY <2>6, RoutineEventKeeps
    <2>7. CASE EvData(e)
      BY <2>7, DataKeeps
    <2>8. CASE EvOffered(e)
      BY <2>8, OfferKeeps
    <2>9. CASE EvForwarded(e)
      BY <2>9, MovesKeep
    <2> QED BY <1>3, <2>1, <2>2, <2>3, <2>4, <2>5, <2>6, <2>7, <2>8, <2>9 DEF Handle
  <1>4. ASSUME NEW e \in Ends, Send(e) PROVE PairInv'
    <2>1. CASE SendRecv(e) \/ (SendWritten(e) /\ life[e] = "run")
      BY <2>1, MovesKeep
    <2>2. CASE (SendWritten(e) \/ SendFails(e)) /\ life[e] # "run"
      BY <2>2, LastKeeps
    <2>3. CASE SendFails(e) /\ life[e] = "run"
      BY <2>3, OtherEndedKeeps
    <2> QED BY <1>4, <2>1, <2>2, <2>3 DEF Send
  <1>5. ASSUME NEW e \in Ends, Recv(e) PROVE PairInv'
    <2>1. CASE RecvFrame(e) \/ RecvPush(e)
      BY <2>1, MovesKeep
    <2>2. CASE ConnectionEnds(e)
      BY <2>2, OtherEndedKeeps
    <2> QED BY <1>5, <2>1, <2>2 DEF Recv
  <1>6. ASSUME NEW e \in Ends, NEW s \in Streams, App(e, s) PROVE PairInv'
    <2>1. CASE AppWrite(e, s)
      BY <2>1, WriteKeeps
    <2>2. CASE AppRead(e, s)
      BY <2>2, ReadKeeps
    <2>3. CASE AppShutdown(e, s) \/ AppReadClosed(e, s)
      BY <2>3, CloseKeeps
    <2>4. CASE AppEnds(e, s)
      BY <2>4, EndKeeps
    <2> QED BY <1>6, <2>1, <2>2, <2>3, <2>4 DEF App
  <1> QED BY <1>1, <1>2, <1>3, <1>4, <1>5, <1>6 DEF Next

\* The two ends of a session keep the invariant, for any number of streams,
\* window and sizes of the queues.
THEOREM PairSound == Spec => []PairInv
  <1>1. Init => PairInv
    BY InitKeeps
  <1>2. PairInv /\ [Next]_vars => PairInv'
    BY NextKeeps, StutterKeeps
  <1> QED BY <1>1, <1>2, PTL DEF Spec

-----------------------------------------------------------------------------
(* What a relay wrote arrives, or its loss has a cause.                     *)

\* Events that weigh one or nothing are counted by their places.
LEMMA WeightPlaces ==
  ASSUME NEW q \in Seq(Event), NEW w \in Weights, \A ev \in Event : w[ev] \in {0, 1}
  PROVE  Weight(q, w) = Cardinality({i \in DOMAIN q : w[q[i]] = 1})
  <1> DEFINE P == {i \in DOMAIN q : w[q[i]] = 1}
  <1>1. DOMAIN q = 1 .. Len(q) /\ Len(q) \in Nat /\ \A i \in DOMAIN q : w[q[i]] \in {0, 1}
    OBVIOUS
  <1>2. Units(q, w) = P \X {0}
    <2>1. ASSUME NEW i \in DOMAIN q, NEW j \in Nat PROVE j < w[q[i]] <=> i \in P /\ j = 0
      BY <1>1
    <2>2. P \subseteq DOMAIN q
      OBVIOUS
    <2> HIDE DEF P
    <2> QED BY <2>1, <2>2 DEF Units
  <1>3. IsFiniteSet(P)
    <2>1. IsFiniteSet(1 .. Len(q))
      BY <1>1, FS_Interval
    <2>2. P \subseteq 1 .. Len(q)
      BY <1>1
    <2> QED BY <2>1, <2>2, FS_Subset
  <1>4. IsFiniteSet({0}) /\ Cardinality({0}) = 1
    BY FS_Singleton
  <1> HIDE DEF P
  <1>5. Cardinality(P \X {0}) = Cardinality(P) * 1 /\ Cardinality(P) \in Nat
    BY <1>3, <1>4, FS_Product, FS_CardinalityType
  <1>6. Weight(q, w) = Cardinality(P)
    BY <1>2, <1>5 DEF Weight
  <1> QED BY <1>6 DEF P

\* The DATA frames of a stream in a queue.
LEMMA DataPlaces ==
  ASSUME NEW q \in Seq(Event), NEW s
  PROVE  /\ Cardinality(DataIn(q, s, FALSE)) = Weight(q, Own(Data(s)))
         /\ Cardinality(DataIn(q, s, TRUE)) = Weight(q, Far(Data(s)))
  <1>1. Data(s) \in Blind /\ \A ev \in Event : Data(s)[ev] = IF ev.k = "DATA" /\ ev.s = s THEN 1 ELSE 0
    BY TheWeights, EventWeights
  <1>2. Own(Data(s)) \in Weights /\ Far(Data(s)) \in Weights
    BY <1>1, Parts
  <1>3. \A ev \in Event : /\ Own(Data(s))[ev] = IF ev.k = "DATA" /\ ev.s = s /\ ev.remote = FALSE THEN 1 ELSE 0
                          /\ Far(Data(s))[ev] = IF ev.k = "DATA" /\ ev.s = s /\ ev.remote = TRUE THEN 1 ELSE 0
    <2> SUFFICES ASSUME NEW ev \in Event
                 PROVE  /\ Own(Data(s))[ev] = IF ev.k = "DATA" /\ ev.s = s /\ ev.remote = FALSE THEN 1 ELSE 0
                        /\ Far(Data(s))[ev] = IF ev.k = "DATA" /\ ev.s = s /\ ev.remote = TRUE THEN 1 ELSE 0
      OBVIOUS
    <2>1. ev.remote = TRUE \/ ev.remote = FALSE
      BY DEF Event
    <2>2. CASE ev.remote = TRUE
      BY <1>1, <2>2, Parts
    <2>3. CASE ev.remote = FALSE
      BY <1>1, <2>3, Parts
    <2> QED BY <2>1, <2>2, <2>3
  <1>4. \A i \in DOMAIN q : q[i] \in Event
    OBVIOUS
  <1>5. /\ DataIn(q, s, FALSE) = {i \in DOMAIN q : Own(Data(s))[q[i]] = 1}
        /\ DataIn(q, s, TRUE) = {i \in DOMAIN q : Far(Data(s))[q[i]] = 1}
    BY <1>3, <1>4 DEF DataIn
  <1>6. \A ev \in Event : Own(Data(s))[ev] \in {0, 1} /\ Far(Data(s))[ev] \in {0, 1}
    BY <1>3
  <1>7. Weight(q, Own(Data(s))) = Cardinality({i \in DOMAIN q : Own(Data(s))[q[i]] = 1})
    BY <1>2, <1>6, WeightPlaces
  <1>8. Weight(q, Far(Data(s))) = Cardinality({i \in DOMAIN q : Far(Data(s))[q[i]] = 1})
    BY <1>2, <1>6, WeightPlaces
  <1> QED BY <1>5, <1>7, <1>8

\* What the property counts is what the invariant weighs.
LEMMA OnTheWayWeighs ==
  ASSUME QueueTypes, NEW e \in Ends, NEW s
  PROVE  OnTheWay(e, s) = Way(e, Data(s))
  <1> DEFINE o == Other(e)
             u == Own(Data(s))
             v == Far(Data(s))
             own == evq[e] \o <<eheld[e]>> \o sendq[e] \o vbuf[e] \o net[e]
             others == rheld[o] \o evq[o] \o <<eheld[o]>>
  <1>1. /\ u \in Weights /\ v \in Weights /\ o \in Ends
    BY TheWeights, Parts, OtherEnd
  <1>2. /\ evq[e] \in Seq(Event) /\ eheld[e] \in Event /\ sendq[e] \in Seq(Event) /\ vbuf[e] \in Seq(Event)
        /\ net[e] \in Seq(Event)
    BY EndQueues
  <1>3. rheld[o] \in Seq(Event) /\ evq[o] \in Seq(Event) /\ eheld[o] \in Event
    BY <1>1, EndQueues
  <1> HIDE DEF u, v
  <1>4. own \in Seq(Event) /\ Weight(own, u) = Weight(evq[e], u) + u[eheld[e]] + Weight(sendq[e], u)
                                                + Weight(vbuf[e], u) + Weight(net[e], u)
    <2>1. <<eheld[e]>> \in Seq(Event) /\ Weight(<<eheld[e]>>, u) = u[eheld[e]]
      BY <1>1, <1>2, WeightOne
    <2>2. PICK a : a = evq[e] \o <<eheld[e]>>
      OBVIOUS
    <2>3. a \in Seq(Event) /\ Weight(a, u) = Weight(evq[e], u) + u[eheld[e]]
      <3>1. PICK h \in Seq(Event) : h = <<eheld[e]>> /\ Weight(h, u) = u[eheld[e]]
        BY <2>1
      <3>2. evq[e] \o h \in Seq(Event) /\ Weight(evq[e] \o h, u) = Weight(evq[e], u) + Weight(h, u)
        BY <1>1, <1>2, WeightConcat
      <3> QED BY <2>2, <3>1, <3>2
    <2>4. PICK b : b = a \o sendq[e]
      OBVIOUS
    <2>5. b \in Seq(Event) /\ Weight(b, u) = Weight(a, u) + Weight(sendq[e], u)
      BY <1>1, <1>2, <2>3, <2>4, WeightConcat
    <2>6. PICK c : c = b \o vbuf[e]
      OBVIOUS
    <2>7. c \in Seq(Event) /\ Weight(c, u) = Weight(b, u) + Weight(vbuf[e], u)
      BY <1>1, <1>2, <2>5, <2>6, WeightConcat
    <2>8. c \o net[e] \in Seq(Event) /\ Weight(c \o net[e], u) = Weight(c, u) + Weight(net[e], u)
      BY <1>1, <1>2, <2>7, WeightConcat
    <2>9. own = c \o net[e]
      BY <2>2, <2>4, <2>6
    <2> HIDE DEF own
    <2> QED BY <2>3, <2>5, <2>7, <2>8, <2>9
  <1>5. others \in Seq(Event) /\ Weight(others, v) = Weight(rheld[o], v) + Weight(evq[o], v) + v[eheld[o]]
    <2>1. <<eheld[o]>> \in Seq(Event) /\ Weight(<<eheld[o]>>, v) = v[eheld[o]]
      BY <1>1, <1>3, WeightOne
    <2>2. PICK a : a = rheld[o] \o evq[o]
      OBVIOUS
    <2>3. a \in Seq(Event) /\ Weight(a, v) = Weight(rheld[o], v) + Weight(evq[o], v)
      BY <1>1, <1>3, <2>2, WeightConcat
    <2>4. a \o <<eheld[o]>> \in Seq(Event) /\ Weight(a \o <<eheld[o]>>, v) = Weight(a, v) + v[eheld[o]]
      <3>1. PICK h \in Seq(Event) : h = <<eheld[o]>> /\ Weight(h, v) = v[eheld[o]]
        BY <2>1
      <3>2. a \o h \in Seq(Event) /\ Weight(a \o h, v) = Weight(a, v) + Weight(h, v)
        BY <1>1, <2>3, WeightConcat
      <3> QED BY <3>1, <3>2
    <2>5. others = a \o <<eheld[o]>>
      BY <2>2
    <2> HIDE DEF others
    <2> QED BY <2>3, <2>4, <2>5
  <1>6. OnTheWay(e, s) = Cardinality(DataIn(own, s, FALSE)) + Cardinality(DataIn(others, s, TRUE))
    BY DEF OnTheWay
  <1> HIDE DEF own, others
  <1>7. Cardinality(DataIn(own, s, FALSE)) = Weight(own, u)
    BY <1>4, DataPlaces DEF u
  <1>8. Cardinality(DataIn(others, s, TRUE)) = Weight(others, v)
    BY <1>5, DataPlaces DEF v
  <1> QED BY <1>4, <1>5, <1>6, <1>7, <1>8 DEF Way, Sending, Coming, u, v

\* A window is never exceeded: what it counts is between nothing and one more.
LEMMA WindowBounds ==
  ASSUME TableTypes, QueueTypes, NEW e \in Ends, NEW s \in Streams, WindowKept(e, s)
  PROVE  /\ credit[e][s] \in -1 .. Window /\ owed[e][s] \in 0 .. Window + 1
         /\ unreported[Other(e)][s] \in 0 .. Window + 1
         /\ owed[e][s] + Way(Other(e), Wins(s)) <= IF e \in Writers THEN Window + 1 ELSE 0
  <1>1. /\ credit[e][s] \in Int /\ owed[e][s] \in Nat /\ unreported[Other(e)][s] \in Nat
        /\ Unread(Other(e), s) \in Nat /\ Way(Other(e), Wins(s)) \in Nat /\ Window \in Nat
    BY Entries, OtherEnd
  <1>2. /\ credit[e][s] >= -1 /\ (e \notin Writers => credit[e][s] >= Window)
        /\ credit[e][s] + owed[e][s] + Unread(Other(e), s) + unreported[Other(e)][s] + Way(Other(e), Wins(s)) <= Window
    BY DEF WindowKept, Spent
  <1>3. \A c \in Int, o, u, r, w, n \in Nat :
          c >= -1 /\ c + o + u + r + w <= n =>
             /\ c \in -1 .. n /\ o \in 0 .. n + 1 /\ r \in 0 .. n + 1 /\ o + w <= n + 1 /\ (c >= n => o + w <= 0)
    OBVIOUS
  <1> QED BY <1>1, <1>2, <1>3

\* The queues keep their types and capacity, whatever the two ends do.
LEMMA PairTypes ==
  ASSUME PairInv PROVE TypeOK
  <1>1. /\ TableTypes /\ QueueTypes
        /\ \A e \in Ends, s \in Streams : WindowKept(e, s)
    BY DEF PairInv
  <1>2. ASSUME NEW e \in Ends
        PROVE  /\ evq[e] \in Seq(Event) /\ Len(evq[e]) <= EvCap
               /\ sendq[e] \in Seq(Event) /\ Len(sendq[e]) <= SendCap
               /\ vbuf[e] \in Seq(Event) /\ Len(vbuf[e]) <= VBufMax
               /\ net[e] \in Seq(Event) /\ Len(net[e]) <= NetCap
               /\ rheld[e] \in Seq(Event) /\ Len(rheld[e]) <= 1
               /\ epc[e] \in {"recv", "forward", "offer"} /\ eheld[e] \in Event
               /\ streams[e] \subseteq Streams /\ life[e] \in {"run", "closing", "over"}
    BY <1>1, EndQueues DEF TableTypes
  <1>3. ASSUME NEW e \in Ends, NEW s \in Streams
        PROVE  /\ relay[e][s] \in {"open", "closed", "deaf", "over"}
               /\ dq[e][s] \in 0 .. DataCap /\ credit[e][s] \in -1 .. Window
               /\ unreported[e][s] \in 0 .. Window + 1 /\ owed[e][s] \in 0 .. Window + 1
               /\ finLost[e][s] \in BOOLEAN
    <2>1. Other(e) \in Ends /\ Other(Other(e)) = e
      BY OtherEnd
    <2>2. credit[e][s] \in -1 .. Window /\ owed[e][s] \in 0 .. Window + 1
      BY <1>1, WindowBounds
    <2>3. unreported[Other(Other(e))][s] \in 0 .. Window + 1
      BY <1>1, <2>1, WindowBounds
    <2>4. relay[e][s] \in {"open", "closed", "deaf", "over"} /\ dq[e][s] \in 0 .. DataCap
      BY <1>1 DEF TableTypes
    <2>5. finLost[e][s] \in BOOLEAN
      BY <1>1, Zenon DEF TableTypes
    <2> QED BY <2>1, <2>2, <2>3, <2>4, <2>5
  <1>4. scope \in Scopes /\ retired \in BOOLEAN /\ pings \in 0 .. scope.pings /\ Len(due) <= 2
    <2>1. scope \in Scopes /\ retired \in BOOLEAN /\ pings \in 0 .. scope.pings
          /\ due \in {<<>>, <<"ROUTINE">>, <<"PING", "ROUTINE">>}
      BY <1>1 DEF TableTypes
    <2>2. Len(<<>>) <= 2 /\ Len(<<"ROUTINE">>) <= 2 /\ Len(<<"PING", "ROUTINE">>) <= 2
      OBVIOUS
    <2>3. Len(due) <= 2
      BY <2>1, <2>2
    <2> QED BY <2>1, <2>3
  <1> QED BY <1>2, <1>3, <1>4 DEF TypeOK

\* What a relay wrote is offered to the stream at the other end or is on the way
\* to it, unless that stream was closed or the client's session retired; and no
\* queue, no window and no count of unreported frames leaves its bounds.
THEOREM NoLoss == Spec => []LossHasCause
  <1>1. ASSUME PairInv PROVE LossHasCause
    <2>1. TypeOK
      BY <1>1, PairTypes
    <2>2. ASSUME NEW e \in Ends, NEW s \in Streams, owed[e][s] > OnTheWay(e, s)
          PROVE  relay[Other(e)][s] # "open" \/ retired
      <3>1. TableTypes /\ QueueTypes /\ OwedKept(e, s)
        BY <1>1 DEF PairInv
      <3>2. OnTheWay(e, s) = Way(e, Data(s)) /\ Way(e, Data(s)) \in Nat /\ owed[e][s] \in Nat
        BY <3>1, OnTheWayWeighs, Entries
      <3>3. owed[e][s] # Way(e, Data(s))
        BY <2>2, <3>2
      <3> QED BY <3>1, <3>3 DEF OwedKept
    <2> QED BY <2>1, <2>2 DEF LossHasCause
  <1>2. PairInv => LossHasCause
    BY <1>1
  <1> QED BY <1>2, PairSound, PTL

-----------------------------------------------------------------------------
(* The two ends wait for each other only when the windows are wide enough.   *)

\* The frames of the streams of T; all frames; and with them what else waits.
Streamed(T) == Share({"DATA", "WIN", "FIN"}, T)
Frames == [ev \in Event |-> Streamed(Streams)[ev] + Pings[ev]]
Queueing == [ev \in Event |-> Frames[ev] + Routines[ev]]

\* What is on the way, by two weights that share it.
LEMMA WayAdd ==
  ASSUME QueueTypes, NEW e \in Ends, NEW u \in Blind, NEW v \in Blind, NEW w \in Blind, Splits(w, u, v)
  PROVE  Way(e, w) = Way(e, u) + Way(e, v)
  <1> DEFINE o == Other(e)
  <1>1. \A f \in {u, v, w} : /\ Own(f) \in Weights /\ Far(f) \in Weights
                             /\ \A ev \in Event : /\ Own(f)[ev] = IF ev.remote THEN 0 ELSE f[ev]
                                                  /\ Far(f)[ev] = IF ev.remote THEN f[ev] ELSE 0
    BY Parts DEF Own, Far
  <1>2. \A ev \in Event : (w[ev] = u[ev] /\ v[ev] = 0) \/ (w[ev] = v[ev] /\ u[ev] = 0)
    BY DEF Splits
  <1>3. Splits(Own(w), Own(u), Own(v)) /\ Splits(Far(w), Far(u), Far(v))
    BY <1>1, <1>2 DEF Splits
  <1>4. /\ evq[e] \in Seq(Event) /\ eheld[e] \in Event /\ sendq[e] \in Seq(Event) /\ vbuf[e] \in Seq(Event)
        /\ net[e] \in Seq(Event)
    BY EndQueues
  <1>5. o \in Ends /\ rheld[o] \in Seq(Event) /\ evq[o] \in Seq(Event) /\ eheld[o] \in Event
    BY OtherEnd, EndQueues
  <1>6. ASSUME NEW f, NEW g, NEW h, Splits(f, g, h), NEW ev \in Event PROVE f[ev] = g[ev] + h[ev]
    BY <1>6 DEF Splits, Weights
  <1>7. Sending(e, w) = Sending(e, u) + Sending(e, v)
    <2>1. Own(w)[eheld[e]] = Own(u)[eheld[e]] + Own(v)[eheld[e]]
      BY <1>3, <1>4, <1>6
    <2>2. /\ Weight(evq[e], Own(w)) = Weight(evq[e], Own(u)) + Weight(evq[e], Own(v))
          /\ Weight(sendq[e], Own(w)) = Weight(sendq[e], Own(u)) + Weight(sendq[e], Own(v))
          /\ Weight(vbuf[e], Own(w)) = Weight(vbuf[e], Own(u)) + Weight(vbuf[e], Own(v))
          /\ Weight(net[e], Own(w)) = Weight(net[e], Own(u)) + Weight(net[e], Own(v))
      BY <1>3, <1>4, WeightAdd
    <2>3. \A f \in {u, v} :
             /\ Weight(evq[e], Own(f)) \in Nat /\ Own(f)[eheld[e]] \in Nat
             /\ Weight(sendq[e], Own(f)) \in Nat /\ Weight(vbuf[e], Own(f)) \in Nat /\ Weight(net[e], Own(f)) \in Nat
      BY EndWeights
    <2>4. \A a, b, c, d, i, p, q, r, s, t \in Nat :
             (a + p) + (b + q) + (c + r) + (d + s) + (i + t) = (a + b + c + d + i) + (p + q + r + s + t)
      OBVIOUS
    <2> QED BY <2>1, <2>2, <2>3, <2>4 DEF Sending
  <1>8. Coming(o, w) = Coming(o, u) + Coming(o, v)
    <2>1. Far(w)[eheld[o]] = Far(u)[eheld[o]] + Far(v)[eheld[o]]
      BY <1>3, <1>5, <1>6
    <2>2. /\ Weight(rheld[o], Far(w)) = Weight(rheld[o], Far(u)) + Weight(rheld[o], Far(v))
          /\ Weight(evq[o], Far(w)) = Weight(evq[o], Far(u)) + Weight(evq[o], Far(v))
      BY <1>3, <1>5, WeightAdd
    <2>3. \A f \in {u, v} :
             Weight(rheld[o], Far(f)) \in Nat /\ Weight(evq[o], Far(f)) \in Nat /\ Far(f)[eheld[o]] \in Nat
      BY <1>5, EndWeights
    <2>4. \A a, b, c, p, q, r \in Nat : (a + p) + (b + q) + (c + r) = (a + b + c) + (p + q + r)
      OBVIOUS
    <2> QED BY <2>1, <2>2, <2>3, <2>4 DEF Coming
  <1>9. \A f \in {u, v} : Sending(e, f) \in Nat /\ Coming(o, f) \in Nat
    BY <1>5, EndWeights
  <1> QED BY <1>7, <1>8, <1>9 DEF Way

\* The frames of one stream more.
LEMMA StreamedAdd ==
  ASSUME QueueTypes, NEW e \in Ends, NEW T, NEW s, s \notin T
  PROVE  Way(e, Streamed(T \cup {s})) = Way(e, Streamed(T)) + Way(e, Data(s)) + Way(e, Wins(s)) + Way(e, Fins(s))
  <1> DEFINE w == Share({"DATA", "WIN"}, {s})
  <1>1. /\ Streamed(T \cup {s}) \in Blind /\ Streamed(T) \in Blind /\ Streamed({s}) \in Blind /\ w \in Blind
        /\ Data(s) \in Blind /\ Wins(s) \in Blind /\ Fins(s) \in Blind
    BY ShareWeights DEF Streamed, Data, Wins, Fins
  <1>2. ASSUME NEW ev \in Event
        PROVE  /\ Streamed(T \cup {s})[ev] = IF ev.k \in {"DATA", "WIN", "FIN"} /\ ev.s \in T \cup {s}
                                               THEN IF ev.k = "WIN" THEN ev.n ELSE 1 ELSE 0
               /\ Streamed(T)[ev] = IF ev.k \in {"DATA", "WIN", "FIN"} /\ ev.s \in T
                                      THEN IF ev.k = "WIN" THEN ev.n ELSE 1 ELSE 0
               /\ Streamed({s})[ev] = IF ev.k \in {"DATA", "WIN", "FIN"} /\ ev.s = s
                                        THEN IF ev.k = "WIN" THEN ev.n ELSE 1 ELSE 0
               /\ w[ev] = IF ev.k \in {"DATA", "WIN"} /\ ev.s = s
                            THEN IF ev.k = "WIN" THEN ev.n ELSE 1 ELSE 0
               /\ Data(s)[ev] = IF ev.k = "DATA" /\ ev.s = s THEN 1 ELSE 0
               /\ Wins(s)[ev] = IF ev.k = "WIN" /\ ev.s = s THEN ev.n ELSE 0
               /\ Fins(s)[ev] = IF ev.k = "FIN" /\ ev.s = s THEN 1 ELSE 0
    <2>1. \A kinds, S : Share(kinds, S)[ev] =
               IF ev.k \in kinds /\ ev.s \in S THEN IF ev.k = "WIN" THEN ev.n ELSE 1 ELSE 0
      BY ShareWeights
    <2> QED BY <2>1, EventWeights DEF Streamed
  <1> HIDE DEF w
  <1>3. \A f \in Blind : f \in Weights
    BY DEF Blind
  <1>4. Splits(Streamed(T \cup {s}), Streamed(T), Streamed({s}))
    BY <1>1, <1>2, <1>3 DEF Splits
  <1>5. Splits(Streamed({s}), w, Fins(s))
    BY <1>1, <1>2, <1>3 DEF Splits
  <1>6. Splits(w, Data(s), Wins(s))
    BY <1>1, <1>2, <1>3 DEF Splits
  <1>7. /\ Way(e, Streamed(T \cup {s})) = Way(e, Streamed(T)) + Way(e, Streamed({s}))
        /\ Way(e, Streamed({s})) = Way(e, w) + Way(e, Fins(s))
        /\ Way(e, w) = Way(e, Data(s)) + Way(e, Wins(s))
    BY <1>1, <1>4, <1>5, <1>6, WayAdd
  <1>8. /\ Way(e, Streamed(T)) \in Nat /\ Way(e, Data(s)) \in Nat /\ Way(e, Wins(s)) \in Nat /\ Way(e, Fins(s)) \in Nat
    BY <1>1, WayType
  <1> QED BY <1>7, <1>8

\* The ends with some property are none, one or two.
LEMMA EndCount ==
  ASSUME NEW S \in SUBSET Ends
  PROVE  /\ Cardinality(S) \in Nat
         /\ Cardinality(S) = (IF "client" \in S THEN 1 ELSE 0) + (IF "server" \in S THEN 1 ELSE 0)
         /\ S # {} => Cardinality(S) >= 1
  <1>1. CASE S = {}
    BY <1>1, FS_EmptySet
  <1>2. CASE S = {"client"}
    BY <1>2, FS_Singleton
  <1>3. CASE S = {"server"}
    BY <1>3, FS_Singleton
  <1>4. CASE S = {"client", "server"}
    <2>1. IsFiniteSet({"client"}) /\ Cardinality({"client"}) = 1 /\ "server" \notin {"client"}
      BY FS_Singleton
    <2>2. Cardinality({"client"} \cup {"server"}) = 2
      BY <2>1, FS_AddElement
    <2>3. S = {"client"} \cup {"server"}
      BY <1>4
    <2> QED BY <2>2, <2>3
  <1> QED BY <1>1, <1>2, <1>3, <1>4 DEF Ends

\* Induction over the natural numbers, for a set of them.
LEMMA AllNumbers ==
  ASSUME NEW S \in SUBSET Nat, 0 \in S, \A n \in S : n + 1 \in S
  PROVE  S = Nat
  <1> DEFINE R == OpToRel(<, Nat)
             T == Nat \ S
  <1>1. IsWellFoundedOn(R, Nat) /\ \A y, x \in Nat : y < x => <<y, x>> \in R
    BY NatLessThanWellFounded DEF OpToRel
  <1> HIDE DEF R
  <1>2. ASSUME NEW x \in T, \A y \in T : ~(<<y, x>> \in R) PROVE FALSE
    <2>1. x - 1 \in Nat /\ x - 1 < x /\ (x - 1) + 1 = x
      BY <1>2
    <2>2. x - 1 \in S
      BY <1>1, <1>2, <2>1
    <2> QED BY <1>2, <2>1, <2>2
  <1>3. ASSUME T # {} PROVE FALSE
    <2>1. PICK x \in T : \A y \in T : ~(<<y, x>> \in R)
      BY <1>1, <1>3, WFMin
    <2> QED BY <1>2, <2>1
  <1> QED BY <1>3

\* The frames a stream can have on the way, both ways together.
Each == Cardinality(Writers) * (Window + 1) + 4 * Cardinality(Closing)
Both(w) == Way("client", w) + Way("server", w)

\* The numbers of the scope.
LEMMA ScopeNumbers ==
  ASSUME TableTypes
  PROVE  /\ Window \in Nat /\ Writers \in SUBSET Ends /\ Closing \in SUBSET Ends
         /\ Cardinality(Writers) \in Nat /\ Cardinality(Closing) \in Nat
         /\ Cardinality(Writers) * (Window + 1) \in Nat /\ Each \in Nat
  <1>1. scope \in Scopes
    BY DEF TableTypes
  <1>2. Window \in Nat /\ Writers \in SUBSET Ends /\ Closing \in SUBSET Ends
    BY <1>1, PairAssumption DEF Window, Writers, Closing, Ends
  <1>3. Cardinality(Writers) \in Nat /\ Cardinality(Closing) \in Nat
    BY <1>2, EndCount
  <1>4. \A a, b, c \in Nat : a * (b + 1) \in Nat /\ a * (b + 1) + 4 * c \in Nat
    OBVIOUS
  <1> QED BY <1>2, <1>3, <1>4 DEF Each

\* While both sessions run a stream has a window each way on the way, less what
\* its updates stand for, and two FINs of each end if relays end by themselves.
LEMMA OneStream ==
  ASSUME PairInv, Running, NEW s \in Streams
  PROVE  Both(Data(s)) + Both(Wins(s)) + Both(Fins(s)) <= Each
  <1> DEFINE c == "client"
             v == "server"
             n(e) == IF e \in Writers THEN 1 ELSE 0
  <1>1. /\ TableTypes /\ QueueTypes /\ \A e \in Ends : WindowKept(e, s) /\ OwedKept(e, s) /\ FinsKept(e, s)
    BY DEF PairInv
  <1>2. c \in Ends /\ v \in Ends /\ Other(c) = v /\ Other(v) = c
    BY DEF Ends, Other
  <1>3. /\ Window \in Nat /\ Writers \in SUBSET Ends /\ Closing \in SUBSET Ends
        /\ Cardinality(Writers) = n(c) + n(v) /\ Cardinality(Closing) \in Nat
        /\ (Closing # {} => Cardinality(Closing) >= 1)
    BY <1>1, ScopeNumbers, EndCount
  <1>4. ASSUME NEW e \in Ends
        PROVE  /\ Way(e, Data(s)) \in Nat /\ Way(e, Wins(s)) \in Nat /\ Way(e, Fins(s)) \in Nat
               /\ Way(Other(e), Wins(s)) \in Nat
               /\ Way(e, Data(s)) + Way(Other(e), Wins(s)) <= n(e) * (Window + 1)
               /\ Way(e, Fins(s)) <= 2 /\ (Closing = {} => Way(e, Fins(s)) = 0)
    <2>1. /\ Way(e, Data(s)) \in Nat /\ Way(e, Wins(s)) \in Nat /\ Way(e, Fins(s)) \in Nat
          /\ owed[e][s] \in Nat /\ Way(Other(e), Wins(s)) \in Nat
      BY <1>1, Entries, OtherEnd
    <2>2. Way(e, Data(s)) <= owed[e][s]
      BY <1>1 DEF OwedKept
    <2>3. owed[e][s] + Way(Other(e), Wins(s)) <= IF e \in Writers THEN Window + 1 ELSE 0
      BY <1>1, WindowBounds
    <2>4. (IF e \in Writers THEN Window + 1 ELSE 0) = n(e) * (Window + 1)
      BY <1>3
    <2>5. Way(e, Data(s)) + Way(Other(e), Wins(s)) <= n(e) * (Window + 1)
      <3>1. \A a, b, i, m \in Nat : a <= b /\ b + i <= m => a + i <= m
        OBVIOUS
      <3>2. (IF e \in Writers THEN Window + 1 ELSE 0) \in Nat
        BY <1>3
      <3> QED BY <2>1, <2>2, <2>3, <2>4, <3>1, <3>2
    <2>6. Way(e, Fins(s)) <= Made(e, s) /\ (Closing = {} => relay[e][s] = "open" /\ s \in streams[e])
      BY <1>1 DEF FinsKept
    <2>7. Made(e, s) \in {0, 1, 2} /\ (relay[e][s] = "open" /\ s \in streams[e] => Made(e, s) = 0)
      BY DEF Made
    <2>8. Way(e, Fins(s)) <= 2 /\ (Closing = {} => Way(e, Fins(s)) = 0)
      BY <2>1, <2>6, <2>7
    <2> QED BY <2>1, <2>5, <2>8
  <1>5. Way(c, Fins(s)) + Way(v, Fins(s)) <= 4 * Cardinality(Closing)
    <2>1. CASE Closing = {}
      <3>1. Way(c, Fins(s)) = 0 /\ Way(v, Fins(s)) = 0
        BY <1>2, <1>4, <2>1
      <3> QED BY <1>3, <3>1
    <2>2. CASE Closing # {}
      <3>1. Way(c, Fins(s)) <= 2 /\ Way(v, Fins(s)) <= 2 /\ Way(c, Fins(s)) \in Nat /\ Way(v, Fins(s)) \in Nat
        BY <1>2, <1>4
      <3> QED BY <1>3, <2>2, <3>1
    <2> QED BY <2>1, <2>2
  <1>6. /\ Way(c, Data(s)) + Way(v, Wins(s)) <= n(c) * (Window + 1)
        /\ Way(v, Data(s)) + Way(c, Wins(s)) <= n(v) * (Window + 1)
    BY <1>2, <1>4
  <1>7. /\ n(c) \in Nat /\ n(v) \in Nat /\ n(c) * (Window + 1) \in Nat /\ n(v) * (Window + 1) \in Nat
        /\ (n(c) + n(v)) * (Window + 1) = n(c) * (Window + 1) + n(v) * (Window + 1)
    BY <1>3
  <1>8. /\ Way(c, Data(s)) \in Nat /\ Way(v, Data(s)) \in Nat /\ Way(c, Wins(s)) \in Nat /\ Way(v, Wins(s)) \in Nat
        /\ Way(c, Fins(s)) \in Nat /\ Way(v, Fins(s)) \in Nat
    BY <1>2, <1>4
  <1>9. Each = (n(c) * (Window + 1) + n(v) * (Window + 1)) + 4 * Cardinality(Closing)
    BY <1>3, <1>7 DEF Each
  <1> HIDE DEF n
  <1>10. \A a, b, i, j, k, l, p, q, r \in Nat :
           a + j <= p /\ b + i <= q /\ k + l <= r => (a + b) + (i + j) + (k + l) <= (p + q) + r
    OBVIOUS
  <1>11. 4 * Cardinality(Closing) \in Nat
    BY <1>3
  <1> QED BY <1>5, <1>6, <1>7, <1>8, <1>9, <1>10, <1>11 DEF Both

\* And so for any number of streams.
LEMMA ManyStreams ==
  ASSUME PairInv, Running
  PROVE  Both(Streamed(Streams)) <= Cardinality(Streams) * Each
  <1>1. TableTypes /\ QueueTypes /\ Each \in Nat /\ "client" \in Ends /\ "server" \in Ends
    BY ScopeNumbers DEF PairInv, Ends
  <1>2. \A T : /\ Streamed(T) \in Blind /\ Way("client", Streamed(T)) \in Nat /\ Way("server", Streamed(T)) \in Nat
               /\ Both(Streamed(T)) \in Nat
    BY <1>1, ShareWeights, WayType DEF Streamed, Both
  <1> DEFINE Fine == {n \in Nat : \A T \in SUBSET Streams :
                         IsFiniteSet(T) /\ Cardinality(T) = n => Both(Streamed(T)) <= n * Each}
  <1>3. 0 \in Fine
    <2> SUFFICES ASSUME NEW T \in SUBSET Streams, IsFiniteSet(T), Cardinality(T) = 0
                 PROVE  Both(Streamed(T)) <= 0 * Each
      OBVIOUS
    <2>1. T = {}
      BY FS_EmptySet
    <2>2. \A ev \in Event : Streamed(T)[ev] = 0
      BY <2>1, ShareWeights DEF Streamed
    <2>3. ASSUME NEW e \in Ends PROVE Way(e, Streamed(T)) = 0
      <3>1. PICK w \in Blind : w = Streamed(T) /\ \A ev \in Event : w[ev] = 0
        BY <1>2, <2>2
      <3>2. Splits(w, w, w)
        BY <3>1 DEF Splits, Blind
      <3>3. Way(e, w) = Way(e, w) + Way(e, w) /\ Way(e, w) \in Nat
        BY <1>1, <3>2, WayAdd, WayType
      <3>4. \A n \in Nat : n = n + n => n = 0
        OBVIOUS
      <3>5. Way(e, w) = 0
        BY <3>3, <3>4
      <3> QED BY <3>1, <3>5
    <2>4. Both(Streamed(T)) = 0 + 0
      BY <1>1, <2>3 DEF Both
    <2> QED BY <1>1, <2>4
  <1>4. ASSUME NEW n \in Fine PROVE n + 1 \in Fine
    <2> SUFFICES ASSUME NEW T \in SUBSET Streams, IsFiniteSet(T), Cardinality(T) = n + 1
                 PROVE  Both(Streamed(T)) <= (n + 1) * Each
      OBVIOUS
    <2>1. n \in Nat
      OBVIOUS
    <2>2. T # {}
      BY <2>1, FS_EmptySet
    <2>3. PICK s \in T : TRUE
      BY <2>2
    <2>4. PICK U \in SUBSET Streams : U = T \ {s}
      OBVIOUS
    <2>5. IsFiniteSet(U) /\ Cardinality(U) = n /\ s \notin U /\ T = U \cup {s} /\ s \in Streams
      <3>1. IsFiniteSet(T \ {s}) /\ Cardinality(T \ {s}) = Cardinality(T) - 1
        BY <2>3, FS_RemoveElement
      <3> QED BY <2>1, <2>3, <2>4, <3>1
    <2>6. Both(Streamed(U)) <= n * Each
      BY <2>5
    <2>7. \A e \in Ends : /\ Way(e, Streamed(T)) = Way(e, Streamed(U)) + Way(e, Data(s)) + Way(e, Wins(s)) + Way(e, Fins(s))
                          /\ Way(e, Data(s)) \in Nat /\ Way(e, Wins(s)) \in Nat /\ Way(e, Fins(s)) \in Nat
      BY <1>1, <2>5, StreamedAdd, Entries
    <2>8. Both(Data(s)) + Both(Wins(s)) + Both(Fins(s)) <= Each
      BY <2>5, OneStream
    <2>9. /\ Both(Streamed(T)) = Both(Streamed(U)) + (Both(Data(s)) + Both(Wins(s)) + Both(Fins(s)))
          /\ Both(Data(s)) + Both(Wins(s)) + Both(Fins(s)) \in Nat
      <3>1. \A a, b, i, j, k, l, p, q \in Nat :
              (a + b + i + j) + (k + l + p + q) = (a + k) + ((b + l) + (i + p) + (j + q))
        OBVIOUS
      <3>2. /\ Way("client", Streamed(U)) \in Nat /\ Way("server", Streamed(U)) \in Nat
            /\ Way("client", Data(s)) \in Nat /\ Way("server", Data(s)) \in Nat
            /\ Way("client", Wins(s)) \in Nat /\ Way("server", Wins(s)) \in Nat
            /\ Way("client", Fins(s)) \in Nat /\ Way("server", Fins(s)) \in Nat
        BY <1>1, <1>2, <2>7
      <3>3. /\ Way("client", Streamed(T)) = Way("client", Streamed(U)) + Way("client", Data(s)) + Way("client", Wins(s)) + Way("client", Fins(s))
            /\ Way("server", Streamed(T)) = Way("server", Streamed(U)) + Way("server", Data(s)) + Way("server", Wins(s)) + Way("server", Fins(s))
        BY <1>1, <2>7
      <3> QED BY <3>1, <3>2, <3>3 DEF Both
    <2>10. n * Each \in Nat /\ (n + 1) * Each = n * Each + Each
      <3>1. \A a, b \in Nat : a * b \in Nat /\ (a + 1) * b = a * b + b
        OBVIOUS
      <3> QED BY <1>1, <2>1, <3>1
    <2>11. \A a, b, c, d \in Nat : a <= b /\ c <= d => a + c <= b + d
      OBVIOUS
    <2> QED BY <1>1, <1>2, <2>6, <2>8, <2>9, <2>10, <2>11
  <1> HIDE DEF Fine
  <1>5. Fine = Nat
    <2>1. Fine \in SUBSET Nat
      BY DEF Fine
    <2> QED BY <1>3, <1>4, <2>1, AllNumbers
  <1>6. IsFiniteSet(Streams) /\ Cardinality(Streams) \in Nat
    BY PairAssumption, FS_CardinalityType
  <1> QED BY <1>5, <1>6 DEF Fine

\* Every frame that waits counts, and so does a ROUTINE.
LEMMA FrameWeights ==
  /\ Frames \in Blind /\ Queueing \in Weights
  /\ Splits(Frames, Streamed(Streams), Pings)
  /\ Splits(Queueing, Frames, Routines) /\ Splits(Frames, Own(Frames), Far(Frames))
  /\ \A ev \in Proper : Queueing[ev] >= 1
  /\ \A ev \in Outgoing : Own(Frames)[ev] >= 1
  /\ \A ev \in Arrived : Far(Frames)[ev] >= 1
  /\ \A ev \in Wire : Routines[ev] = 0
  <1>1. Streamed(Streams) \in Blind /\ Pings \in Blind /\ Routines \in Weights
    BY ShareWeights, TheWeights DEF Streamed
  <1>2. Streamed(Streams) \in Weights /\ Pings \in Weights
    BY <1>1 DEF Blind
  <1>3. \A ev \in Event :
           /\ Streamed(Streams)[ev] = IF ev.k \in {"DATA", "WIN", "FIN"} /\ ev.s \in Streams
                                        THEN IF ev.k = "WIN" THEN ev.n ELSE 1 ELSE 0
           /\ Pings[ev] = IF ev.k \in {"PING", "PONG"} THEN 1 ELSE 0
           /\ Routines[ev] = IF ev.k = "ROUTINE" THEN 1 ELSE 0
           /\ Streamed(Streams)[ev] \in Nat /\ Pings[ev] \in Nat /\ Routines[ev] \in Nat
    BY <1>1, <1>2, ShareWeights, EventWeights DEF Streamed, Weights
  <1>4. \A ev \in Event : Frames[ev] = Streamed(Streams)[ev] + Pings[ev] /\ Queueing[ev] = Frames[ev] + Routines[ev]
    BY DEF Frames, Queueing
  <1>5. Frames \in Weights /\ Queueing \in Weights
    <2>1. Frames \in Weights
      BY <1>3 DEF Frames, Weights
    <2>2. \A ev \in Event : Frames[ev] \in Nat
      BY <2>1 DEF Weights
    <2> QED BY <1>3, <2>1, <2>2 DEF Queueing, Weights
  <1>6. Frames \in Blind
    <2>1. Nothing \in Event
      BY EventsMade
    <2>2. \A ev \in Event : [ev EXCEPT !.remote = TRUE] \in Event
      BY DEF Event
    <2>3. /\ Streamed(Streams)[Nothing] = 0 /\ Pings[Nothing] = 0
          /\ \A ev \in Event : /\ Streamed(Streams)[[ev EXCEPT !.remote = TRUE]] = Streamed(Streams)[ev]
                               /\ Pings[[ev EXCEPT !.remote = TRUE]] = Pings[ev]
      BY <1>1 DEF Blind
    <2> QED BY <1>4, <1>5, <2>1, <2>2, <2>3 DEF Blind
  <1>7. Splits(Frames, Streamed(Streams), Pings)
    BY <1>2, <1>3, <1>4, <1>5 DEF Splits
  <1>8. Splits(Queueing, Frames, Routines)
    BY <1>1, <1>3, <1>4, <1>5 DEF Splits
  <1>9. /\ Own(Frames) \in Weights /\ Far(Frames) \in Weights
        /\ \A ev \in Event : /\ Frames[ev] \in Nat
                             /\ ev.remote => Own(Frames)[ev] = 0 /\ Far(Frames)[ev] = Frames[ev]
                             /\ ~ev.remote => Own(Frames)[ev] = Frames[ev] /\ Far(Frames)[ev] = 0
    BY <1>6, Parts
  <1>10. Splits(Frames, Own(Frames), Far(Frames))
    BY <1>5, <1>9 DEF Splits
  <1>11. ASSUME NEW ev \in Proper PROVE /\ Queueing[ev] >= 1 /\ ev \in Event
                                        /\ ev.k # "ROUTINE" => Frames[ev] >= 1
    <2>1. /\ ev \in Event /\ (ev.k = "WIN" => ev.n >= 1) /\ (ev.k \in {"DATA", "WIN", "FIN"} => ev.s \in Streams)
      BY DEF Proper
    <2>2. ev.k \in {"DATA", "WIN", "FIN", "PING", "PONG", "ROUTINE"}
      BY <2>1 DEF Event
    <2>3. ev.k # "ROUTINE" => Frames[ev] >= 1
      BY <1>3, <1>4, <2>1, <2>2
    <2>4. Queueing[ev] >= 1
      BY <1>3, <1>4, <1>9, <2>1, <2>3
    <2> QED BY <2>1, <2>3, <2>4
  <1>12. \A ev \in Wire : ev \in Proper /\ ev.k # "ROUTINE"
    BY DEF Wire
  <1>13. (\A ev \in Outgoing : ev \in Wire /\ ~ev.remote) /\ (\A ev \in Arrived : ev \in Wire /\ ev.remote)
    BY DEF Outgoing, Arrived
  <1> QED BY <1>3, <1>5, <1>6, <1>7, <1>8, <1>9, <1>10, <1>11, <1>12, <1>13

\* What an end holds when it waits for the other.
LEMMA EndFull ==
  ASSUME QueueTypes, Gridlock, NEW e \in Ends
  PROVE  EvCap + SendCap + NetCap + 3 <=
            Sending(e, Frames) + Coming(e, Frames) + Weight(evq[e], Routines)
  <1> DEFINE u == Own(Frames)
             v == Far(Frames)
  <1>1. /\ epc[e] = "forward" /\ Len(sendq[e]) = SendCap /\ vbuf[e] # <<>> /\ Len(net[e]) = NetCap
        /\ rheld[e] # <<>> /\ Len(evq[e]) = EvCap
    BY DEF Gridlock
  <1>2. /\ evq[e] \in Seq(Event) /\ sendq[e] \in Seq(Event) /\ vbuf[e] \in Seq(Event)
        /\ net[e] \in Seq(Event) /\ rheld[e] \in Seq(Event)
        /\ evq[e] \in Seq(Proper) /\ sendq[e] \in Seq(Outgoing) /\ vbuf[e] \in Seq(Outgoing)
        /\ net[e] \in Seq(Outgoing) /\ rheld[e] \in Seq(Arrived)
        /\ epc[e] = "forward" => eheld[e] \in Outgoing
    BY EndQueues
  <1>3. Frames \in Blind /\ Queueing \in Weights /\ Routines \in Weights /\ u \in Weights /\ v \in Weights
    BY FrameWeights, TheWeights, Parts
  <1>4. /\ Weight(evq[e], u) \in Nat /\ Weight(evq[e], v) \in Nat /\ u[eheld[e]] \in Nat /\ v[eheld[e]] \in Nat
        /\ Weight(sendq[e], u) \in Nat /\ Weight(vbuf[e], u) \in Nat
        /\ Weight(net[e], u) \in Nat /\ Weight(rheld[e], v) \in Nat
    BY <1>3, EndWeights
  <1>5. Weight(evq[e], Routines) \in Nat
    BY <1>2, <1>3, WeightType
  <1>6. EvCap <= (Weight(evq[e], u) + Weight(evq[e], v)) + Weight(evq[e], Routines)
    <2>1. Weight(evq[e], Queueing) = Weight(evq[e], Frames) + Weight(evq[e], Routines)
      BY <1>2, FrameWeights, WeightAdd
    <2>2. Weight(evq[e], Frames) = Weight(evq[e], u) + Weight(evq[e], v)
      BY <1>2, FrameWeights, WeightAdd
    <2>3. \A i \in 1 .. Len(evq[e]) : Queueing[evq[e][i]] >= 1
      BY <1>2, FrameWeights
    <2>4. Len(evq[e]) <= Weight(evq[e], Queueing)
      BY <1>2, <1>3, <2>3, WeightBounds
    <2> QED BY <1>1, <2>1, <2>2, <2>4
  <1>7. u[eheld[e]] >= 1
    BY <1>1, <1>2, FrameWeights
  <1>8. SendCap <= Weight(sendq[e], u)
    <2>1. \A i \in 1 .. Len(sendq[e]) : u[sendq[e][i]] >= 1
      BY <1>2, FrameWeights
    <2> QED BY <1>1, <1>2, <1>3, <2>1, WeightBounds
  <1>9. NetCap <= Weight(net[e], u)
    <2>1. \A i \in 1 .. Len(net[e]) : u[net[e][i]] >= 1
      BY <1>2, FrameWeights
    <2> QED BY <1>1, <1>2, <1>3, <2>1, WeightBounds
  <1>10. 1 <= Weight(vbuf[e], u)
    <2>1. \A i \in 1 .. Len(vbuf[e]) : u[vbuf[e][i]] >= 1
      BY <1>2, FrameWeights
    <2>2. Len(vbuf[e]) <= Weight(vbuf[e], u)
      BY <1>2, <1>3, <2>1, WeightBounds
    <2>3. Len(vbuf[e]) \in Nat /\ Len(vbuf[e]) # 0
      BY <1>1, <1>2
    <2> QED BY <1>4, <2>2, <2>3
  <1>11. 1 <= Weight(rheld[e], v)
    <2>1. \A i \in 1 .. Len(rheld[e]) : v[rheld[e][i]] >= 1
      BY <1>2, FrameWeights
    <2>2. Len(rheld[e]) <= Weight(rheld[e], v)
      BY <1>2, <1>3, <2>1, WeightBounds
    <2>3. Len(rheld[e]) \in Nat /\ Len(rheld[e]) # 0
      BY <1>1, <1>2
    <2> QED BY <1>4, <2>2, <2>3
  <1>12. EvCap \in Nat /\ SendCap \in Nat /\ NetCap \in Nat
    BY PairAssumption
  <1>13. /\ Sending(e, Frames) = Weight(evq[e], u) + u[eheld[e]] + Weight(sendq[e], u)
                                  + Weight(vbuf[e], u) + Weight(net[e], u)
         /\ Coming(e, Frames) = Weight(rheld[e], v) + Weight(evq[e], v) + v[eheld[e]]
    BY DEF Sending, Coming
  <1>14. \A a, b, c, d, f, g, h, i, j, k, m, n \in Nat :
            k <= (a + b) + c /\ 1 <= d /\ m <= f /\ n <= g /\ 1 <= h /\ 1 <= i =>
               k + m + n + 3 <= (a + d + f + h + g) + (i + b + j) + c
    OBVIOUS
  <1> HIDE DEF u, v
  <1> QED BY <1>4, <1>5, <1>6, <1>7, <1>8, <1>9, <1>10, <1>11, <1>12, <1>13, <1>14

\* The two ends of a session wait for each other only if the windows of all
\* streams together, the PINGs and the FINs can fill every queue on the way in both
\* directions: with windows below that, no order of steps leads to a gridlock.
THEOREM GridlockCause == Spec => []GridlockNeedsWindow
  <1>1. ASSUME PairInv, Gridlock PROVE scope \in Tight
    <2> DEFINE c == "client"
               v == "server"
               N == Cardinality(Streams)
    <2>1. TableTypes /\ QueueTypes /\ PingsKept
      BY <1>1 DEF PairInv
    <2>2. Running
      BY <1>1 DEF Gridlock, Running
    <2>3. c \in Ends /\ v \in Ends /\ Other(c) = v /\ Other(v) = c
      BY DEF Ends, Other
    <2>4. /\ pings \in Nat /\ scope.pings \in Nat /\ pings <= scope.pings
          /\ Way(c, Pings) \in Nat /\ Way(v, Pings) \in Nat /\ Waiting \in Nat
      BY <2>1, PingCounts
    <2>5. Both(Pings) <= pings /\ Waiting <= pings /\ Both(Pings) \in Nat
      <3>1. PICK a \in Nat : a = IF due = <<"PING", "ROUTINE">> THEN 1 ELSE 0
        OBVIOUS
      <3>2. PICK b \in Nat : b = IF due = <<>> THEN 0 ELSE 1
        OBVIOUS
      <3>3. Way(c, Pings) + Way(v, Pings) + a <= pings /\ Waiting + b <= pings
        BY <2>1, <3>1, <3>2 DEF PingsKept
      <3>4. \A x, y, z \in Nat : x + y <= z => x <= z
        OBVIOUS
      <3>5. Way(c, Pings) + Way(v, Pings) \in Nat
        BY <2>4
      <3> QED BY <2>4, <3>3, <3>4, <3>5 DEF Both
    <2>6. Both(Streamed(Streams)) <= N * Each /\ Both(Streamed(Streams)) \in Nat
      <3>1. Streamed(Streams) \in Blind
        BY ShareWeights DEF Streamed
      <3>2. Way(c, Streamed(Streams)) \in Nat /\ Way(v, Streamed(Streams)) \in Nat
        BY <2>1, <2>3, <3>1, WayType
      <3> QED BY <1>1, <2>2, <3>2, ManyStreams DEF Both
    <2>7. Both(Frames) = Both(Streamed(Streams)) + Both(Pings)
      <3>1. Frames \in Blind /\ Streamed(Streams) \in Blind /\ Pings \in Blind
        BY FrameWeights, ShareWeights, TheWeights DEF Streamed
      <3>2. \A e \in Ends : Way(e, Frames) = Way(e, Streamed(Streams)) + Way(e, Pings)
        BY <2>1, <3>1, FrameWeights, WayAdd
      <3>3. \A e \in Ends : Way(e, Streamed(Streams)) \in Nat /\ Way(e, Pings) \in Nat
        BY <2>1, <3>1, WayType
      <3> QED BY <2>3, <3>2, <3>3 DEF Both
    <2>8. EvCap + SendCap + NetCap + 3 <= Sending(c, Frames) + Coming(c, Frames) + Waiting
      BY <1>1, <2>1, <2>3, EndFull DEF Waiting
    <2>9. EvCap + SendCap + NetCap + 3 <= Sending(v, Frames) + Coming(v, Frames)
      <3>1. EvCap + SendCap + NetCap + 3 <= Sending(v, Frames) + Coming(v, Frames) + Weight(evq[v], Routines)
        BY <1>1, <2>1, <2>3, EndFull
      <3>2. evq[v] \in Seq(Wire) /\ evq[v] \in Seq(Event)
        BY <2>1, <2>3, EndQueues
      <3>3. Weight(evq[v], Routines) = 0
        <4>1. \A i \in 1 .. Len(evq[v]) : Routines[evq[v][i]] = 0
          BY <3>2, FrameWeights
        <4> QED BY <3>2, <4>1, TheWeights, WeightBounds
      <3>4. Sending(v, Frames) \in Nat /\ Coming(v, Frames) \in Nat
        BY <2>1, <2>3, FrameWeights, EndWeights
      <3> QED BY <3>1, <3>3, <3>4
    <2>10. Needed <= Both(Frames) + Waiting
      <3>1. /\ Sending(c, Frames) \in Nat /\ Coming(c, Frames) \in Nat
            /\ Sending(v, Frames) \in Nat /\ Coming(v, Frames) \in Nat
        BY <2>1, <2>3, FrameWeights, EndWeights
      <3>2. Both(Frames) = (Sending(c, Frames) + Coming(v, Frames)) + (Sending(v, Frames) + Coming(c, Frames))
        BY <2>3 DEF Both, Way
      <3>3. \A a, b, x, y, w, n \in Nat : n <= a + b + w /\ n <= x + y => 2 * n <= ((a + y) + (x + b)) + w
        OBVIOUS
      <3>4. EvCap + SendCap + NetCap + 3 \in Nat
        BY PairAssumption
      <3> QED BY <2>4, <2>8, <2>9, <3>1, <3>2, <3>3, <3>4 DEF Needed
    <2>11. N * Each \in Nat /\ N \in Nat
      <3>1. N \in Nat /\ Each \in Nat
        BY <2>1, PairAssumption, FS_CardinalityType, ScopeNumbers
      <3>2. \A x, y \in Nat : x * y \in Nat
        OBVIOUS
      <3> QED BY <3>1, <3>2
    <2>12. Needed <= N * Each + 2 * scope.pings
      <3>1. \A n, s, p, w, m, k, l \in Nat : n <= s + p + w /\ s <= m /\ p <= k /\ w <= k /\ k <= l => n <= m + 2 * l
        OBVIOUS
      <3>2. Needed \in Nat
        BY PairAssumption DEF Needed
      <3>3. Needed <= Both(Streamed(Streams)) + Both(Pings) + Waiting
        BY <2>7, <2>10
      <3> QED BY <2>4, <2>5, <2>6, <2>11, <3>1, <3>2, <3>3
    <2>13. Possible(scope) = N * Each + 2 * scope.pings
      <3>1. \A a, b, d, w, p \in Nat : a * b * (w + 1) + 2 * p + 4 * d * b = b * (a * (w + 1) + 4 * d) + 2 * p
        OBVIOUS
      <3>2. Window \in Nat /\ Cardinality(Writers) \in Nat /\ Cardinality(Closing) \in Nat
        BY <2>1, ScopeNumbers
      <3>3. Possible(scope) = Cardinality(Writers) * N * (Window + 1) + 2 * scope.pings + 4 * Cardinality(Closing) * N
        BY DEF Possible, Writers, Closing, Window
      <3>4. N * Each = N * (Cardinality(Writers) * (Window + 1) + 4 * Cardinality(Closing))
        BY DEF Each
      <3> HIDE DEF N
      <3> QED BY <2>4, <2>11, <3>1, <3>2, <3>3, <3>4
    <2>14. scope \in Scopes
      BY <2>1 DEF TableTypes
    <2>15. Possible(scope) >= Needed
      <3>1. Needed \in Nat /\ Possible(scope) \in Nat
        BY <2>4, <2>11, <2>13, PairAssumption DEF Needed
      <3> QED BY <2>12, <2>13, <3>1
    <2> QED BY <2>14, <2>15 DEF Tight
  <1>2. PairInv => GridlockNeedsWindow
    BY <1>1 DEF GridlockNeedsWindow
  <1> QED BY <1>2, PairSound, PTL
=============================================================================
