-------------------------- MODULE HeartbeatProofs --------------------------
(***************************************************************************)
(* Proofs about Heartbeat for any limits, thresholds, delays and jumps of  *)
(* the clock.  HeartInv relates the clock to the time of the last round of *)
(* the routine, to the last activity and to the last PING and PONG, and    *)
(* says which of these the events on their way are about to bring up to    *)
(* date.                                                                   *)
(***************************************************************************)
EXTENDS Heartbeat, TLAPS

-----------------------------------------------------------------------------
(* The invariant, in parts.                                                 *)

\* The events and frames of the model; a queue that holds one.
Kinds == {"PING", "ROUTINE", "SHUTDOWN", "PONG", "REMOTE_PING"}
Has(q, k) == \E i \in 1..Len(q) : q[i] = k

\* Types.
TypesInv ==
    /\ role \in Roles /\ role \in {"client", "server"}
    /\ clock \in Nat \ {0} /\ ping_time \in Nat /\ ticked \in BOOLEAN /\ routine \in {"runs", "dead"}
    /\ last_ping \in Nat /\ last_pong \in Nat /\ io_active \in Nat
    /\ retired \in BOOLEAN /\ late \in BOOLEAN /\ busy \in BOOLEAN
    /\ evq \in Seq(Kinds) /\ out \in Seq(Kinds) /\ session \in {"up", "closed", "crashed"}
    /\ peer \in {"alive", "dead"} /\ asked \in Int /\ asked >= -1
    /\ quiet \in Nat /\ deadFor \in Nat /\ jumped \in Jumps \cup {0}

\* The time that has passed, whatever the clock was set to; an unanswered PING is no
\* older.
ElapsedInv == clock - Start - jumped \in 0..MaxTime /\ asked <= clock - Start - jumped

\* What is on its way, and what one unit of time can still add to it.
LoadInv ==
    Len(evq) + Len(out) + (IF ticked THEN 0 ELSE 2) + (IF asked >= 0 THEN 1 ELSE 0)
        + (IF quiet > 0 THEN 1 ELSE 0) <= 4

\* Unless the clock was set back, no time is in the future, nothing has panicked,
\* and the last round of the routine was at most a period ago.
ForwardInv ==
    jumped >= 0 =>
        /\ ping_time <= clock /\ io_active <= clock /\ routine = "runs" /\ session # "crashed"
        /\ clock - ping_time <= Longest + jumped - (IF ticked THEN 1 ELSE 0)

\* Events of the routine are gone before the next round, a SHUTDOWN is sent to
\* retired sessions only, and a PING is handled at the time of its round.
QueueInv ==
    /\ ~ticked => \A k \in {"PING", "ROUTINE", "SHUTDOWN"} : ~Has(evq, k)
    /\ ~ticked => ~Has(out, "PING")
    /\ Has(evq, "SHUTDOWN") => retired
    /\ jumped = 0 /\ Has(evq, "PING") => clock = ping_time

\* A session that is pinged, or whose other end pings, was active at most a period
\* ago.  A PING on its way stands for the activity since the last round.
ActiveInv ==
    jumped >= 0 /\ ~retired =>
        /\ role = "client" /\ io_active > 0 =>
              /\ clock - io_active <= Longest + jumped
              /\ Has(evq, "PING") \/ Has(out, "PING") \/ ping_time <= io_active
        /\ role = "server" /\ peer = "alive" =>
              /\ quiet <= PeerGap
              /\ io_active > 0 => clock - io_active <= quiet + jumped

\* An open session was active within the idle limit of the last round, or is about
\* to be told.
IdleInv ==
    jumped = 0 /\ session = "up" /\ io_active > 0 =>
        /\ clock - io_active <= IdleLimit + Longest
        /\ Has(evq, "ROUTINE") \/ Has(evq, "SHUTDOWN") \/ ping_time - io_active < IdleLimit

\* The last PONG is older than the death of the other end, the last PING is of the
\* last round, and while the session is kept that round was not too long after.
DeadInv ==
    /\ peer = "alive" \/ Has(evq, "PONG") => deadFor = 0
    /\ last_pong > 0 \/ Has(evq, "PONG") \/ asked >= 0 \/ Has(out, "PING") => last_ping > 0
    /\ jumped = 0 => last_pong <= clock - deadFor
    /\ jumped = 0 /\ role = "client" /\ ~retired =>
          /\ last_ping > 0 => Has(evq, "PING") \/ last_ping = ping_time
          /\ last_pong > 0 => ping_time - (clock - deadFor) <= GapLimit + Longest

\* Only a client pings; unless the clock was set back no PING or PONG is in the
\* future; an other end that is there is not behind with its answer.
PingedInv ==
    /\ role = "server" => last_ping = 0 /\ ~Has(evq, "PING") /\ ~Has(out, "PING")
    /\ jumped >= 0 => last_ping <= clock /\ last_pong <= clock
    /\ peer = "alive" => asked <= MaxDelay

\* An other end that is there has answered all PINGs but those under way, so that
\* its last PONG is no older than a period and the time its answer takes.
AnswerInv ==
    jumped >= 0 /\ role = "client" /\ peer = "alive" /\ ~retired =>
        /\ last_ping > 0 => Has(evq, "PING") \/ last_ping >= ping_time
        /\ asked < 0 /\ ~Has(evq, "PONG") /\ ~Has(out, "PING") /\ last_pong > 0 =>
              last_pong >= last_ping
        /\ last_pong > 0 =>
              clock - last_pong <= Longest + jumped +
                 (IF Has(evq, "PONG") THEN MaxDelay ELSE IF asked >= 0 THEN asked ELSE 0)

\* The inductive invariant.
HeartInv ==
    /\ TypesInv /\ ElapsedInv /\ LoadInv /\ ForwardInv
    /\ QueueInv /\ ActiveInv /\ IdleInv /\ DeadInv /\ PingedInv /\ AnswerInv

-----------------------------------------------------------------------------
(* Constants and queues.                                                    *)

\* The limits are positive numbers, and a jump does not take the clock below 1.
LEMMA Limits ==
  /\ GapLimit \in Nat \ {0} /\ IdleLimit \in Nat \ {0} /\ MaxDelay \in Nat \ {0}
  /\ PeerGap \in Nat \ {0} /\ Start \in Nat /\ Start >= 2 /\ MaxTime \in Nat \ {0}
  /\ Jumps \subseteq Int /\ \A j \in Jumps : Start + j > 0
  BY HeartbeatAssumption

\* Longest is above every threshold the routine can draw.
LEMMA LongestIs ==
  Longest \in Nat /\ Longest >= 2 /\ \A th \in Thresholds : th \in Nat /\ th <= Longest - 1
  <1> DEFINE m == CHOOSE t \in Thresholds : \A u \in Thresholds : u <= t
  <1>1. m \in Thresholds /\ \A u \in Thresholds : u <= m
    BY HeartbeatAssumption
  <1>2. Longest = m + 1
    BY DEF Longest
  <1>3. Thresholds \subseteq Nat \ {0}
    BY HeartbeatAssumption
  <1> HIDE DEF m
  <1> QED BY <1>1, <1>2, <1>3

\* What an event that is put into a queue adds to it.
LEMMA Appended ==
  ASSUME NEW q \in Seq(Kinds), NEW x \in Kinds
  PROVE  /\ Append(q, x) \in Seq(Kinds) /\ Len(Append(q, x)) = Len(q) + 1
         /\ \A k : Has(Append(q, x), k) <=> Has(q, k) \/ k = x
  <1>1. /\ Append(q, x) \in Seq(Kinds) /\ Len(Append(q, x)) = Len(q) + 1 /\ Len(q) \in Nat
        /\ \A i \in 1..Len(q) : Append(q, x)[i] = q[i]
        /\ Append(q, x)[Len(q) + 1] = x
    OBVIOUS
  <1>2. ASSUME NEW k PROVE Has(Append(q, x), k) <=> Has(q, k) \/ k = x
    BY <1>1 DEF Has
  <1> QED BY <1>1, <1>2

\* What the first event leaves behind.
LEMMA Taken ==
  ASSUME NEW q \in Seq(Kinds), q # <<>>
  PROVE  /\ Tail(q) \in Seq(Kinds) /\ Len(Tail(q)) = Len(q) - 1 /\ Head(q) \in Kinds
         /\ \A k : Has(q, k) <=> k = Head(q) \/ Has(Tail(q), k)
  <1>1. /\ Tail(q) \in Seq(Kinds) /\ Len(Tail(q)) = Len(q) - 1 /\ Head(q) \in Kinds
        /\ Len(q) \in Nat \ {0} /\ Head(q) = q[1]
        /\ \A i \in 1..(Len(q) - 1) : Tail(q)[i] = q[i + 1]
    OBVIOUS
  <1>2. ASSUME NEW k PROVE Has(q, k) <=> k = Head(q) \/ Has(Tail(q), k)
    <2>1. ASSUME Has(q, k) PROVE k = Head(q) \/ Has(Tail(q), k)
      <3>1. PICK i \in 1..Len(q) : q[i] = k
        BY <2>1 DEF Has
      <3>2. CASE i = 1
        BY <1>1, <3>1, <3>2
      <3>3. CASE i # 1
        <4>1. i - 1 \in 1..(Len(q) - 1) /\ (i - 1) + 1 = i
          BY <1>1, <3>3
        <4>2. Tail(q)[i - 1] = k
          BY <1>1, <3>1, <4>1
        <4> QED BY <1>1, <4>1, <4>2 DEF Has
      <3> QED BY <3>2, <3>3
    <2>2. ASSUME Has(Tail(q), k) PROVE Has(q, k)
      <3>1. PICK i \in 1..(Len(q) - 1) : q[i + 1] = k
        BY <1>1, <2>2 DEF Has
      <3>2. i + 1 \in 1..Len(q)
        BY <1>1
      <3> QED BY <3>1, <3>2 DEF Has
    <2>3. ASSUME k = Head(q) PROVE Has(q, k)
      <3>1. 1 \in 1..Len(q)
        BY <1>1
      <3> QED BY <1>1, <2>3, <3>1 DEF Has
    <2> QED BY <2>1, <2>2, <2>3
  <1> QED BY <1>1, <1>2

\* The empty queue holds nothing.
LEMMA Nothing ==
  /\ <<>> \in Seq(Kinds) /\ Len(<<>>) = 0 /\ \A k : ~Has(<<>>, k)
  <1>1. <<>> \in Seq(Kinds) /\ Len(<<>>) = 0
    OBVIOUS
  <1> QED BY <1>1 DEF Has

\* What one round of the routine puts into the event queue.
LEMMA OneMore ==
  ASSUME NEW q \in Seq(Kinds), NEW x \in Kinds
  PROVE  q \o <<x>> = Append(q, x)
  OBVIOUS

\* The two events of a round, one after the other.
LEMMA TwoMore ==
  ASSUME NEW q \in Seq(Kinds), NEW x \in Kinds, NEW y \in Kinds
  PROVE  q \o <<x, y>> = Append(Append(q, x), y)
  OBVIOUS

-----------------------------------------------------------------------------
(* One lemma per action.                                                    *)

\* A unit of time passes.
LEMMA PassKeeps ==
  ASSUME HeartInv, Pass
  PROVE  HeartInv'
  <1>0. TypesInv /\ ElapsedInv /\ LoadInv /\ ForwardInv
        /\ QueueInv /\ ActiveInv /\ IdleInv /\ DeadInv /\ PingedInv /\ AnswerInv
    BY DEF HeartInv
  <1>1. UNCHANGED <<ping_time, routine, last_ping, last_pong, io_active, retired, late, busy, evq, out, session, peer, jumped, role>>
    BY DEF Pass, Settled, AnswerDue, FrameDue, times, state, network, EvFrame
  <1>2. /\ session = "up" /\ clock - Start - jumped < MaxTime
        /\ evq = <<>> /\ out = <<>> /\ (ticked \/ routine = "dead")
        /\ ~(peer = "alive" /\ asked >= MaxDelay)
        /\ ~(peer = "alive" /\ role = "server" /\ ~retired /\ quiet >= PeerGap)
        /\ clock' = clock + 1 /\ ticked' = FALSE
        /\ asked' = IF asked >= 0 THEN asked + 1 ELSE asked
        /\ quiet' = IF role = "server" THEN quiet + 1 ELSE 0
        /\ deadFor' = IF peer = "dead" THEN deadFor + 1 ELSE 0
    BY <1>0, <1>1 DEF Pass, Settled, AnswerDue, FrameDue, times, state, network, EvFrame, TypesInv
  <1>3. /\ Len(evq) = 0 /\ Len(out) = 0 /\ (\A k : ~Has(evq, k)) /\ (\A k : ~Has(out, k))
    BY <1>2, Nothing
  <1>4. TypesInv'
    <2>1. clock' \in Nat \ {0} /\ deadFor' \in Nat /\ quiet' \in Nat
      BY <1>0, <1>2 DEF TypesInv
    <2>2. asked' \in Int /\ asked' >= -1
      BY <1>0, <1>2 DEF TypesInv
    <2> QED BY <1>0, <1>1, <1>2, <2>1, <2>2 DEF TypesInv
  <1>5. ElapsedInv'
    BY <1>0, <1>1, <1>2, <1>3, Limits, LongestIs DEF TypesInv, ElapsedInv
  <1>6. LoadInv'
    BY <1>0, <1>1, <1>2, <1>3, Limits, LongestIs DEF TypesInv, LoadInv
  <1>7. ForwardInv'
    BY <1>0, <1>1, <1>2, <1>3, Limits, LongestIs DEF TypesInv, ForwardInv
  <1>8. QueueInv'
    BY <1>0, <1>1, <1>2, <1>3, Limits, LongestIs DEF TypesInv, QueueInv, ForwardInv
  <1>9. ActiveInv'
    BY <1>0, <1>1, <1>2, <1>3, Limits, LongestIs DEF TypesInv, ForwardInv, QueueInv, ActiveInv
  <1>10. IdleInv'
    BY <1>0, <1>1, <1>2, <1>3, Limits, LongestIs DEF TypesInv, ForwardInv, QueueInv, IdleInv
  <1>11. DeadInv'
    BY <1>0, <1>1, <1>2, <1>3, Limits, LongestIs DEF TypesInv, ForwardInv, QueueInv, DeadInv
  <1>12. PingedInv'
    BY <1>0, <1>1, <1>2, <1>3, Limits, LongestIs DEF TypesInv, ForwardInv, QueueInv, PingedInv
  <1>13. AnswerInv'
    BY <1>0, <1>1, <1>2, <1>3, Limits, LongestIs DEF TypesInv, ForwardInv, QueueInv, DeadInv, PingedInv, AnswerInv
  <1> QED BY <1>4, <1>5, <1>6, <1>7, <1>8, <1>9, <1>10, <1>11,
             <1>12, <1>13 DEF HeartInv

\* The clock is set.
LEMMA SetClockKeeps ==
  ASSUME HeartInv, SetClock
  PROVE  HeartInv'
  <1>0. TypesInv /\ ElapsedInv /\ LoadInv /\ ForwardInv
        /\ QueueInv /\ ActiveInv /\ IdleInv /\ DeadInv /\ PingedInv /\ AnswerInv
    BY DEF HeartInv
  <1>1. UNCHANGED <<ping_time, ticked, routine, last_ping, last_pong, io_active, retired, late, busy, evq, out, session, peer, asked, quiet, deadFor, role>>
    BY DEF SetClock, times, state, network, EvFrame
  <1>2. /\ session = "up" /\ jumped = 0
        /\ \E j \in Jumps : j # 0 /\ clock' = clock + j /\ jumped' = j
    BY <1>0, <1>1 DEF SetClock, times, state, network, EvFrame, TypesInv
  <1>4. TypesInv'
    BY <1>0, <1>1, <1>2, Limits DEF TypesInv, ElapsedInv
  <1>5. ElapsedInv'
    BY <1>0, <1>1, <1>2, Limits, LongestIs DEF TypesInv, ElapsedInv
  <1>6. LoadInv'
    BY <1>0, <1>1, <1>2, Limits, LongestIs DEF TypesInv, LoadInv
  <1>7. ForwardInv'
    BY <1>0, <1>1, <1>2, Limits, LongestIs DEF TypesInv, ForwardInv
  <1>8. QueueInv'
    BY <1>0, <1>1, <1>2, Limits, LongestIs DEF TypesInv, QueueInv, ForwardInv
  <1>9. ActiveInv'
    BY <1>0, <1>1, <1>2, Limits, LongestIs DEF TypesInv, ForwardInv, QueueInv, ActiveInv
  <1>10. IdleInv'
    BY <1>0, <1>1, <1>2, Limits, LongestIs DEF TypesInv, ForwardInv, QueueInv, IdleInv
  <1>11. DeadInv'
    BY <1>0, <1>1, <1>2, Limits, LongestIs DEF TypesInv, ForwardInv, QueueInv, DeadInv
  <1>12. PingedInv'
    BY <1>0, <1>1, <1>2, Limits, LongestIs DEF TypesInv, ForwardInv, QueueInv, PingedInv
  <1>13. AnswerInv'
    BY <1>0, <1>1, <1>2, Limits, LongestIs DEF TypesInv, ForwardInv, QueueInv, DeadInv, PingedInv, AnswerInv
  <1> QED BY <1>4, <1>5, <1>6, <1>7, <1>8, <1>9, <1>10, <1>11,
             <1>12, <1>13 DEF HeartInv

\* The other end goes away.
LEMMA DieKeeps ==
  ASSUME HeartInv, Die
  PROVE  HeartInv'
  <1>0. TypesInv /\ ElapsedInv /\ LoadInv /\ ForwardInv
        /\ QueueInv /\ ActiveInv /\ IdleInv /\ DeadInv /\ PingedInv /\ AnswerInv
    BY DEF HeartInv
  <1>1. UNCHANGED <<clock, ping_time, ticked, routine, last_ping, last_pong, io_active, retired, late, busy, evq, out, session, asked, quiet, deadFor, jumped, role>>
    BY DEF Die, times, state, network, EvFrame
  <1>2. /\ peer = "alive" /\ peer' = "dead"
    BY <1>0, <1>1 DEF Die, times, state, network, EvFrame, TypesInv
  <1>4. TypesInv'
    BY <1>0, <1>1, <1>2, Limits, LongestIs DEF TypesInv
  <1>5. ElapsedInv'
    BY <1>0, <1>1, <1>2, Limits, LongestIs DEF TypesInv, ElapsedInv
  <1>6. LoadInv'
    BY <1>0, <1>1, <1>2, Limits, LongestIs DEF TypesInv, LoadInv
  <1>7. ForwardInv'
    BY <1>0, <1>1, <1>2, Limits, LongestIs DEF TypesInv, ForwardInv
  <1>8. QueueInv'
    BY <1>0, <1>1, <1>2, Limits, LongestIs DEF TypesInv, QueueInv, ForwardInv
  <1>9. ActiveInv'
    BY <1>0, <1>1, <1>2, Limits, LongestIs DEF TypesInv, ForwardInv, QueueInv, ActiveInv
  <1>10. IdleInv'
    BY <1>0, <1>1, <1>2, Limits, LongestIs DEF TypesInv, ForwardInv, QueueInv, IdleInv
  <1>11. DeadInv'
    BY <1>0, <1>1, <1>2, Limits, LongestIs DEF TypesInv, ForwardInv, QueueInv, DeadInv
  <1>12. PingedInv'
    BY <1>0, <1>1, <1>2, Limits, LongestIs DEF TypesInv, ForwardInv, QueueInv, PingedInv
  <1>13. AnswerInv'
    BY <1>0, <1>1, <1>2, Limits, LongestIs DEF TypesInv, ForwardInv, QueueInv, DeadInv, PingedInv, AnswerInv
  <1> QED BY <1>4, <1>5, <1>6, <1>7, <1>8, <1>9, <1>10, <1>11,
             <1>12, <1>13 DEF HeartInv

\* Streams start or end.
LEMMA StreamsChangeKeeps ==
  ASSUME HeartInv, StreamsChange
  PROVE  HeartInv'
  <1>0. TypesInv /\ ElapsedInv /\ LoadInv /\ ForwardInv
        /\ QueueInv /\ ActiveInv /\ IdleInv /\ DeadInv /\ PingedInv /\ AnswerInv
    BY DEF HeartInv
  <1>1. UNCHANGED <<clock, ping_time, ticked, routine, last_ping, last_pong, io_active, retired, late, evq, out, session, peer, asked, quiet, deadFor, jumped, role>>
    BY DEF StreamsChange, times, state, network, EvFrame
  <1>2. /\ session = "up" /\ busy' = ~busy
    BY <1>0, <1>1 DEF StreamsChange, times, state, network, EvFrame, TypesInv
  <1>4. TypesInv'
    BY <1>0, <1>1, <1>2, Limits, LongestIs DEF TypesInv
  <1>5. ElapsedInv'
    BY <1>0, <1>1, <1>2, Limits, LongestIs DEF TypesInv, ElapsedInv
  <1>6. LoadInv'
    BY <1>0, <1>1, <1>2, Limits, LongestIs DEF TypesInv, LoadInv
  <1>7. ForwardInv'
    BY <1>0, <1>1, <1>2, Limits, LongestIs DEF TypesInv, ForwardInv
  <1>8. QueueInv'
    BY <1>0, <1>1, <1>2, Limits, LongestIs DEF TypesInv, QueueInv, ForwardInv
  <1>9. ActiveInv'
    BY <1>0, <1>1, <1>2, Limits, LongestIs DEF TypesInv, ForwardInv, QueueInv, ActiveInv
  <1>10. IdleInv'
    BY <1>0, <1>1, <1>2, Limits, LongestIs DEF TypesInv, ForwardInv, QueueInv, IdleInv
  <1>11. DeadInv'
    BY <1>0, <1>1, <1>2, Limits, LongestIs DEF TypesInv, ForwardInv, QueueInv, DeadInv
  <1>12. PingedInv'
    BY <1>0, <1>1, <1>2, Limits, LongestIs DEF TypesInv, ForwardInv, QueueInv, PingedInv
  <1>13. AnswerInv'
    BY <1>0, <1>1, <1>2, Limits, LongestIs DEF TypesInv, ForwardInv, QueueInv, DeadInv, PingedInv, AnswerInv
  <1> QED BY <1>4, <1>5, <1>6, <1>7, <1>8, <1>9, <1>10, <1>11,
             <1>12, <1>13 DEF HeartInv

\* A PING goes out.
LEMMA EvPingKeeps ==
  ASSUME HeartInv, EvPing
  PROVE  HeartInv'
  <1>0. TypesInv /\ ElapsedInv /\ LoadInv /\ ForwardInv
        /\ QueueInv /\ ActiveInv /\ IdleInv /\ DeadInv /\ PingedInv /\ AnswerInv
    BY DEF HeartInv
  <1>1. UNCHANGED <<clock, ping_time, ticked, routine, last_pong, io_active, retired, late, busy, session, peer, asked, quiet, deadFor, jumped, role>>
    BY DEF EvPing, Takes, times, state, network, EvFrame
  <1>2. /\ session = "up"
        /\ last_ping' = clock /\ out' = Append(out, "PING")
    BY <1>0, <1>1 DEF EvPing, Takes, times, state, network, EvFrame, TypesInv
  <1>3. /\ evq # <<>> /\ Head(evq) = "PING" /\ evq' = Tail(evq)
        /\ evq' \in Seq(Kinds) /\ Len(evq') = Len(evq) - 1
        /\ \A k : Has(evq, k) <=> k = "PING" \/ Has(evq', k)
        /\ out' \in Seq(Kinds) /\ Len(out') = Len(out) + 1
        /\ \A k : Has(out', k) <=> Has(out, k) \/ k = "PING"
    <2>1. evq # <<>> /\ Head(evq) = "PING" /\ evq' = Tail(evq) /\ evq \in Seq(Kinds)
      BY <1>0 DEF Takes, TypesInv, EvPing
    <2>2. out' = Append(out, "PING") /\ out \in Seq(Kinds) /\ "PING" \in Kinds
      BY <1>0, <1>2 DEF TypesInv, Kinds
    <2> QED BY <2>1, <2>2, Taken, Appended
  <1>4. TypesInv'
    BY <1>0, <1>1, <1>2, <1>3, Limits, LongestIs DEF TypesInv
  <1>5. ElapsedInv'
    BY <1>0, <1>1, <1>2, <1>3, Limits, LongestIs DEF TypesInv, ElapsedInv
  <1>6. LoadInv'
    BY <1>0, <1>1, <1>2, <1>3, Limits, LongestIs DEF TypesInv, LoadInv
  <1>7. ForwardInv'
    BY <1>0, <1>1, <1>2, <1>3, Limits, LongestIs DEF TypesInv, ForwardInv
  <1>8. QueueInv'
    BY <1>0, <1>1, <1>2, <1>3, Limits, LongestIs DEF TypesInv, QueueInv, ForwardInv
  <1>9. ActiveInv'
    BY <1>0, <1>1, <1>2, <1>3, Limits, LongestIs DEF TypesInv, ForwardInv, QueueInv, ActiveInv
  <1>10. IdleInv'
    BY <1>0, <1>1, <1>2, <1>3, Limits, LongestIs DEF TypesInv, ForwardInv, QueueInv, IdleInv
  <1>11. DeadInv'
    BY <1>0, <1>1, <1>2, <1>3, Limits, LongestIs DEF TypesInv, ForwardInv, QueueInv, DeadInv
  <1>12. PingedInv'
    BY <1>0, <1>1, <1>2, <1>3, Limits, LongestIs DEF TypesInv, ForwardInv, QueueInv, PingedInv
  <1>13. AnswerInv'
    BY <1>0, <1>1, <1>2, <1>3, Limits, LongestIs DEF TypesInv, ForwardInv, QueueInv, DeadInv, PingedInv, AnswerInv
  <1> QED BY <1>4, <1>5, <1>6, <1>7, <1>8, <1>9, <1>10, <1>11,
             <1>12, <1>13 DEF HeartInv

\* A PING of the other end is answered.
LEMMA EvPingRemoteKeeps ==
  ASSUME HeartInv, EvPingRemote
  PROVE  HeartInv'
  <1>0. TypesInv /\ ElapsedInv /\ LoadInv /\ ForwardInv
        /\ QueueInv /\ ActiveInv /\ IdleInv /\ DeadInv /\ PingedInv /\ AnswerInv
    BY DEF HeartInv
  <1>1. UNCHANGED <<clock, ping_time, ticked, routine, last_ping, last_pong, io_active, retired, late, busy, session, peer, asked, quiet, deadFor, jumped, role>>
    BY DEF EvPingRemote, Takes, times, state, network, EvFrame
  <1>2. /\ session = "up"
        /\ out' = Append(out, "PONG")
    BY <1>0, <1>1 DEF EvPingRemote, Takes, times, state, network, EvFrame, TypesInv
  <1>3. /\ evq # <<>> /\ Head(evq) = "REMOTE_PING" /\ evq' = Tail(evq)
        /\ evq' \in Seq(Kinds) /\ Len(evq') = Len(evq) - 1
        /\ \A k : Has(evq, k) <=> k = "REMOTE_PING" \/ Has(evq', k)
        /\ out' \in Seq(Kinds) /\ Len(out') = Len(out) + 1
        /\ \A k : Has(out', k) <=> Has(out, k) \/ k = "PONG"
    <2>1. evq # <<>> /\ Head(evq) = "REMOTE_PING" /\ evq' = Tail(evq) /\ evq \in Seq(Kinds)
      BY <1>0 DEF Takes, TypesInv, EvPingRemote
    <2>2. out' = Append(out, "PONG") /\ out \in Seq(Kinds) /\ "PONG" \in Kinds
      BY <1>0, <1>2 DEF TypesInv, Kinds
    <2> QED BY <2>1, <2>2, Taken, Appended
  <1>4. TypesInv'
    BY <1>0, <1>1, <1>2, <1>3, Limits, LongestIs DEF TypesInv
  <1>5. ElapsedInv'
    BY <1>0, <1>1, <1>2, <1>3, Limits, LongestIs DEF TypesInv, ElapsedInv
  <1>6. LoadInv'
    BY <1>0, <1>1, <1>2, <1>3, Limits, LongestIs DEF TypesInv, LoadInv
  <1>7. ForwardInv'
    BY <1>0, <1>1, <1>2, <1>3, Limits, LongestIs DEF TypesInv, ForwardInv
  <1>8. QueueInv'
    BY <1>0, <1>1, <1>2, <1>3, Limits, LongestIs DEF TypesInv, QueueInv, ForwardInv
  <1>9. ActiveInv'
    BY <1>0, <1>1, <1>2, <1>3, Limits, LongestIs DEF TypesInv, ForwardInv, QueueInv, ActiveInv
  <1>10. IdleInv'
    BY <1>0, <1>1, <1>2, <1>3, Limits, LongestIs DEF TypesInv, ForwardInv, QueueInv, IdleInv
  <1>11. DeadInv'
    BY <1>0, <1>1, <1>2, <1>3, Limits, LongestIs DEF TypesInv, ForwardInv, QueueInv, DeadInv
  <1>12. PingedInv'
    BY <1>0, <1>1, <1>2, <1>3, Limits, LongestIs DEF TypesInv, ForwardInv, QueueInv, PingedInv
  <1>13. AnswerInv'
    BY <1>0, <1>1, <1>2, <1>3, Limits, LongestIs DEF TypesInv, ForwardInv, QueueInv, DeadInv, PingedInv, AnswerInv
  <1> QED BY <1>4, <1>5, <1>6, <1>7, <1>8, <1>9, <1>10, <1>11,
             <1>12, <1>13 DEF HeartInv

\* A PONG is noted.
LEMMA EvPongKeeps ==
  ASSUME HeartInv, EvPong
  PROVE  HeartInv'
  <1>0. TypesInv /\ ElapsedInv /\ LoadInv /\ ForwardInv
        /\ QueueInv /\ ActiveInv /\ IdleInv /\ DeadInv /\ PingedInv /\ AnswerInv
    BY DEF HeartInv
  <1>1. UNCHANGED <<clock, ping_time, ticked, routine, last_ping, io_active, retired, late, busy, out, session, peer, asked, quiet, deadFor, jumped, role>>
    BY DEF EvPong, Takes, times, state, network, EvFrame
  <1>2. /\ session = "up"
        /\ last_pong' = clock
    BY <1>0, <1>1 DEF EvPong, Takes, times, state, network, EvFrame, TypesInv
  <1>3. /\ evq # <<>> /\ Head(evq) = "PONG" /\ evq' = Tail(evq)
        /\ evq' \in Seq(Kinds) /\ Len(evq') = Len(evq) - 1
        /\ \A k : Has(evq, k) <=> k = "PONG" \/ Has(evq', k)
    <2>1. evq # <<>> /\ Head(evq) = "PONG" /\ evq' = Tail(evq) /\ evq \in Seq(Kinds)
      BY <1>0 DEF Takes, TypesInv, EvPong
    <2> QED BY <2>1, Taken
  <1>4. TypesInv'
    BY <1>0, <1>1, <1>2, <1>3, Limits, LongestIs DEF TypesInv
  <1>5. ElapsedInv'
    BY <1>0, <1>1, <1>2, <1>3, Limits, LongestIs DEF TypesInv, ElapsedInv
  <1>6. LoadInv'
    BY <1>0, <1>1, <1>2, <1>3, Limits, LongestIs DEF TypesInv, LoadInv
  <1>7. ForwardInv'
    BY <1>0, <1>1, <1>2, <1>3, Limits, LongestIs DEF TypesInv, ForwardInv
  <1>8. QueueInv'
    BY <1>0, <1>1, <1>2, <1>3, Limits, LongestIs DEF TypesInv, QueueInv, ForwardInv
  <1>9. ActiveInv'
    BY <1>0, <1>1, <1>2, <1>3, Limits, LongestIs DEF TypesInv, ForwardInv, QueueInv, ActiveInv
  <1>10. IdleInv'
    BY <1>0, <1>1, <1>2, <1>3, Limits, LongestIs DEF TypesInv, ForwardInv, QueueInv, IdleInv
  <1>11. DeadInv'
    BY <1>0, <1>1, <1>2, <1>3, Limits, LongestIs DEF TypesInv, ForwardInv, QueueInv, DeadInv
  <1>12. PingedInv'
    BY <1>0, <1>1, <1>2, <1>3, Limits, LongestIs DEF TypesInv, ForwardInv, QueueInv, PingedInv
  <1>13. AnswerInv'
    BY <1>0, <1>1, <1>2, <1>3, Limits, LongestIs DEF TypesInv, ForwardInv, QueueInv, DeadInv, PingedInv, AnswerInv
  <1> QED BY <1>4, <1>5, <1>6, <1>7, <1>8, <1>9, <1>10, <1>11,
             <1>12, <1>13 DEF HeartInv

\* The session is shut down.
LEMMA EvShutdownKeeps ==
  ASSUME HeartInv, EvShutdown
  PROVE  HeartInv'
  <1>0. TypesInv /\ ElapsedInv /\ LoadInv /\ ForwardInv
        /\ QueueInv /\ ActiveInv /\ IdleInv /\ DeadInv /\ PingedInv /\ AnswerInv
    BY DEF HeartInv
  <1>1. UNCHANGED <<clock, ping_time, ticked, routine, last_ping, last_pong, io_active, retired, late, busy, out, peer, asked, quiet, deadFor, jumped, role>>
    BY DEF EvShutdown, Takes, times, state, network, EvFrame
  <1>2. /\ session = "up"
        /\ session' = "closed"
    BY <1>0, <1>1 DEF EvShutdown, Takes, times, state, network, EvFrame, TypesInv
  <1>3. /\ evq # <<>> /\ Head(evq) = "SHUTDOWN" /\ evq' = Tail(evq)
        /\ evq' \in Seq(Kinds) /\ Len(evq') = Len(evq) - 1
        /\ \A k : Has(evq, k) <=> k = "SHUTDOWN" \/ Has(evq', k)
    <2>1. evq # <<>> /\ Head(evq) = "SHUTDOWN" /\ evq' = Tail(evq) /\ evq \in Seq(Kinds)
      BY <1>0 DEF Takes, TypesInv, EvShutdown
    <2> QED BY <2>1, Taken
  <1>4. TypesInv'
    BY <1>0, <1>1, <1>2, <1>3, Limits, LongestIs DEF TypesInv
  <1>5. ElapsedInv'
    BY <1>0, <1>1, <1>2, <1>3, Limits, LongestIs DEF TypesInv, ElapsedInv
  <1>6. LoadInv'
    BY <1>0, <1>1, <1>2, <1>3, Limits, LongestIs DEF TypesInv, LoadInv
  <1>7. ForwardInv'
    BY <1>0, <1>1, <1>2, <1>3, Limits, LongestIs DEF TypesInv, ForwardInv
  <1>8. QueueInv'
    BY <1>0, <1>1, <1>2, <1>3, Limits, LongestIs DEF TypesInv, QueueInv, ForwardInv
  <1>9. ActiveInv'
    BY <1>0, <1>1, <1>2, <1>3, Limits, LongestIs DEF TypesInv, ForwardInv, QueueInv, ActiveInv
  <1>10. IdleInv'
    BY <1>0, <1>1, <1>2, <1>3, Limits, LongestIs DEF TypesInv, ForwardInv, QueueInv, IdleInv
  <1>11. DeadInv'
    BY <1>0, <1>1, <1>2, <1>3, Limits, LongestIs DEF TypesInv, ForwardInv, QueueInv, DeadInv
  <1>12. PingedInv'
    BY <1>0, <1>1, <1>2, <1>3, Limits, LongestIs DEF TypesInv, ForwardInv, QueueInv, PingedInv
  <1>13. AnswerInv'
    BY <1>0, <1>1, <1>2, <1>3, Limits, LongestIs DEF TypesInv, ForwardInv, QueueInv, DeadInv, PingedInv, AnswerInv
  <1> QED BY <1>4, <1>5, <1>6, <1>7, <1>8, <1>9, <1>10, <1>11,
             <1>12, <1>13 DEF HeartInv

\* A ROUTINE event: the session ends when it is idle, or retired without streams.
LEMMA EvRoutineKeeps ==
  ASSUME HeartInv, EvRoutine
  PROVE  HeartInv'
  <1>0. TypesInv /\ ElapsedInv /\ LoadInv /\ ForwardInv
        /\ QueueInv /\ ActiveInv /\ IdleInv /\ DeadInv /\ PingedInv /\ AnswerInv
    BY DEF HeartInv
  <1>1. UNCHANGED <<clock, ping_time, ticked, routine, last_ping, last_pong, io_active, retired, late, busy, out, peer, asked, quiet, deadFor, jumped, role>>
    BY DEF EvRoutine, Takes, times, state, network, EvFrame
  <1>2. /\ session = "up"
        /\ \/ io_active # 0 /\ clock < io_active /\ session' = "crashed"
           \/ session' = IF (retired /\ ~busy) \/ IdleTooLong THEN "closed" ELSE "up"
    BY <1>0, <1>1 DEF EvRoutine, Takes, times, state, network, EvFrame, TypesInv
  <1>3. /\ evq # <<>> /\ Head(evq) = "ROUTINE" /\ evq' = Tail(evq)
        /\ evq' \in Seq(Kinds) /\ Len(evq') = Len(evq) - 1
        /\ \A k : Has(evq, k) <=> k = "ROUTINE" \/ Has(evq', k)
    <2>1. evq # <<>> /\ Head(evq) = "ROUTINE" /\ evq' = Tail(evq) /\ evq \in Seq(Kinds)
      BY <1>0 DEF Takes, TypesInv, EvRoutine
    <2> QED BY <2>1, Taken
  <1>4. TypesInv'
    BY <1>0, <1>1, <1>2, <1>3, Limits, LongestIs DEF TypesInv
  <1>5. ElapsedInv'
    BY <1>0, <1>1, <1>2, <1>3, Limits, LongestIs DEF TypesInv, ElapsedInv
  <1>6. LoadInv'
    BY <1>0, <1>1, <1>2, <1>3, Limits, LongestIs DEF TypesInv, LoadInv
  <1>7. ForwardInv'
    BY <1>0, <1>1, <1>2, <1>3, Limits, LongestIs DEF TypesInv, ForwardInv
  <1>8. QueueInv'
    BY <1>0, <1>1, <1>2, <1>3, Limits, LongestIs DEF TypesInv, QueueInv, ForwardInv
  <1>9. ActiveInv'
    BY <1>0, <1>1, <1>2, <1>3, Limits, LongestIs DEF TypesInv, ForwardInv, QueueInv, ActiveInv
  <1>10. IdleInv'
    BY <1>0, <1>1, <1>2, <1>3, Limits, LongestIs DEF TypesInv, ForwardInv, QueueInv, IdleInv, IdleTooLong
  <1>11. DeadInv'
    BY <1>0, <1>1, <1>2, <1>3, Limits, LongestIs DEF TypesInv, ForwardInv, QueueInv, DeadInv
  <1>12. PingedInv'
    BY <1>0, <1>1, <1>2, <1>3, Limits, LongestIs DEF TypesInv, ForwardInv, QueueInv, PingedInv
  <1>13. AnswerInv'
    BY <1>0, <1>1, <1>2, <1>3, Limits, LongestIs DEF TypesInv, ForwardInv, QueueInv, DeadInv, PingedInv, AnswerInv
  <1> QED BY <1>4, <1>5, <1>6, <1>7, <1>8, <1>9, <1>10, <1>11,
             <1>12, <1>13 DEF HeartInv

\* A frame is written.
LEMMA WriteFrameKeeps ==
  ASSUME HeartInv, WriteFrame
  PROVE  HeartInv'
  <1>0. TypesInv /\ ElapsedInv /\ LoadInv /\ ForwardInv
        /\ QueueInv /\ ActiveInv /\ IdleInv /\ DeadInv /\ PingedInv /\ AnswerInv
    BY DEF HeartInv
  <1>1. UNCHANGED <<clock, ping_time, ticked, routine, last_ping, last_pong, retired, late, busy, evq, session, peer, quiet, deadFor, jumped, role>>
    BY DEF WriteFrame, times, state, network, EvFrame
  <1>2. /\ session = "up" /\ out # <<>> /\ io_active' = clock /\ out' = Tail(out)
        /\ asked' = IF Head(out) = "PING" /\ peer = "alive" /\ asked < 0 THEN 0 ELSE asked
    BY <1>0, <1>1 DEF WriteFrame, times, state, network, EvFrame, TypesInv
  <1>3. /\ out' \in Seq(Kinds) /\ Len(out') = Len(out) - 1
        /\ \A k : Has(out, k) <=> k = Head(out) \/ Has(out', k)
    BY <1>0, <1>2, Taken DEF TypesInv
  <1>4. TypesInv'
    BY <1>0, <1>1, <1>2, <1>3, Limits, LongestIs DEF TypesInv
  <1>5. ElapsedInv'
    BY <1>0, <1>1, <1>2, <1>3, Limits, LongestIs DEF TypesInv, ElapsedInv
  <1>6. LoadInv'
    BY <1>0, <1>1, <1>2, <1>3, Limits, LongestIs DEF TypesInv, LoadInv
  <1>7. ForwardInv'
    BY <1>0, <1>1, <1>2, <1>3, Limits, LongestIs DEF TypesInv, ForwardInv
  <1>8. QueueInv'
    BY <1>0, <1>1, <1>2, <1>3, Limits, LongestIs DEF TypesInv, QueueInv, ForwardInv
  <1>9. ActiveInv'
    BY <1>0, <1>1, <1>2, <1>3, Limits, LongestIs DEF TypesInv, ForwardInv, QueueInv, ActiveInv
  <1>10. IdleInv'
    BY <1>0, <1>1, <1>2, <1>3, Limits, LongestIs DEF TypesInv, ForwardInv, QueueInv, IdleInv
  <1>11. DeadInv'
    BY <1>0, <1>1, <1>2, <1>3, Limits, LongestIs DEF TypesInv, ForwardInv, QueueInv, DeadInv
  <1>12. PingedInv'
    BY <1>0, <1>1, <1>2, <1>3, Limits, LongestIs DEF TypesInv, ForwardInv, QueueInv, PingedInv
  <1>13. AnswerInv'
    BY <1>0, <1>1, <1>2, <1>3, Limits, LongestIs DEF TypesInv, ForwardInv, QueueInv, DeadInv, PingedInv, AnswerInv
  <1> QED BY <1>4, <1>5, <1>6, <1>7, <1>8, <1>9, <1>10, <1>11,
             <1>12, <1>13 DEF HeartInv

\* A frame of the other end arrives.
LEMMA RecvFrameKeeps ==
  ASSUME HeartInv, RecvFrame
  PROVE  HeartInv'
  <1>0. TypesInv /\ ElapsedInv /\ LoadInv /\ ForwardInv
        /\ QueueInv /\ ActiveInv /\ IdleInv /\ DeadInv /\ PingedInv /\ AnswerInv
    BY DEF HeartInv
  <1>1. UNCHANGED <<clock, ping_time, ticked, routine, last_ping, last_pong, retired, late, busy, out, session, peer, deadFor, jumped, role>>
    BY DEF RecvFrame, times, state, network, EvFrame
  <1>2. /\ session = "up" /\ peer = "alive" /\ io_active' = clock /\ quiet' = 0 /\ asked' = -1
        /\ role = "client" => asked >= 0
        /\ role = "server" => quiet > 0
        /\ evq' = Append(evq, IF role = "client" THEN "PONG" ELSE "REMOTE_PING")
    BY <1>0, <1>1 DEF RecvFrame, times, state, network, EvFrame, TypesInv
  <1>3. /\ evq' \in Seq(Kinds) /\ Len(evq') = Len(evq) + 1
        /\ \A k : Has(evq', k) <=> Has(evq, k) \/ k = (IF role = "client" THEN "PONG" ELSE "REMOTE_PING")
    <2>1. (IF role = "client" THEN "PONG" ELSE "REMOTE_PING") \in Kinds
      BY DEF Kinds
    <2> QED BY <1>0, <1>2, <2>1, Appended DEF TypesInv
  <1>4. TypesInv'
    BY <1>0, <1>1, <1>2, <1>3, Limits, LongestIs DEF TypesInv
  <1>5. ElapsedInv'
    BY <1>0, <1>1, <1>2, <1>3, Limits, LongestIs DEF TypesInv, ElapsedInv
  <1>6. LoadInv'
    BY <1>0, <1>1, <1>2, <1>3, Limits, LongestIs DEF TypesInv, LoadInv
  <1>7. ForwardInv'
    BY <1>0, <1>1, <1>2, <1>3, Limits, LongestIs DEF TypesInv, ForwardInv
  <1>8. QueueInv'
    BY <1>0, <1>1, <1>2, <1>3, Limits, LongestIs DEF TypesInv, QueueInv, ForwardInv
  <1>9. ActiveInv'
    BY <1>0, <1>1, <1>2, <1>3, Limits, LongestIs DEF TypesInv, ForwardInv, QueueInv, ActiveInv
  <1>10. IdleInv'
    BY <1>0, <1>1, <1>2, <1>3, Limits, LongestIs DEF TypesInv, ForwardInv, QueueInv, IdleInv
  <1>11. DeadInv'
    BY <1>0, <1>1, <1>2, <1>3, Limits, LongestIs DEF TypesInv, ForwardInv, QueueInv, DeadInv
  <1>12. PingedInv'
    BY <1>0, <1>1, <1>2, <1>3, Limits, LongestIs DEF TypesInv, ForwardInv, QueueInv, PingedInv
  <1>13. AnswerInv'
    BY <1>0, <1>1, <1>2, <1>3, Limits, LongestIs DEF TypesInv, ForwardInv, QueueInv, DeadInv, PingedInv, AnswerInv
  <1> QED BY <1>4, <1>5, <1>6, <1>7, <1>8, <1>9, <1>10, <1>11,
             <1>12, <1>13 DEF HeartInv

\* The routine has panicked: the clock was set back.
LEMMA TickDeadKeeps ==
  ASSUME HeartInv, session = "up", ~ticked, clock < ping_time, ticked' = TRUE, routine' = "dead",
         UNCHANGED <<clock, ping_time, last_ping, last_pong, io_active, retired, late, busy, evq, out,
                     session, peer, asked, quiet, deadFor, jumped, role>>
  PROVE  HeartInv'
  <1>0. TypesInv /\ ElapsedInv /\ LoadInv /\ ForwardInv
        /\ QueueInv /\ ActiveInv /\ IdleInv /\ DeadInv /\ PingedInv /\ AnswerInv
    BY DEF HeartInv
  <1>1. jumped < 0 /\ jumped' < 0
    BY <1>0, Limits DEF TypesInv, ForwardInv
  <1>2. TypesInv' /\ ElapsedInv'
    BY <1>0 DEF TypesInv, ElapsedInv
  <1>3. LoadInv'
    BY <1>0 DEF TypesInv, LoadInv
  <1>4. ForwardInv' /\ ActiveInv' /\ IdleInv'
    BY <1>0, <1>1, Limits DEF TypesInv, ForwardInv, ActiveInv, IdleInv
  <1>5. QueueInv'
    BY <1>0, <1>1, Limits DEF TypesInv, QueueInv
  <1>6. DeadInv'
    BY <1>0, <1>1, Limits DEF TypesInv, DeadInv
  <1>7. PingedInv' /\ AnswerInv'
    BY <1>0, <1>1, Limits DEF TypesInv, PingedInv, AnswerInv
  <1> QED BY <1>2, <1>3, <1>4, <1>5, <1>6, <1>7 DEF HeartInv

\* A round that is not due yet.
LEMMA TickWaitKeeps ==
  ASSUME HeartInv, session = "up", ~ticked, ticked' = TRUE,
         NEW th \in Thresholds, clock >= ping_time, clock - ping_time <= th,
         UNCHANGED <<clock, ping_time, routine, last_ping, last_pong, io_active, retired, late, busy, evq, out,
                     session, peer, asked, quiet, deadFor, jumped, role>>
  PROVE  HeartInv'
  <1>0. TypesInv /\ ElapsedInv /\ LoadInv /\ ForwardInv
        /\ QueueInv /\ ActiveInv /\ IdleInv /\ DeadInv /\ PingedInv /\ AnswerInv
    BY DEF HeartInv
  <1>1. TypesInv' /\ ElapsedInv'
    BY <1>0 DEF TypesInv, ElapsedInv
  <1>2. LoadInv'
    BY <1>0 DEF TypesInv, LoadInv
  <1>3. ForwardInv'
    BY <1>0, Limits, LongestIs DEF TypesInv, ForwardInv
  <1>4. QueueInv' /\ ActiveInv' /\ IdleInv' /\ DeadInv'
    BY <1>0 DEF QueueInv, ActiveInv, IdleInv, DeadInv
  <1>5. PingedInv' /\ AnswerInv'
    BY <1>0 DEF PingedInv, AnswerInv
  <1> QED BY <1>1, <1>2, <1>3, <1>4, <1>5 DEF HeartInv

\* A round of routine_all_sessions: the event queue gets one or two events, and a
\* PING among them if the session is a client's and stays; a late one is retired.
LEMMA TickRoundKeeps ==
  ASSUME HeartInv, session = "up", ~ticked, ticked' = TRUE, ping_time' = clock,
         evq' \in Seq(Kinds), Len(evq') <= Len(evq) + 2, retired' \in BOOLEAN, retired => retired', late' \in BOOLEAN,
         NEW new, new \subseteq {"PING", "ROUTINE", "SHUTDOWN"},
         \A k : Has(evq', k) <=> Has(evq, k) \/ k \in new,
         "ROUTINE" \in new \/ "SHUTDOWN" \in new,
         "SHUTDOWN" \in new => retired',
         ~retired' => ~Late,
         ~retired' /\ role = "client" => "PING" \in new, "PING" \in new => role = "client",
         UNCHANGED <<clock, routine, last_ping, last_pong, io_active, busy, out,
                     session, peer, asked, quiet, deadFor, jumped, role>>
  PROVE  HeartInv'
  <1>0. TypesInv /\ ElapsedInv /\ LoadInv /\ ForwardInv
        /\ QueueInv /\ ActiveInv /\ IdleInv /\ DeadInv /\ PingedInv /\ AnswerInv
    BY DEF HeartInv
  <1>1. TypesInv'
    BY <1>0 DEF TypesInv
  <1>2. ElapsedInv'
    BY <1>0 DEF ElapsedInv
  <1>3. LoadInv'
    BY <1>0 DEF TypesInv, LoadInv
  <1>4. ForwardInv'
    BY <1>0, Limits, LongestIs DEF TypesInv, ForwardInv
  <1>5. QueueInv'
    BY <1>0 DEF TypesInv, QueueInv
  <1>6. ActiveInv'
    BY <1>0 DEF TypesInv, ActiveInv
  <1>7. IdleInv'
    BY <1>0 DEF TypesInv, IdleInv
  <1>8. DeadInv'
    <2>1. ~Has(evq', "PONG") \/ Has(evq, "PONG")
      OBVIOUS
    <2>2. ASSUME jumped = 0, role = "client", ~retired'
          PROVE  Has(evq', "PING")
      BY <2>2
    <2>3. ASSUME jumped = 0, role = "client", ~retired', last_pong > 0
          PROVE  clock - (clock - deadFor) <= GapLimit + Longest
      <3>1. ~Late /\ ~retired
        BY <1>0, <2>3 DEF TypesInv
      <3>2. last_ping > 0 /\ last_pong <= clock - deadFor
        BY <1>0, <2>3 DEF DeadInv
      <3>3. last_ping = ping_time
        BY <1>0, <2>3, <3>1, <3>2 DEF DeadInv, QueueInv
      <3>4. last_pong - last_ping >= -GapLimit
        BY <1>0, <2>3, <3>1, <3>2, Limits DEF Late, TypesInv
      <3>5. clock - ping_time <= Longest
        BY <1>0, <2>3, Limits, LongestIs DEF ForwardInv, TypesInv
      <3> QED BY <1>0, <3>2, <3>3, <3>4, <3>5, Limits, LongestIs DEF TypesInv
    <2> QED BY <1>0, <2>1, <2>2, <2>3 DEF DeadInv
  <1>9. PingedInv'
    BY <1>0 DEF TypesInv, PingedInv
  <1>10. AnswerInv'
    BY <1>0 DEF TypesInv, AnswerInv
  <1> QED BY <1>1, <1>2, <1>3, <1>4, <1>5, <1>6, <1>7, <1>8, <1>9, <1>10 DEF HeartInv

\* One round of routine_channels.
LEMMA TickKeeps ==
  ASSUME HeartInv, Tick
  PROVE  HeartInv'
  <1>0. TypesInv /\ evq \in Seq(Kinds) /\ retired \in BOOLEAN /\ late \in BOOLEAN /\ role \in {"client", "server"}
    BY DEF HeartInv, TypesInv
  <1>1. /\ session = "up" /\ ~ticked /\ ticked' = TRUE
        /\ UNCHANGED <<clock, last_ping, last_pong, io_active, busy, out,
                       session, peer, asked, quiet, deadFor, jumped, role>>
    BY DEF Tick, times, network
  <1>2. CASE clock < ping_time /\ routine' = "dead" /\ UNCHANGED <<ping_time, evq, retired, late>>
    BY <1>1, <1>2, TickDeadKeeps
  <1>3. CASE \E th \in Thresholds :
               /\ clock >= ping_time /\ clock - ping_time <= th
               /\ UNCHANGED <<ping_time, evq, retired, late, routine>>
    BY <1>1, <1>3, TickWaitKeeps
  <1>4. CASE RoutineAll /\ ping_time' = clock /\ UNCHANGED routine
    <2>0. /\ "PING" \in Kinds /\ "ROUTINE" \in Kinds /\ "SHUTDOWN" \in Kinds
      BY DEF Kinds
    <2>1. ASSUME NEW x \in {"ROUTINE", "SHUTDOWN"}, evq' = evq \o <<x>>,
                 late' \in BOOLEAN, retired' \in BOOLEAN, retired => retired',
                 x = "SHUTDOWN" => retired', ~retired' => ~Late,
                 ~retired' => role # "client"
          PROVE  HeartInv'
      <3>1. x \in Kinds
        BY <2>0
      <3>2. evq' = Append(evq, x)
        BY <1>0, <2>1, <3>1, OneMore
      <3>3. /\ evq' \in Seq(Kinds) /\ Len(evq') = Len(evq) + 1
            /\ \A k : Has(evq', k) <=> Has(evq, k) \/ k \in {x}
        BY <1>0, <3>1, <3>2, Appended
      <3>4. Len(evq') <= Len(evq) + 2
        BY <1>0, <3>3
      <3>5. {x} \subseteq {"PING", "ROUTINE", "SHUTDOWN"} /\ ("ROUTINE" \in {x} \/ "SHUTDOWN" \in {x})
        OBVIOUS
      <3>6. "SHUTDOWN" \in {x} => retired'
        BY <2>1
      <3>7. ~retired' /\ role = "client" => "PING" \in {x}
        BY <2>1
      <3>8. "PING" \notin {x}
        OBVIOUS
      <3> QED BY <1>1, <1>4, <2>1, <3>3, <3>4, <3>5, <3>6, <3>7, <3>8, TickRoundKeeps
    <2>2. CASE retired /\ evq' = evq \o <<"ROUTINE">> /\ UNCHANGED <<retired, late>>
      BY <1>0, <2>1, <2>2
    <2>3. CASE ~retired /\ Late /\ evq' = evq \o <<"SHUTDOWN">> /\ retired' = TRUE /\ late' = TRUE
      BY <1>0, <2>1, <2>3
    <2>4. CASE /\ ~retired /\ ~Late /\ role = "server" /\ retired' \in BOOLEAN /\ UNCHANGED late
               /\ evq' = evq \o <<"ROUTINE">>
      BY <1>0, <2>1, <2>4
    <2>5. CASE /\ ~retired /\ ~Late /\ role = "client" /\ retired' \in BOOLEAN /\ UNCHANGED late
               /\ evq' = evq \o <<"PING", "ROUTINE">>
      <3>1. evq' = Append(Append(evq, "PING"), "ROUTINE")
        BY <1>0, <2>0, <2>5, TwoMore
      <3> DEFINE q == Append(evq, "PING")
      <3>2. q \in Seq(Kinds) /\ Len(q) = Len(evq) + 1 /\ \A k : Has(q, k) <=> Has(evq, k) \/ k = "PING"
        BY <1>0, <2>0, Appended
      <3> HIDE DEF q
      <3>3. /\ Append(q, "ROUTINE") \in Seq(Kinds) /\ Len(Append(q, "ROUTINE")) = Len(q) + 1
            /\ \A k : Has(Append(q, "ROUTINE"), k) <=> Has(q, k) \/ k = "ROUTINE"
        BY <2>0, <3>2, Appended
      <3>4. evq' = Append(q, "ROUTINE")
        BY <3>1 DEF q
      <3>5. /\ evq' \in Seq(Kinds) /\ Len(evq') <= Len(evq) + 2
            /\ \A k : Has(evq', k) <=> Has(evq, k) \/ k \in {"PING", "ROUTINE"}
        BY <1>0, <3>2, <3>3, <3>4
      <3>6. {"PING", "ROUTINE"} \subseteq {"PING", "ROUTINE", "SHUTDOWN"}
        OBVIOUS
      <3>7. "ROUTINE" \in {"PING", "ROUTINE"} /\ "SHUTDOWN" \notin {"PING", "ROUTINE"}
              /\ "PING" \in {"PING", "ROUTINE"}
        OBVIOUS
      <3>8. late' \in BOOLEAN /\ (retired => retired') /\ ("PING" \in {"PING", "ROUTINE"} => role = "client")
        BY <1>0, <2>5
      <3> QED BY <1>1, <1>4, <2>5, <3>5, <3>6, <3>7, <3>8, TickRoundKeeps
    <2> QED BY <1>0, <1>4, <2>2, <2>3, <2>4, <2>5 DEF RoutineAll, Beats
  <1> QED BY <1>2, <1>3, <1>4 DEF Tick

-----------------------------------------------------------------------------
(* The theorems.                                                            *)

\* What is left of ResponsiveKept: why a session was closed.
ClosedInv ==
    session = "closed" /\ peer = "alive" /\ ~retired =>
        jumped < 0 \/ jumped + (IF role = "client" THEN Longest ELSE PeerGap) >= IdleLimit

\* Why a session whose other end answers was found late.
LateInv ==
    late /\ peer = "alive" => jumped < 0 \/ jumped + Longest + MaxDelay > GapLimit

\* A session that starts satisfies the invariant.
LEMMA InitHeart == Init => HeartInv /\ ClosedInv /\ LateInv
  <1> SUFFICES ASSUME Init PROVE HeartInv /\ ClosedInv /\ LateInv
    OBVIOUS
  <1>1. PICK d \in 0..2 : ping_time = Start - d
    BY DEF Init
  <1>2. /\ role \in Roles /\ clock = Start /\ ticked = FALSE /\ routine = "runs"
        /\ last_ping = 0 /\ last_pong = 0 /\ io_active = 0 /\ retired = FALSE /\ late = FALSE /\ busy \in BOOLEAN
        /\ evq = <<>> /\ out = <<>> /\ session = "up" /\ peer = "alive" /\ asked = -1 /\ quiet = 0
        /\ deadFor = 0 /\ jumped = 0
    BY DEF Init
  <1>3. role \in {"client", "server"}
    BY <1>2, HeartbeatAssumption
  <1>4. evq \in Seq(Kinds) /\ out \in Seq(Kinds) /\ Len(evq) = 0 /\ Len(out) = 0
    BY <1>2, Nothing
  <1>5. (\A k : ~Has(evq, k)) /\ (\A k : ~Has(out, k))
    BY <1>2, Nothing
  <1>6. TypesInv
    <2>1. ping_time \in Nat /\ clock \in Nat \ {0}
      BY <1>1, <1>2, Limits
    <2>2. asked \in Int /\ asked >= -1
      BY <1>2
    <2> QED BY <1>2, <1>3, <1>4, <2>1, <2>2 DEF TypesInv
  <1>7. ElapsedInv
    BY <1>2, Limits DEF ElapsedInv
  <1>8. LoadInv
    BY <1>2, <1>4 DEF LoadInv
  <1>9. ForwardInv
    BY <1>1, <1>2, Limits, LongestIs DEF ForwardInv
  <1>10. QueueInv
    BY <1>2, <1>5 DEF QueueInv
  <1>11. ActiveInv
    BY <1>2, Limits DEF ActiveInv
  <1>12. IdleInv
    BY <1>2 DEF IdleInv
  <1>13. DeadInv
    BY <1>2, <1>5, Limits DEF DeadInv
  <1>14. PingedInv /\ AnswerInv
    BY <1>2, <1>5, Limits DEF PingedInv, AnswerInv
  <1> QED BY <1>2, <1>6, <1>7, <1>8, <1>9, <1>10, <1>11, <1>12, <1>13, <1>14
             DEF HeartInv, ClosedInv, LateInv

\* Every step in time keeps HeartInv.
LEMMA NextHeart ==
  ASSUME HeartInv, [Next]_vars
  PROVE  HeartInv'
  <1>1. CASE UNCHANGED vars
    <2>1. UNCHANGED <<clock, ping_time, ticked, routine, last_ping, last_pong, io_active, retired, late, busy,
                      evq, out, session, peer, asked, quiet, deadFor, jumped, role>>
      BY <1>1 DEF vars, state, times, network
    <2> QED BY <2>1 DEF HeartInv, TypesInv, ElapsedInv, LoadInv, ForwardInv, QueueInv, ActiveInv,
                        IdleInv, DeadInv, PingedInv, AnswerInv
  <1> QED BY <1>1, PassKeeps, SetClockKeeps, DieKeeps, StreamsChangeKeeps, TickKeeps, EvPingKeeps,
             EvPingRemoteKeeps, EvPongKeeps, EvShutdownKeeps, EvRoutineKeeps, WriteFrameKeeps,
             RecvFrameKeeps DEF Next, Events

\* A session with an other end that answers is closed for idleness only after a jump.
LEMMA NextClosed ==
  ASSUME HeartInv, ClosedInv, [Next]_vars
  PROVE  ClosedInv'
  <1>0. TypesInv /\ ForwardInv /\ QueueInv /\ ActiveInv
    BY DEF HeartInv
  <1>1. CASE Die \/ UNCHANGED vars
    <2>1. /\ UNCHANGED <<session, retired, jumped, role>>
          /\ peer' = "dead" \/ peer' = peer
      BY <1>1 DEF Die, vars, state, network
    <2> QED BY <2>1 DEF ClosedInv
  <1>2. CASE session' = "up"
    BY <1>2 DEF ClosedInv
  <1>3. CASE EvShutdown
    <2>1. Has(evq, "SHUTDOWN")
      BY <1>0, <1>3, Taken DEF EvShutdown, Takes, TypesInv
    <2>2. retired' = TRUE
      BY <1>0, <1>3, <2>1 DEF QueueInv, TypesInv, EvShutdown, EvFrame
    <2> QED BY <2>2 DEF ClosedInv
  <1>4. CASE EvRoutine
    <2>1. UNCHANGED <<clock, retired, jumped, role, peer, io_active>> /\ session = "up"
      BY <1>4 DEF EvRoutine, EvFrame, Takes, times, network
    <2>2. SUFFICES ASSUME session' = "closed", peer = "alive", ~retired, jumped >= 0
                   PROVE  jumped + (IF role = "client" THEN Longest ELSE PeerGap) >= IdleLimit
      BY <1>0, <2>1, Limits DEF ClosedInv, TypesInv
    <2>3. IdleTooLong
      BY <1>4, <2>2 DEF EvRoutine
    <2>4. io_active > 0 /\ clock - io_active >= IdleLimit
      BY <1>0, <2>2, <2>3 DEF IdleTooLong, ForwardInv, TypesInv
    <2>5. CASE role = "client"
      <3>1. clock - io_active <= Longest + jumped
        BY <1>0, <2>2, <2>4, <2>5 DEF ActiveInv
      <3> QED BY <1>0, <2>4, <2>5, <3>1, Limits, LongestIs DEF TypesInv
    <2>6. CASE role = "server"
      <3>1. clock - io_active <= quiet + jumped /\ quiet <= PeerGap
        BY <1>0, <2>2, <2>4, <2>6 DEF ActiveInv
      <3> QED BY <1>0, <2>4, <2>6, <3>1, Limits DEF TypesInv
    <2> QED BY <1>0, <2>5, <2>6 DEF TypesInv
  <1>5. CASE \/ Pass \/ SetClock \/ StreamsChange \/ Tick \/ EvPing \/ EvPingRemote \/ EvPong
             \/ WriteFrame \/ RecvFrame
    <2>1. session' = "up"
      BY <1>5 DEF Pass, SetClock, StreamsChange, Tick, EvPing, EvPingRemote, EvPong, WriteFrame,
                  RecvFrame, Takes, state
    <2> QED BY <1>2, <2>1
  <1> QED BY <1>1, <1>3, <1>4, <1>5 DEF Next, Events

\* The routine finds a session late only when its other end is gone or the clock was
\* set: the last PING is no younger than the clock, the last PONG of an other end that
\* answers no older than a period and its delay.
LEMMA NextLate ==
  ASSUME HeartInv, LateInv, [Next]_vars
  PROVE  LateInv'
  <1>0. TypesInv /\ PingedInv /\ AnswerInv
    BY DEF HeartInv
  <1>1. CASE late' = late /\ jumped' = jumped
    <2>1. peer' = "alive" => peer = "alive"
      BY <1>0 DEF Next, Events, Pass, SetClock, Die, StreamsChange, Tick, EvPing, EvPingRemote,
                  EvPong, EvShutdown, EvRoutine, WriteFrame, RecvFrame, EvFrame, network, vars
    <2> QED BY <1>1, <2>1 DEF LateInv
  <1>2. CASE SetClock
    <2>1. UNCHANGED <<late, peer>> /\ jumped = 0 /\ jumped' \in Int
      BY <1>2, Limits DEF SetClock, state, network
    <2>2. late /\ peer = "alive" => Longest + MaxDelay > GapLimit
      BY <2>1, Limits, LongestIs DEF LateInv
    <2>3. ASSUME NEW j \in Int, Longest + MaxDelay > GapLimit
          PROVE  j < 0 \/ j + Longest + MaxDelay > GapLimit
      <3>1. Longest \in Int /\ MaxDelay \in Int /\ GapLimit \in Int
        BY Limits, LongestIs
      <3> QED BY <2>3, <3>1
    <2> QED BY <2>1, <2>2, <2>3 DEF LateInv
  <1>3. CASE Tick /\ late' # late
    <2>1. UNCHANGED <<peer, jumped>> /\ Late /\ ~retired
      BY <1>3 DEF Tick, RoutineAll, network
    <2>2. SUFFICES ASSUME peer = "alive", jumped >= 0
                   PROVE  jumped + Longest + MaxDelay > GapLimit
      BY <1>0, <2>1, Limits DEF LateInv, TypesInv
    <2>3. last_ping > 0 /\ last_pong > 0 /\ last_pong - last_ping < -GapLimit
      BY <2>1 DEF Late
    <2>4. role = "client" /\ last_ping <= clock /\ asked <= MaxDelay
      BY <1>0, <2>2, <2>3 DEF PingedInv, TypesInv
    <2>5. clock - last_pong <= Longest + jumped + MaxDelay
      BY <1>0, <2>1, <2>2, <2>3, <2>4, Limits, LongestIs DEF AnswerInv, TypesInv
    <2> QED BY <1>0, <2>3, <2>4, <2>5, Limits, LongestIs DEF TypesInv
  <1>4. CASE ~SetClock /\ ~(Tick /\ late' # late)
    <2>1. late' = late /\ jumped' = jumped
      BY <1>4 DEF Next, Events, Pass, Die, StreamsChange, Tick, EvPing, EvPingRemote,
                  EvPong, EvShutdown, EvRoutine, WriteFrame, RecvFrame, EvFrame, state, vars
    <2> QED BY <1>1, <2>1
  <1> QED BY <1>2, <1>3, <1>4

\* HeartInv, ClosedInv and LateInv hold for ever: the routine's rounds, the times of
\* MuxSessionState and the events under way stay related as the other proofs need.
THEOREM HeartbeatSound == Spec => [](HeartInv /\ ClosedInv /\ LateInv)
  <1>1. HeartInv /\ ClosedInv /\ LateInv /\ [Next]_vars => (HeartInv /\ ClosedInv /\ LateInv)'
    BY NextHeart, NextClosed, NextLate
  <1> QED BY <1>1, InitHeart, PTL DEF Spec

\* An other end that went away is noticed within the gap limit and two periods, for
\* any thresholds and limits.
THEOREM DeadPeersNoticed == Spec => []DeadPeerNoticed
  <1>1. HeartInv => DeadPeerNoticed
    <2> SUFFICES ASSUME HeartInv, role = "client", jumped = 0, last_pong > 0, ~retired
                 PROVE  deadFor <= GapLimit + 2 * Longest
      BY DEF DeadPeerNoticed, ClockKept
    <2>1. TypesInv /\ ForwardInv /\ DeadInv
      BY DEF HeartInv
    <2>2. clock - ping_time <= Longest
      BY <2>1, Limits, LongestIs DEF ForwardInv, TypesInv
    <2>3. ping_time - (clock - deadFor) <= GapLimit + Longest
      BY <2>1 DEF DeadInv
    <2> QED BY <2>1, <2>2, <2>3, Limits, LongestIs DEF TypesInv
  <1> QED BY <1>1, HeartbeatSound, PTL

\* A session without traffic ends within the idle limit and a period.
THEOREM IdleSessionsEnd == Spec => []IdleEnds
  <1>1. HeartInv => IdleEnds
    BY DEF HeartInv, IdleInv, IdleEnds, ClockKept
  <1> QED BY <1>1, HeartbeatSound, PTL

\* A session with an other end that answers in time is kept until it is retired for
\* its age: it is neither found late nor idle unless the clock jumps by enough, for any
\* thresholds, limits and delays; nothing panics unless it is set back; at most five
\* events and frames are under way.
THEOREM ResponsiveSessionsKept == Spec => []ResponsiveKept
  <1>1. HeartInv /\ ClosedInv /\ LateInv => ResponsiveKept
    <2> SUFFICES ASSUME HeartInv, ClosedInv, LateInv PROVE ResponsiveKept
      OBVIOUS
    <2>1. TypesInv /\ ElapsedInv /\ LoadInv /\ ForwardInv
      BY DEF HeartInv
    <2>2. asked \in -1 .. MaxDelay + MaxTime
      BY <2>1, Limits DEF TypesInv, ElapsedInv
    <2>3. Len(evq) + Len(out) <= 5
      BY <2>1 DEF TypesInv, LoadInv
    <2>4. TypeOK
      BY <2>1, <2>2, <2>3 DEF TypesInv, TypeOK
    <2>5. routine = "dead" \/ session = "crashed" => jumped < 0
      BY <2>1, Limits DEF ForwardInv, TypesInv
    <2> QED BY <2>4, <2>5 DEF ResponsiveKept, ClosedInv, LateInv
  <1> QED BY <1>1, HeartbeatSound, PTL
=============================================================================
