----------------------------- MODULE Heartbeat -----------------------------
(***************************************************************************)
(* The heartbeat of one session in time: the ping clock of routine_channels *)
(* (channel/routine.rs), what routine_all_sessions does with the session,   *)
(* and the times MuxSessionState keeps (rmux/session.rs).  The coroutines   *)
(* of the session take no time here; module MuxSession has their steps.     *)
(* The clock is the system's and can be set; the network and the other end  *)
(* can go away without a word, while writes still succeed.                  *)
(***************************************************************************)
EXTENDS Integers, Sequences

CONSTANTS
    Roles,       \* the kinds of ends explored
    Thresholds,  \* 30 + rand_inc of routine_channels, 20 .. 39 seconds
    GapLimit,    \* 60 seconds
    IdleLimit,   \* 300 seconds
    MaxDelay,    \* the longest an other end that is there takes to answer
    PeerGap,     \* the longest an other end that pings is silent
    Start,       \* the clock when the session starts
    Jumps,       \* amounts by which the clock may be set, once
    MaxTime      \* bound on the time that passes

ASSUME HeartbeatAssumption ==
    /\ Roles \subseteq {"client", "server"} /\ Thresholds \subseteq Nat \ {0}
    /\ {GapLimit, IdleLimit, MaxDelay, PeerGap, Start, MaxTime} \subseteq Nat \ {0}
    /\ \E t \in Thresholds : \A u \in Thresholds : u <= t
    /\ Start >= 2 /\ Jumps \subseteq Int /\ \A j \in Jumps : Start + j > 0

VARIABLES
    role,        \* "client": the session is pinged here; "server"
    clock,       \* SystemTime
    ping_time,   \* of routine_channels
    ticked,      \* the interval has fired in this unit of time
    routine,     \* "runs", or "dead" after a panic
    last_ping, last_pong, io_active,   \* the times of MuxSessionState, 0: never
    retired,     \* the session is in the list of retired sessions
    late,        \* history: it was put there because its heartbeat was late
    busy,        \* the session has streams
    evq,         \* events for handle_event
    out,         \* frames for handle_send
    session,     \* "up", "closed", or "crashed" after a panic in its task
    peer,        \* the other end is "alive" or "dead"
    asked,       \* time since a PING is unanswered, or -1
    quiet,       \* time since an other end that pings sent a frame
    deadFor,     \* time since the other end died
    jumped       \* by how much the clock was set, or 0

times == <<last_ping, last_pong, io_active>>
state == <<times, retired, late, busy, evq, out, session>>
network == <<peer, asked, quiet>>
vars == <<clock, ping_time, ticked, routine, state, network, deadFor, jumped, role>>

Init ==
    /\ role \in Roles
    /\ clock = Start
    /\ ping_time \in {Start - d : d \in 0 .. 2} /\ ticked = FALSE /\ routine = "runs"
    /\ last_ping = 0 /\ last_pong = 0 /\ io_active = 0
    /\ retired = FALSE /\ late = FALSE /\ busy \in BOOLEAN /\ evq = <<>> /\ out = <<>> /\ session = "up"
    /\ peer = "alive" /\ asked = -1 /\ quiet = 0
    /\ deadFor = 0 /\ jumped = 0

-----------------------------------------------------------------------------
(* Time and the other end.                                                  *)

Settled == evq = <<>> /\ out = <<>> /\ (ticked \/ routine = "dead")
AnswerDue == peer = "alive" /\ asked >= MaxDelay
FrameDue == peer = "alive" /\ role = "server" /\ ~retired /\ quiet >= PeerGap

\* A unit of time passes when all that takes no time is done.
Pass ==
    /\ session = "up" /\ clock - Start - jumped < MaxTime
    /\ Settled /\ ~AnswerDue /\ ~FrameDue
    /\ clock' = clock + 1 /\ ticked' = FALSE
    /\ asked' = IF asked >= 0 THEN asked + 1 ELSE asked
    /\ quiet' = IF role = "server" THEN quiet + 1 ELSE 0
    /\ deadFor' = IF peer = "dead" THEN deadFor + 1 ELSE 0
    /\ UNCHANGED <<ping_time, routine, state, peer, jumped, role>>

\* The clock is set, or the machine was suspended.
SetClock ==
    /\ session = "up" /\ jumped = 0
    /\ \E j \in Jumps : j # 0 /\ clock' = clock + j /\ jumped' = j
    /\ UNCHANGED <<ping_time, ticked, routine, state, network, deadFor, role>>

Die ==
    /\ peer = "alive" /\ peer' = "dead"
    /\ UNCHANGED <<clock, ping_time, ticked, routine, state, asked, quiet, deadFor, jumped, role>>

\* The last stream ends, or the first one starts.
StreamsChange ==
    /\ session = "up" /\ busy' = ~busy
    /\ UNCHANGED <<clock, ping_time, ticked, routine, times, retired, late, evq, out, session,
                   network, deadFor, jumped, role>>

-----------------------------------------------------------------------------
(* routine_channels and routine_all_sessions.                               *)

\* Mutant: the times are compared the wrong way round.
Late_Swapped == last_ping > 0 /\ last_pong > 0 /\ last_ping - last_pong < -GapLimit

\* Mutant: the sign of the limit is lost.
Late_Unsigned == last_ping > 0 /\ last_pong > 0 /\ last_pong - last_ping < GapLimit

\* ping_pong_gap() < -60.
Late == last_ping > 0 /\ last_pong > 0 /\ last_pong - last_ping < -GapLimit

\* What a session that is not retired gets.
Beats == IF role = "client" THEN <<"PING", "ROUTINE">> ELSE <<"ROUTINE">>

\* What routine_all_sessions sends: the end to a late session; a PING and a
\* ROUTINE to the others, of which it may retire an old one; a ROUTINE to those
\* that were retired before.
RoutineAll ==
    IF retired THEN evq' = evq \o <<"ROUTINE">> /\ UNCHANGED <<retired, late>>
    ELSE IF Late THEN evq' = evq \o <<"SHUTDOWN">> /\ retired' = TRUE /\ late' = TRUE
    ELSE /\ evq' = evq \o Beats
         /\ retired' \in (IF role = "client" THEN BOOLEAN ELSE {FALSE})
         /\ UNCHANGED late

\* One round of routine_channels.  When the clock was set back, the difference of
\* u64 is a panic or very large, depending on the build.
Tick ==
    /\ ~ticked /\ routine = "runs" /\ session = "up"
    /\ ticked' = TRUE
    /\ \/ /\ clock < ping_time
          /\ routine' = "dead" /\ UNCHANGED <<ping_time, evq, retired, late>>
       \/ \E th \in Thresholds :
          /\ clock < ping_time \/ clock - ping_time > th
          /\ RoutineAll /\ ping_time' = clock /\ UNCHANGED routine
       \/ \E th \in Thresholds :
          /\ clock >= ping_time /\ clock - ping_time <= th
          /\ UNCHANGED <<ping_time, evq, retired, late, routine>>
    /\ UNCHANGED <<clock, times, busy, out, session, network, deadFor, jumped, role>>

-----------------------------------------------------------------------------
(* handle_event, handle_send, handle_recv.                                  *)

\* event_rx.recv().
Takes(k) == session = "up" /\ evq # <<>> /\ Head(evq) = k /\ evq' = Tail(evq)
EvFrame == <<clock, ping_time, ticked, routine, retired, late, busy, network, deadFor, jumped, role>>

EvPing ==
    /\ Takes("PING")
    /\ last_ping' = clock /\ out' = Append(out, "PING")
    /\ UNCHANGED <<EvFrame, last_pong, io_active, session>>

EvPingRemote ==
    /\ Takes("REMOTE_PING")
    /\ out' = Append(out, "PONG")
    /\ UNCHANGED <<EvFrame, times, session>>

EvPong ==
    /\ Takes("PONG")
    /\ last_pong' = clock
    /\ UNCHANGED <<EvFrame, last_ping, io_active, out, session>>

EvShutdown ==
    /\ Takes("SHUTDOWN")
    /\ session' = "closed"
    /\ UNCHANGED <<EvFrame, times, out>>

\* Mutant: a session that has streams is never idle.
IdleTooLong_NoStreams == ~busy /\ io_active # 0 /\ (clock < io_active \/ clock - io_active >= IdleLimit)

\* get_io_idle_secs() >= 300; a time before io_active_unix_secs wraps to a large
\* one in u32.
IdleTooLong == io_active # 0 /\ (clock < io_active \/ clock - io_active >= IdleLimit)

\* handle_routine_event; in a build that checks, the wrap is a panic.
EvRoutine ==
    /\ Takes("ROUTINE")
    /\ \/ io_active # 0 /\ clock < io_active /\ session' = "crashed"
       \/ session' = IF (retired /\ ~busy) \/ IdleTooLong THEN "closed" ELSE "up"
    /\ UNCHANGED <<EvFrame, times, out>>

\* handle_send writes a frame; the connection takes it, also to a dead end.
WriteFrame ==
    /\ session = "up" /\ out # <<>>
    /\ io_active' = clock /\ out' = Tail(out)
    /\ asked' = IF Head(out) = "PING" /\ peer = "alive" /\ asked < 0 THEN 0 ELSE asked
    /\ UNCHANGED <<clock, ping_time, ticked, routine, last_ping, last_pong, retired, late, busy,
                   evq, session, peer, quiet, deadFor, jumped, role>>

\* A frame of the other end: an answer to a PING, or a PING.
RecvFrame ==
    /\ session = "up" /\ peer = "alive"
    /\ role = "client" => asked >= 0
    /\ role = "server" => quiet > 0
    /\ io_active' = clock /\ quiet' = 0 /\ asked' = -1
    /\ evq' = Append(evq, IF role = "client" THEN "PONG" ELSE "REMOTE_PING")
    /\ UNCHANGED <<clock, ping_time, ticked, routine, last_ping, last_pong, retired, late, busy,
                   out, session, peer, deadFor, jumped, role>>

Events == EvPing \/ EvPingRemote \/ EvPong \/ EvShutdown \/ EvRoutine
Next ==
    \/ Pass \/ SetClock \/ Die \/ StreamsChange
    \/ Tick \/ Events \/ WriteFrame \/ RecvFrame

Spec == Init /\ [][Next]_vars

-----------------------------------------------------------------------------
(* Properties.                                                              *)

\* The variables have their types; at most the events of one tick and one frame
\* are on their way.
TypeOK ==
    /\ role \in Roles /\ {clock, ping_time, deadFor, quiet} \subseteq Nat
    /\ {last_ping, last_pong, io_active} \subseteq Nat /\ asked \in -1 .. MaxDelay + MaxTime
    /\ session \in {"up", "closed", "crashed"} /\ routine \in {"runs", "dead"}
    /\ Len(evq) + Len(out) <= 5

Longest == (CHOOSE t \in Thresholds : \A u \in Thresholds : u <= t) + 1
ClockKept == jumped = 0

\* An other end that went away is noticed by the PINGs it does not answer: from
\* the first PONG on, and as long as the session is not retired, within the limit
\* and two periods of the routine.  Without a PONG it is not noticed at all: the
\* session's own writes keep it from being idle.
DeadPeerNoticed ==
    role = "client" /\ session = "up" /\ ClockKept /\ last_pong > 0 /\ ~retired =>
        deadFor <= GapLimit + 2 * Longest

\* A session on which nothing was sent or received for the limit ends within a
\* period: those of the server and the retired ones, which are not pinged.
IdleEnds ==
    session = "up" /\ ClockKept /\ io_active > 0 =>
        clock - io_active <= IdleLimit + Longest

\* A session with an other end that answers in time is kept until it is retired for
\* its age.  It is found late only if the clock was set, by so much that a period, the
\* delay of the answer and the jump exceed the limit; it is idle only if the clock was
\* set by about the idle limit; there is no panic unless the clock was set back, and
\* events do not pile up.
ResponsiveKept ==
    /\ TypeOK
    /\ routine = "dead" \/ session = "crashed" => jumped < 0
    /\ late /\ peer = "alive" => jumped < 0 \/ jumped + Longest + MaxDelay > GapLimit
    /\ session = "closed" /\ peer = "alive" /\ ~retired =>
          jumped < 0 \/ jumped + (IF role = "client" THEN Longest ELSE PeerGap) >= IdleLimit
=============================================================================
