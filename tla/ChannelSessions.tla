--------------------------- MODULE ChannelSessions ---------------------------
(***************************************************************************)
(* The table of the sessions of one channel: CHANNEL_SESSIONS in           *)
(* rmux/session.rs, a mutex that every operation takes for its whole       *)
(* synchronous part, and the tasks that use it.  At the client,            *)
(* routine_channels starts sessions and retires them; at the server, whose *)
(* channel has the empty name, every listener adds those it accepts.       *)
(***************************************************************************)
EXTENDS Integers, Sequences, FiniteSets

CONSTANTS
    Sides,       \* the ends modelled, each by the sources of its session ids:
                 \* routine_channels of a client, or the listeners of a server
    Conns,       \* conns_per_host
    CursorMod,   \* 2^32: the cursor is an AtomicU32
    MaxSessions, \* bound on the sessions started
    MaxCalls     \* bound on the calls of create_stream

ASSUME PoolAssumption ==
    /\ \A sources \in Sides : sources # {} /\ ("routine" \in sources => sources = {"routine"})
    /\ Conns \in Nat /\ CursorMod \in Nat \ {0}
    /\ MaxSessions \in Nat /\ MaxCalls \in Nat

VARIABLES
    slots,    \* ChannelMuxSession.sessions: a session, or 0 for None
    retired,  \* ChannelSessionManager.retired
    cursor,   \* ChannelMuxSession.cursor
    seed,     \* session_id_seed, or tunnel_id_seed of each listener
    id,       \* the id of each session
    src,      \* and the source it has it from
    conn,     \* the state of each session's connection
    inHours,  \* is_valid_hour of the channel
    rpc,      \* where routine_channels is
    todo,     \* sessions routine_all_sessions has still to send events to
    stuck,    \* sessions whose event queue is full for good (see MuxSession)
    calls,    \* calls of create_stream so far
    last      \* the session the last one took, 0 when it failed

vars == <<slots, retired, cursor, seed, id, src, conn, inHours, rpc, todo,
          stuck, calls, last>>

\* The sources of the end at hand; a client's channel has a name.
Sources == DOMAIN seed
IsClient == Sources = {"routine"}

Sessions == 1..MaxSessions
ConnStates == {"none", "connecting", "running", "over"}

Started == {n \in Sessions : conn[n] # "none"}
Running == {n \in Sessions : conn[n] = "running"}
Stored == {n \in Sessions : \E i \in 1..Len(slots) : slots[i] = n}

Init ==
    /\ slots = <<>> /\ retired = <<>> /\ cursor = 0
    /\ \E sources \in Sides : seed = [s \in sources |-> 0]
    /\ id = [n \in Sessions |-> 0]
    /\ src = [n \in Sessions |-> CHOOSE s \in Sources : TRUE]
    /\ conn = [n \in Sessions |-> "none"]
    /\ inHours \in BOOLEAN
    /\ rpc = "connect" /\ todo = <<>> /\ stuck = {}
    /\ calls = 0 /\ last = 0

-----------------------------------------------------------------------------
(* Operations of the table.                                                 *)

\* The first element of a set of indices, 0 when it is empty.
First(S) == IF S = {} THEN 0 ELSE CHOOSE i \in S : \A j \in S : i <= j

\* Mutant: retired sessions are counted too.
get_channel_session_size_All ==
    Cardinality({i \in 1..Len(slots) : slots[i] # 0}) + Len(retired)

\* get_channel_session_size: the occupied slots.
get_channel_session_size == Cardinality({i \in 1..Len(slots) : slots[i] # 0})

\* store_mux_session: the first free slot, or a new one.
store_mux_session(n) ==
    LET free == First({i \in 1..Len(slots) : slots[i] = 0})
    IN slots' = IF free = 0 THEN Append(slots, n) ELSE [slots EXCEPT ![free] = n]

\* The first session of the channel with an id, as report_update_window,
\* erase_mux_session and hanle_pendding_mux_streams look for it.
Lookup(sid) == First({i \in 1..Len(slots) : slots[i] # 0 /\ id[slots[i]] = sid})

\* Mutant: the search goes on after the first hit.
erase_mux_session_EveryHit(sid) ==
    /\ slots' = [i \in 1..Len(slots) |->
                    IF slots[i] # 0 /\ id[slots[i]] = sid THEN 0 ELSE slots[i]]
    /\ retired' = SelectSeq(retired, LAMBDA n : id[n] # sid)

\* erase_mux_session: the first one with the id, in the slots or else retired.
erase_mux_session(sid) ==
    LET i == Lookup(sid)
        j == First({k \in 1..Len(retired) : id[retired[k]] = sid})
    IN /\ slots' = IF i # 0 THEN [slots EXCEPT ![i] = 0] ELSE slots
       /\ retired' = IF i = 0 /\ j # 0
                     THEN SubSeq(retired, 1, j - 1) \o SubSeq(retired, j + 1, Len(retired))
                     ELSE retired

-----------------------------------------------------------------------------
(* The life of a session.                                                   *)

\* Mutant: the seed is read and not advanced.
Start_SameId(s, k) ==
    LET first == Cardinality(Started) + 1
        new == first .. (first + k - 1)
    IN /\ first + k - 1 <= MaxSessions
       /\ src' = [n \in Sessions |-> IF n \in new THEN s ELSE src[n]]
       /\ conn' = [n \in Sessions |-> IF n \in new THEN "connecting" ELSE conn[n]]
       /\ id' = [n \in Sessions |-> IF n \in new THEN seed[s] + n - first ELSE id[n]]
       /\ seed' = seed

\* k new sessions of source s, with the next ids of its seed.
Start(s, k) ==
    LET first == Cardinality(Started) + 1
        new == first .. (first + k - 1)
    IN /\ first + k - 1 <= MaxSessions
       /\ src' = [n \in Sessions |-> IF n \in new THEN s ELSE src[n]]
       /\ conn' = [n \in Sessions |-> IF n \in new THEN "connecting" ELSE conn[n]]
       /\ id' = [n \in Sessions |-> IF n \in new THEN seed[s] + n - first ELSE id[n]]
       /\ seed' = [seed EXCEPT ![s] = @ + k]

\* start_tunnel_server accepts a connection.
Accept(s) ==
    /\ ~IsClient
    /\ Start(s, 1)
    /\ UNCHANGED <<slots, retired, cursor, inHours, rpc, todo, stuck, calls, last>>

\* The handshake is over (init_client, handle_rmux): process_rmux_session
\* stores the session before anything else.
Connected(n) ==
    /\ conn[n] = "connecting"
    /\ conn' = [conn EXCEPT ![n] = "running"]
    /\ store_mux_session(n)
    /\ UNCHANGED <<retired, cursor, seed, id, src, inHours, rpc, todo, stuck, calls, last>>

\* The connection or the handshake fails.
ConnectFails(n) ==
    /\ conn[n] = "connecting"
    /\ conn' = [conn EXCEPT ![n] = "over"]
    /\ UNCHANGED <<slots, retired, cursor, seed, id, src, inHours, rpc, todo,
                   stuck, calls, last>>

\* The three coroutines are over: the session is erased.
Ends(n) ==
    /\ conn[n] = "running" /\ n \notin stuck
    /\ conn' = [conn EXCEPT ![n] = "over"]
    /\ erase_mux_session(id[n])
    /\ UNCHANGED <<cursor, seed, id, src, inHours, rpc, todo, stuck, calls, last>>

\* Its event coroutine waits for ever and its queue fills up.
Sticks(n) ==
    /\ conn[n] = "running"
    /\ stuck' = stuck \cup {n}
    /\ UNCHANGED <<slots, retired, cursor, seed, id, src, conn, inHours, rpc,
                   todo, calls, last>>

-----------------------------------------------------------------------------
(* create_stream                                                            *)

\* The k-th slot the loop looks at: the cursor, modulo the number of slots.
Probe(k) == 1 + (((cursor + k) % CursorMod) % Len(slots))

\* Mutant: one turn of the loop too few.
create_stream_ShortLoop ==
    /\ IsClient /\ calls < MaxCalls
    /\ calls' = calls + 1
    /\ LET hits == {k \in 0..(Len(slots) - 2) : slots[Probe(k)] # 0}
       IN IF hits = {}
          THEN last' = 0 /\ cursor' = (cursor + Len(slots)) % CursorMod
          ELSE LET k == CHOOSE k \in hits : \A j \in hits : k <= j
               IN last' = slots[Probe(k)] /\ cursor' = (cursor + k + 1) % CursorMod
    /\ UNCHANGED <<slots, retired, seed, id, src, conn, inHours, rpc, todo, stuck>>

\* At most one turn of the loop per slot, until one is occupied.
create_stream ==
    /\ IsClient /\ calls < MaxCalls
    /\ calls' = calls + 1
    /\ LET hits == {k \in 0..(Len(slots) - 1) : slots[Probe(k)] # 0}
       IN IF hits = {}
          THEN last' = 0 /\ cursor' = (cursor + Len(slots)) % CursorMod
          ELSE LET k == CHOOSE k \in hits : \A j \in hits : k <= j
               IN last' = slots[Probe(k)] /\ cursor' = (cursor + k + 1) % CursorMod
    /\ UNCHANGED <<slots, retired, seed, id, src, conn, inHours, rpc, todo, stuck>>

-----------------------------------------------------------------------------
(* routine_channels, every five seconds                                     *)

\* The client's channel is filled up to conns_per_host in its working hours.
\* A session still connecting is not counted.
RoutineConnect ==
    /\ rpc = "connect"
    /\ IF IsClient /\ inHours /\ get_channel_session_size < Conns
       THEN \E s \in Sources : Start(s, Conns - get_channel_session_size)
       ELSE UNCHANGED <<conn, id, seed, src>>
    /\ rpc' = "routine"
    /\ UNCHANGED <<slots, retired, cursor, inHours, todo, stuck, calls, last>>

\* It is not yet time for routine_all_sessions.
RoutineSkip ==
    /\ rpc = "routine"
    /\ rpc' = "connect"
    /\ UNCHANGED <<slots, retired, cursor, seed, id, src, conn, inHours, todo,
                   stuck, calls, last>>

\* A set of slots, in the order in which the loop over the slots meets them.
InSlotOrder(S) ==
    {p \in [1..Cardinality(S) -> S] : \A i, j \in 1..Cardinality(S) : i < j => p[i] < p[j]}

\* routine_all_sessions under the lock: the sessions whose heartbeat is late or
\* whose age is over leave their slot for the end of `retired`; every session,
\* retired or not, is to be sent an event.
routine_all_sessions ==
    /\ rpc = "routine"
    /\ LET occupied == {i \in 1..Len(slots) : slots[i] # 0} IN
       \E out \in SUBSET occupied : \E leaving \in InSlotOrder(out), all \in InSlotOrder(occupied) :
          /\ ~IsClient => out = {}
          /\ slots' = [i \in 1..Len(slots) |-> IF i \in out THEN 0 ELSE slots[i]]
          /\ retired' = retired \o [i \in 1..Cardinality(out) |-> slots[leaving[i]]]
          /\ todo' = [i \in 1..Cardinality(occupied) |-> slots[all[i]]] \o retired
    /\ rpc' = "send"
    /\ UNCHANGED <<cursor, seed, id, src, conn, inHours, stuck, calls, last>>

\* Its sends, one after the other: each waits for room in the session's queue,
\* or fails at once when the session is over.
RoutineSend ==
    /\ rpc = "send"
    /\ IF todo = <<>>
       THEN rpc' = "connect" /\ todo' = todo
       ELSE /\ Head(todo) \notin stuck
            /\ todo' = Tail(todo) /\ rpc' = rpc
    /\ UNCHANGED <<slots, retired, cursor, seed, id, src, conn, inHours, stuck,
                   calls, last>>

\* The clock enters or leaves work_time_frame.
HourChanges ==
    /\ IsClient
    /\ inHours' = ~inHours
    /\ UNCHANGED <<slots, retired, cursor, seed, id, src, conn, rpc, todo, stuck,
                   calls, last>>

-----------------------------------------------------------------------------
RoutineStep == RoutineConnect \/ RoutineSkip \/ routine_all_sessions \/ RoutineSend

Next ==
    \/ \E s \in Sources : Accept(s)
    \/ \E n \in Sessions : Connected(n) \/ ConnectFails(n) \/ Ends(n) \/ Sticks(n)
    \/ create_stream
    \/ RoutineStep
    \/ HourChanges

Spec == Init /\ [][Next]_vars

\* The interval of routine_channels keeps ticking.
FairSpec == Spec /\ WF_vars(RoutineStep)

-----------------------------------------------------------------------------
(* Properties.                                                              *)

\* The variables have their types.
TypeOK ==
    /\ slots \in Seq(Sessions \cup {0}) /\ retired \in Seq(Sessions)
    /\ cursor \in 0..(CursorMod - 1) /\ seed \in [Sources -> Nat]
    /\ id \in [Sessions -> Nat] /\ src \in [Sessions -> Sources]
    /\ conn \in [Sessions -> ConnStates] /\ inHours \in BOOLEAN
    /\ rpc \in {"connect", "routine", "send"} /\ todo \in Seq(Sessions)
    /\ stuck \subseteq Sessions /\ calls \in 0..MaxCalls
    /\ last \in Sessions \cup {0}

\* The lookup by id that a session's streams and its end rely on finds the
\* session itself; at a server with several listeners, each with a seed of its
\* own and all with the channel "", it may find one of another listener.
LookupFindsOwn ==
    \A n \in Running \cap Stored :
        \/ slots[Lookup(id[n])] = n
        \/ \E m \in Sessions \ {n} : id[m] = id[n] /\ src[m] # src[n]

\* The table keeps its types, and entries and running sessions agree in number
\* for each id, whatever the order in which sessions connect, are retired and
\* end.  With one source of ids each session so has an entry of its own just
\* while it runs; with two, a session erased in place of another leaves no entry
\* behind in the end.
EntriesMatchRunning ==
    /\ TypeOK
    /\ \A n \in Started :
          LET same == {m \in Started : id[m] = id[n]}
          IN Cardinality({i \in 1..Len(slots) : slots[i] \in same})
               + Cardinality({i \in 1..Len(retired) : retired[i] \in same})
               = Cardinality(same \cap Running)

\* create_stream fails only when the channel has no session, or when the u32
\* cursor wraps during the search and slots are skipped.
FailsOnlyWithoutSession ==
    [][calls' # calls /\ last' = 0
          => Stored = {} \/ cursor + Len(slots) > CursorMod]_vars

\* A channel without any session gets a new connection attempt in its working
\* hours, even while retired sessions live on, unless the one routine task
\* waits for a session that is stuck.
ChannelRefilled ==
    (IsClient /\ Stored = {} /\ inHours) ~>
        \/ Stored # {} \/ ~inHours \/ stuck # {}
        \/ \E n \in Sessions : conn[n] = "connecting"
        \/ Cardinality(Started) + Conns > MaxSessions
=============================================================================
