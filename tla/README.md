# Verification of rsnova

rsnova is a proxy. A local end accepts HTTP, SOCKS5, TLS and transparent
connections and multiplexes them as *streams* over a few encrypted connections,
the *sessions* of a *channel*, to a remote end that connects to the targets.
This directory holds TLA+ models of the multiplexer, the encrypted connection
under it and the front ends above it, TLC runs on small instances of them, and
TLAPS proofs, for all values of the constants, of the safety properties of eight
of the modules. `PROJECT.json` lists runs, mutants, the source
lines each definition stands for, the hazards of the code and the theorems.

## The system

| Component | State it keeps | Operations | What makes it correct |
|---|---|---|---|
| Stream (`rmux/stream.rs`, `utils/buf.rs`) | closed flag, send window, unreported bytes, waker, data queue of 16 buffers, rest of a large frame | `poll_read`, `poll_write`, `poll_shutdown`, `split`, `close`, `offer_data`, `update_send_window` | bytes in order, none twice; memory bounded by the window; no writer asleep for ever; a close reaches the other end |
| Session (`process_rmux_session`, `process_event` in `rmux/session.rs`) | flags closed and retired, event and send queues of 16, frames being written, map of streams, pending streams, times of ping, pong and I/O | coroutines `handle_recv`, `handle_event`, `handle_send`; `create_stream`; routine events | all three end together; streams are closed with the session; SYN first; a retired session ends |
| Session table (`CHANNEL_SESSIONS`) | slots of each channel, round-robin cursor, retired sessions | `store_mux_session`, `erase_mux_session`, `get_channel_session_size`, `create_stream`, `report_update_window`, `routine_all_sessions` | one entry per running session; a stream is created when a session exists |
| Routine (`channel/routine.rs`) | session id seed, time of the last routine | reconnect every 5 s, `routine_all_sessions` every 20 to 40 s | channels are refilled; one session cannot stop the others |
| Relay (`tunnel/relay.rs`, `utils/io.rs`) | two copies of one task | `relay`, `relay_stream`, `handle_rmux_stream` | what was read is written before the end |
| Client connection (`channel/rmux.rs`), listeners (`tunnel/local.rs`, `rmux.rs`, `ws.rs`) | handshake, id seeds | connect, authenticate, run a session | ids are unique where they are looked up |
| Encryption and framing (`rmux/crypto.rs`, `rmux/event.rs`), websocket adapters (`utils/ws.rs`) | key, counter of the header, nonce sequence of the body, receive buffer, rest of a message | `encrypt`, `decrypt`, `read_encrypt_event`, `poll_read`, `poll_write` | both ends move their counters alike; a frame in pieces is read once; nothing that arrived is left waiting |
| Local front ends (`tunnel/local.rs`, `http.rs`, `socks5.rs`, `tls.rs`) | peeked bytes, HTTP decoder state, body length and tail | protocol detection, handshakes, header rewriting | what is for the target reaches it, in full and unchanged; no mutual waiting |
| Direct channel (`channel/direct.rs`, `mod.rs`) | a socket | connect with a timeout | reached when an entry says so |
| TLS adapters (`utils/net.rs`, `net2.rs`), configuration, start | none of their own | I/O | - |

Interaction. A relay task writes DATA into the *event queue* of its session;
`handle_event` handles it and passes frames on to the *send queue*;
`handle_send` gathers and writes them. At the other end `handle_recv` puts each
frame into the event queue there, marked remote, and `handle_event` offers the
data to the stream's *data queue*, from which the relay reads. The reading side
reports consumed bytes through `CHANNEL_SESSIONS` as WIN_UPDATE events. The
routine task sends PING, ROUTINE and SHUTDOWN events to all sessions. All queues
are bounded; some sends wait and some (`try_send`) give up silently.

What is hard: the event coroutine serves both directions and every stream, and
awaits; flags, windows and wakers are touched by several threads; sessions are
looked up by id in a table from which they may have been retired; close, FIN and
retirement race with data and with each other; the two ends of a session can
wait for each other; bytes arrive in any pieces, and each parser has its own
buffer arithmetic; the clock of the heartbeat is the system's and can be set.

## Modules

* `BoundedStream`: what one direction of a stream promises. Bytes are accepted
  and handed over, never more than a bound between the two, and none is handed
  over once the reading end is closed.
* `MuxStream`: one direction of a stream, with its two ends "w" and "r", the
  relay halves and the event coroutines as far as they touch this stream.
  Payload is abstracted to byte positions. `poll_write` is split where another
  thread may act (`CheckWindow`, `StoreWaker`, `Write`, `Account`), everything
  under one lock or between two awaits is one action. The event queue is shared
  with other streams, so a `try_send` may fail at any time. Instance:
  `MCMuxStream`. Proofs: `MuxStreamProofs`.
* `MuxSession`: one end of a session. The three coroutines run in one task, and
  each action is what one of them does between two awaits. `rpc`, `epc` and
  `spc` say where each waits. A client creates streams, pings and retires, a
  server accepts. The actions `App...` are the relays, `Routine...` the routine
  task, and `PeerFrames` what the other end may send. WIN_UPDATE is left to `MuxStream`: a local one is passed on as DATA is
  and a remote one changes nothing at this level. A SYN is well formed. Time is
  abstracted: `pong` says whether a PING was sent since the last PONG, and any
  session that did I/O may be found idle. Instance: `MCMuxSession`. Proofs:
  `MuxSessionProofs`.
* `ChannelSessions`: the table of the sessions of one channel and the routine
  task. Every operation holds the mutex, so each is one action; the sends of
  `routine_all_sessions` are not under it and are single steps. Sessions are
  black boxes that connect, run, may get stuck (as `MuxSession` shows) and end.
  Instance: `MCChannelSessions`. Proofs:
  `ChannelSessionsProofs`.
* `MuxPair`: both ends of one session and the connection between them, for what
  only the two together show: back-pressure through six bounded queues, the loss
  at the end of a session, and a close that has to reach the other end. Frames
  have no payload and windows count frames; coroutines end at once, but for a
  write in progress. Instance: `MCMuxPair`. Proofs: `MuxPairProofs`.
* `Heartbeat`: one session in time. The ping clock of `routine_channels`, the
  three times of `MuxSessionState`, and an other end that answers within a delay
  or is gone. The coroutines take no time. A difference of unsigned times below
  0 is a panic or a large number, depending on the build. A session leaves the
  table both for its age and when it is found late; the history variable `late`
  tells the two apart. Instance: `MCHeartbeat`. Proofs: `HeartbeatProofs`.
* `EventLink`: what the encrypted connection promises to a session: the other
  end's events, each once and in order, until one end is over.
* `SecureLink`: that connection. Bytes are counted; a frame carries the context
  it was sealed with and opens only for a context in the same state, at its
  first byte; anything else is noise, and an end that decodes noise is not
  followed further. Handshake, switch of contexts, `encrypt`, `decrypt`,
  `read_encrypt_event`, over TCP or over the websocket adapters. Instance:
  `MCSecureLink`. Proofs:
  `SecureLinkProofs`.
* `Inbound`: one connection of a local tunnel from `peek` to the relay. A client
  sends parts, each one of the units the front ends read. The front end is picked
  from bytes: `opening` holds the first three of the client, of which `peek` sees
  a number (`seen`), and the rest of `peek_buf` stays 0. `Openings` are the first
  bytes each protocol allows, an HTTP method the code does not know among them.
  `create_stream` is two steps, the search for a session (`Open`) and the wait for
  room for the SYN (`SendSyn`), which does not end at a session that is `stuck`.
  Instance: `MCInbound`. Proofs: `InboundProofs`.
* `HttpReader`: the HTTP front end in detail: `read_until_separator`,
  `parse_request`, `poll_read` and the copy around it, on rows of cells that are
  cut into any reads. `refused` is the request, if any, whose header httparse
  refuses, as it is invalid or has more than 32 fields. Instance: `MCHttpReader`.
* `PeekSni`: the parser of a TLS hello, byte by byte, one loop round per step.
  Instance: `MCPeekSni`. Proofs:
  `PeekSniProofs`.

How they fit together: `SecureLink` implements `EventLink`, which is the
connection `MuxPair` and `MuxSession` have as queues of frames. `MuxPair` takes
two sessions as `MuxSession` has them, without the steps of their ending.
`MuxStream` implements `BoundedStream`, which is the stream that `Inbound` opens
and copies into. The sessions `Inbound` finds or misses are those of
`ChannelSessions`; a session that gets stuck there is one of `MuxSession` or,
with both ends, of `MuxPair`. These steps are by reading, only the two
refinements are checked.

Several modules are parameterised by a set of cases instead of one: the roles of
`Heartbeat`, the `Transports` of `SecureLink`, the `Sides` of `ChannelSessions`,
the `Scopes` of `MuxSession` and `MuxPair`. The initial state picks a case, a
variable (`role`, `transport`, the domain of `seed`, `scope`) keeps it, and no
step changes it, so that one run answers a question for the client and the
server. A scope also holds the bounds that differ between the cases.

Operators named `X_Y` next to a definition `X` are mutants: plausible bugs that
the properties must detect. Nothing refers to them.

## Runs

| Run | Result | What it shows |
|---|---|---|
| `stream` | holds | order (`InOrder`), exact credit (`FlowInv`), wake-ups, causes of a stall and of a panic, refinement of `BoundedStream`; `offer_data` returns, a handled FIN reaches the other end, a parked writer runs again |
| `stream_complete` | violated | a FIN cuts off data that was queued before it (`poll_read` looks at the flag first) |
| `session_safety` | holds | SYN first, streams stay pending only by retirement or closing, others are closed with the session |
| `session_live` | holds | a session ends once closed, or retired and empty; the routine gets past it |
| `sessions` | holds | entries and running sessions agree; what two listeners with the same ids can confuse; `create_stream` finds a session unless the cursor wraps; an empty channel is refilled |
| `link` | holds | ends stay in step however frames are cut and through the switch of contexts; the decoder does not wait with a frame in its buffer; events are decoded, the handshake ends; refinement of `EventLink` |
| `pair` | holds | the two ends wait for each other only if the windows exceed the queues; what is lost on the way, and why; written data arrives, a close reaches the other end |
| `heartbeat` | holds | a vanished end is noticed, an idle session ends, one that answers in time is kept until it is retired for its age |
| `inbound` | holds | what is for the target reaches it; why a connection is turned down; when a direct entry is missed; no handshake in which both wait |
| `http` | holds | headers rewritten and bodies passed on for every cut into reads; when the copy fails, ends early or `fill_read_buf` panics; nothing waits for bytes that are not to come |
| `http_post` | violated | the body of a first request is not passed on |
| `sni` | holds | the first host name of a hello is found, in bounds |

`TypeOK` of each module is the first part of one of its invariants.

The passing properties state their exceptions, and these are what a maintainer
should know:

* a writer may sleep with its window open when a credit comes between its check
  and the storing of its waker (`WakeupLostOnlyByStaleCheck`);
* a stream may stall when its last report was refused, as it is retried only at
  the next read, or when its session is retired, as reports are then dropped
  (`StallHasCause`, `ParkedWriterRuns`);
* a relay panics on a first frame longer than two copy buffers
  (`PanicOnlyOnFirstFrame`);
* a stream whose target refused the connection, or whose local socket failed,
  and that still gets data, stops its session for ever, the closing of the
  session included, and with it the routine of all sessions (`Stuck` in
  `ShutdownCompletes` and `RoutineReturns`, `stuck` in `ChannelRefilled`);
* a stream created just before its session is retired is never put in the map
  (`PendingHasCause`);
* with several listeners a session may report to, or erase, another one
  (`LookupFindsOwn`);
* the websocket writer may put a frame on the connection twice when its flush is
  pending, after which the reader is out of step (`twice` in `InStep` and
  `EventsArrive`);
* a client and a server of which only one encrypts may wait for each other in
  the handshake (`AuthEnds`);
* two ends can wait for each other for ever when the windows of their streams
  together exceed the queues on the way. With 16 slots per queue and 128 KiB per
  stream, a few busy streams in both directions do (`GridlockNeedsWindow`);
* a retired session drops what it had still to send when its last stream closes
  (`LossHasCause`), and a FIN that finds the event queue full is not sent
  (`finLost` in `CloseReaches`);
* an other end that never answered a PING is not noticed (`last_pong > 0` in
  `DeadPeerNoticed`); one that answers is found late when the period and its
  delay exceed the gap limit, that is with an answer after some 20 seconds, or
  when the clock is set forward in between; setting it back may end a session or,
  for good, the routine (`ResponsiveKept`);
* `HttpReader` does not serve clients whose first request has a body, that send
  two chunked bodies, or that send requests behind each other (`Unserved` and
  `pipelining`); a header or body longer than the copy buffer may panic
  (`PanicHasCause`), and one header of more than 32 fields ends the connection
  (`EarlyEndHasCause`);
* what comes behind the header of an eager CONNECT is lost (`PayloadKept`);
* a client of which `peek` sees one byte of TLS or fewer than three of HTTP, or
  whose method does not begin like one of the ten known, is taken for a
  transparent connection (`Unknown` in `TurnedDownHasCause`);
* a direct entry is not tried when the session of an earlier one ends after the
  look at the table, or is skipped as the cursor wraps (`DirectIsReached`);
* within an HTTP header a client's end is not noticed, and a stuck session holds
  the connections that create a stream on it for ever, as `create_stream` waits
  without a timeout (`HandshakeEnds`);
* a TLS hello split within its session id panics (`PanicHasCause` of `PeekSni`),
  and a list of names without a host name makes the parser read on into the next
  extension (`FoundIsFirst`).

Disagreements between the code and its documentation that need no run, as one
action of the model shows each:

* `README.md:7` and `conns_per_host`: the number of sessions is read while others
  connect (`routine.rs:23`, `RoutineConnect`), so a slow handshake leads to more;
* `client.toml:29`, `work_time_frame`: outside of it no connection is made
  (`routine.rs:20`), and streams are still opened on those there are;
* `client.toml:15`, `ping_interval_sec`: the value is not used; PINGs are sent
  with the routine, every 20 to 40 seconds (`routine.rs:48`, `Tick`);
* `utils/io.rs:82`, the copy ends when the end was seen: a header that comes in
  two reads also ends it (`http.rs:370`, `EarlyEndHasCause`);
* SOCKS5 success is answered before the connection is tried (`socks5.rs:115`);
* `README.md:13`, SOCKS4: the client is recognised and turned down
  (`local.rs:37`).

### Bounds

`Window`, `MinReport`, `Chunk` and `Peek` keep the order 8192 < 32768 <= 131072
of the code. In `stream`, 5, 3, 2 and 5 with 9 bytes let the window go negative,
be credited and close again, and let a first frame be read in two pieces or
panic. Queues of one slot make "full" common. `session_safety` has two streams,
so that a SYN moves another stream's pending entry; its client hears nothing from
the other end, its server up to three frames. `session_live` has one stream, a
frame or three of the other end, and, without streams, three runs of the routine,
as a late heartbeat needs. In `sessions` three sessions and a cursor modulo 4
make the wrap hit a number of slots that does not divide the modulus, as 2^32
would, and two listeners give the same ids.

In `SecureLink` a header, a tag and the least read are 2, 1 and 3 bytes, and a
body 5: frames fit one read, need two, or come together, and a body is longer
than the least read. Two events in one direction and one back, after the
handshake, let a counter be wrong and be used. `pair` has queues of one slot, so
that 12 frames fill them. Of its scopes one lets both ends write with a window
that allows 6 frames, and without the window the gridlock is reached (its
mutant); the other two have a window of one, so that every queue may hold the
FIN, the data or the update first, and end the relay of a session that is
retired, or of both ends.

`Heartbeat` counts in tens of seconds. The routine's period is at most 40
seconds, as in the code; the delay of an answer is 30 and the gap limit 70, the
sum of the two, so that the limit is just reached by an answer in time and
exceeded by a jump (the code's 60 leave 20 for the answer); the idle limit of 300
is taken as 160, and a run is 240 seconds, longer than the longest bound it
checks. `Inbound` has pac lists in which an entry is passed over, fallen back to
or raced with, and first bytes in lower case, of an unknown method and of a
record before version 3. In `HttpReader` three requests let a body follow a body,
a terminator of two cells is cut in each possible place, and a buffer of three
cells is filled by a header of three and exceeded by one of four and by a chunked
body of four; a read brings up to five cells, a whole request among them. `PeekSni` has all lists of up to two
extensions with up to two names, cut at every byte.

`MaxBytes`, `MaxWrites`, `MaxSessions`, `MaxCalls`, `MaxEvents`, `MaxRetries`,
`MaxTime`, `MaxChanges`, `MaxExts` and the numbers in `Scopes` are bounds for
model checking. A stream, a session, a connection and a parser may end, so their
runs do not check for deadlock; `sessions` does. Two streams are interchangeable,
which `session_safety` uses as a symmetry.

### Fairness

Weak fairness is assumed of steps whose await has returned: the runtime polls a
ready task again. Beyond that, four assumptions are about the environment, and
the code has no timeout to enforce them: a write to the connection returns or
fails; a connection attempt to a target ends; a local socket accepts what a
relay read or fails; the timer of the routine ticks. There is none on the other
end sending anything, on local sockets having data or ending, on working hours,
or on connections succeeding.

By module: `SecureLink` assumes of a connection that has not ended
that it takes and delivers what is written, and that an end that stops closes it
for the other; `MuxPair` that a relay reads what is there, as its local socket
takes it, and not that a relay writes or ends; `Inbound` that a client which is
not waiting for an answer sends on or closes, that a direct connection is there
or not after three seconds, which its timeout enforces, and that a session that
is not stuck takes the SYN, for which there is no timeout; `HttpReader` that what a client has sent arrives. Peers
that are silent for ever are so excluded only where the property is about the
proxy's own waiting. `Heartbeat` has no fairness: its bounds are invariants over
the time that has passed.

## Proofs

Eight modules hold theorems. Each proves an inductive invariant, with one lemma
per action, or per part of the invariant and action, and derives from it the
properties the runs check on small instances. The invariants were checked by TLC
on the instances of the runs before they were proved, but for the one of
`MuxPairProofs`, whose weights are functions on an infinite set: of that one the
consequences were.

**`MuxStreamProofs`** (under `StreamAssumption`: a chunk is smaller than a
report, a report at most the window, the first write at most the window, queues
have a slot). `FlowCorrect`: `FlowInv` is invariant. The bound on the bytes in
flight is not inductive, as it depends on what credits are on their way;
`FlowInv` therefore follows each credit as the interval of bytes it is for.
`CreditOnce` says that the intervals on their way are disjoint, in order, above
what was applied and below what was reported, so applying one never gives more
than was read; `WriterFlow` is what `poll_write` knows between its steps;
`DataOrder` says of data what `CreditOnce` says of credit. A report is longer
than the deepest debt (`Chunk < MinReport`), so each credit makes the window
positive, and the condition `> 0` of `update_send_window` wakes every writer that
`< 0` has stopped. From it follow `TypeCorrect`, `BufferBounded`,
`WindowInRange`, the action property `WakeupsNotLost` and `StreamIsPipe`, by
which every step is one of `BoundedStream` or a stutter. `FlowInv` allows gaps:
data and credit may be dropped. `NothingLost` adds `KeptInv`: as long as the
reading half is on and its end mapped, the bytes from the one being read to the
last one sent are all in the queues (`BytesKept`); as long as the session is in
the table and the writing end mapped, so is all credit (`CreditKept`); only the
first frame is longer than a copy buffer. `ReadsInOrder`, `PanicsOnlyOnFirst` and
`StallsHaveCause` need both invariants.

**`MuxSessionProofs`** (any set of streams, queues of any size). `SessionSound`:
`SessionInv` is invariant. Its parts are types and capacities; that the events in
the queues name streams this end knows (`EventsInv`); that a stream is in the map
or pending until it is closed (`StreamsInv`); and `OrderInv`, which says of each
stream where its SYN is and that everything of it lies behind, through event
queue, send queue and write buffer. `SynGoesFirst`, `PendingCaused` and
`OrphansPending` follow. `SynFirst` is stated over `Outgoing`, the queues of the
send path one behind the other, so that a frame that overtakes between two queues
counts.

**`ChannelSessionsProofs`** (any number of sessions, `conns_per_host` and cursor
modulus). `TableSound`: `TableInv` is invariant. A session of one listener may
erase the entry of another's with the same id, so "every running session has its
entry" does not hold; `Balance`
keeps the number of entries per id equal to the number of running sessions with
it, and `IdsInv` that ids of one source never repeat. `LookupsFindOwn`,
`EntriesMatch` and the action property `CreateFailsOnlyEmpty` follow. The order
in which `routine_all_sessions` visits the slots (`InSlotOrder`) does not matter
to them.

**`MuxPairProofs`** (any finite set of streams, any window, scope and size of the
queues). The properties count frames that are spread over six queues, and no step
sees more than two of these. `PairSound`: `PairInv` is invariant. It weighs what
is on the way: `Way(e, w)` is the sum of the weights `w` of all frames of one end
that the other has not handled. A step that moves a frame changes no weight,
whatever the weight is, so that one lemma per step serves all accounts; a step
that makes or takes a frame changes the accounts by that frame. `WindowKept` is
the account of a window: what may still be written, what was written and is on
the way, unread, unreported, or reported and not learned of is together at most
the window. `OwedKept` is the one of the frames written, `FinsKept` and
`PingsKept` those of the frames without a window, and `LifeKept` says when a
stream has gone. `NoLoss` follows from `OwedKept` with the weight that is 1 for
the DATA of one stream. For `GridlockCause`, an end that waits holds
`EvCap + SendCap + NetCap + 3` frames (`EndFull`); of one stream there are at most
`Window + 1` for each writer and four for each closing end (`OneStream`), both ways
together, by `WindowKept`, as every update stands for a frame that was read; and
`ManyStreams` adds the streams up by induction over their number. The bound is
for both directions together: an end alone can be full.

**`HeartbeatProofs`** (any limits, delays and clock jumps; there is a longest
threshold, and the clock starts at 2 or later, as seconds since 1970 do).
`HeartbeatSound`: `HeartInv` relates the clock to the last round of the routine,
to the last activity and to the last PING and PONG, and counts events on their
way as the activity they are about to record. That a session is found late only
after a jump needs how far its other end is behind: only a client pings, and an
answer that is waited for is due within `MaxDelay` (`PingedInv`); an end that is
there has answered every PING but those under way, so that its last PONG is no
older than a period, the jump and the time this answer has taken (`AnswerInv`).
`ClosedInv` says why a session was closed, `LateInv` when one was found late.
`DeadPeersNoticed`, `IdleSessionsEnd` and `ResponsiveSessionsKept` (with its
bounds for each role) follow.

**`SecureLinkProofs`** (any header, tag and body lengths, any number of events;
a header fits the least read, `HeaderLen <= MinRead`, 8 and 4096 in the code).
`LinkSound`: `LinkInv` is invariant. Of a writer it says that its frames lie on
the connection one behind the other (`Layout`), that the first is its AUTH event
(`HelloOK`) and that the others are the events it sent, each sealed with the
context the one before left (`Chain`), across the frames written and those still
queued. Of a reader, that it stands at the first byte of a frame with the context
of that frame (`StepOK`), waits for exactly what `decrypt` is short of
(`NeedOK`), and that what a websocket message left over is the end of a frame
whose header was read (`RestOK`): the rest then fits the next read, whose buffer
is at least what is waited for, which is why `poll_read` does not panic. The
parts about the reader do not hold once a frame was repeated; `NeedOK` does.
`StaysInStep`, `WaitsCorrectly` and the refinement `LinkRefines` follow. In the
refinement, handing over an event needs that the frame at the reader's offset
carries the next event in `sent`, which is `Chain` at that frame.

**`InboundProofs`** (any set of protocols of `Script`, any pac table, any first
bytes that satisfy `OpeningsAssumption`: what SOCKS, TLS and HTTP say a client
begins with). `RouteFacts` is what handle_inbound makes of the bytes: whatever
number of them `peek` saw, a client of one protocol is not taken for one of
another, and it gets to its own front end unless it is `Unknown`. `PayloadComplete`
follows from `FrontInv`, which says for each front end which parts it has read,
which are still to be passed on and what the client waits for;
`TurnedDownCaused` from both, with what each end of a front end and of the pac
loop leaves behind; `DirectReached` from `ChannelInv`, by which the loop over the
pac entries does not pass a direct one.

**`PeekSniProofs`** (any lengths up to a byte, any number of extensions whose
length fits two bytes, `MaxExts <= 4095`). `ParserStaysInside`: offsets stay
within the record, as each is compared with what is left before the next is
computed from it, but for the session id. `PanicsCaused` follows. That a hello
consists of bytes, with the session id where the parser looks for it, needs the
length of `FlattenSeq`. This is an induction over the extensions: `SetInduction`
is induction for a set of numbers, from the least element a well-founded order
has in every set (`WFMin`), and `JoinedExists` shows that the recursion of
`FlattenSeq` has a solution.

`NameFoundIsFirst` states `FoundIsFirst` for hellos whose lists of ciphers have
an even length (`SuitesWhole`): a cipher suite is two bytes, and the parser
refuses other lengths. It needs where the parser stands. `PlaceInv`
(`ParserKeepsPlace`) says that there are offsets at which the extensions lie one
behind the other in the record, and that, when the first list of names that is
not empty has a host name, the parser is at one of these offsets, or at a name
of that list with a round left for each name from there on, or has found its
first host name. A list that is empty leaves it at the next extension; behind a list
without a host name it may be anywhere, which is the case the property excepts.
TLC checked the same invariant with the offsets computed.

Only model-checked: all liveness properties, as fairness and ENABLED are out of
the prover's reach, and the three invariants of `HttpReader`, whose proof has not
been undertaken. The two violated properties are refuted by their runs.

## Plan

The models the first plan named are in place, and the safety properties of eight
modules are proved. What is left are the three invariants of `HttpReader`: they
need where in the body the reader is for each way of framing it, and the lemmas of `PeekSniProofs` on where the
parts of a `FlattenSeq` lie.

## Not modelled

The ciphers, bincode, the TLS and websocket libraries and the runtime are
external. Logging, the reading of the configuration and the start of the tasks
are pure I/O; the adapters of `utils/net.rs` and `net2.rs` for async-tls hand
each call on to another trait, and `http_proxy_connect` is used by nothing. A
listener that stops at an accept error is not modelled. Stream ids are taken as
unique within a session (the u32 seed advances by 2), and both ends as
configured with the same key. Chunks that contain the terminator of a chunked
body, and headers other than those about the body, are left out of
`HttpReader`, and a rewritten header is taken to be as long as the original,
which it seldom exceeds; when the reader passes on what it has buffered behind the
first header is left out of `Inbound`. A TLS record that holds more than the hello,
and lists of ciphers of 256 bytes or more, are left out of `PeekSni`; the masks of two header counters are taken to differ, although the
counter is OR-ed into the key. Panics other than those named above (among them
`*counter - 1` in a debug message of `http.rs`, which a debug build with that
log level evaluates), and the memory orderings of the atomics (all sequentially
consistent in the code), are left out.
