----------------------------- MODULE SecureLink -----------------------------
(***************************************************************************)
(* The encrypted connection under a session, from its authentication on:   *)
(* encrypt and the incremental decoder of rmux/crypto.rs, the header of    *)
(* rmux/event.rs, the handshake of init_client (channel/rmux.rs) with      *)
(* handle_rmux and handle_websocket (tunnel/), over a TCP byte stream or   *)
(* over the websocket adapters of utils/ws.rs.                             *)
(*                                                                         *)
(* Bytes are counted, not valued.  A frame keeps the context it was sealed *)
(* with; it can be read only by a context in the same state, at the offset *)
(* where it starts.  Everything else a cipher yields is noise: the end is  *)
(* then "garbled" and the model does not follow it further.  Both ends are *)
(* configured with the same key.                                           *)
(***************************************************************************)
EXTENDS Integers, Sequences, SequencesExt

CONSTANTS
    Transports,  \* of "tcp" and "ws", the schemes of the url
    Methods,     \* cipher methods the two configurations choose from
    HeaderLen,   \* EVENT_HEADER_LEN, 8
    TagLen,      \* tag_len() of the AEADs, 16
    MinRead,     \* least buffer for one read, 4096
    Slack,       \* room BytesMut::reserve may leave beyond what was asked for
    LenMod,      \* header lengths, 24 of 32 bits
    AuthLen,     \* body of AuthRequest and AuthResponse
    Bodies,      \* body lengths of DATA
    Credits,     \* lengths in WIN_UPDATE headers
    Rand,        \* AuthResponse.rand
    MaxEvents,   \* bound on the events each end sends in the session
    MaxRetries   \* bound on the writes of a websocket that are polled again

ASSUME LinkAssumption ==
    /\ Transports \subseteq {"tcp", "ws"}
    /\ Methods \subseteq {"none", "aes128gcm", "chacha20poly1305"}
    /\ HeaderLen \in Nat \ {0} /\ TagLen \in Nat /\ Slack \in Nat
    /\ MinRead \in Nat /\ HeaderLen <= MinRead
    /\ LenMod \in Nat \ {0} /\ AuthLen \in 1 .. LenMod - 1
    /\ Bodies \subseteq 1 .. LenMod - 1 /\ Credits \subseteq 1 .. LenMod - 1
    /\ Rand \in Nat /\ MaxRetries \in Nat

Ends == {"c", "s"}
ASSUME EventsAssumption == MaxEvents \in [Ends -> Nat]

Other(e) == IF e = "c" THEN "s" ELSE "c"

VARIABLES
    transport,   \* the scheme of the channel's url and of the listener's
    method,      \* cipher.method of each configuration
    phase,       \* where each end is, see Phases
    wctx, rctx,  \* CryptoContext for writing and for reading, of each end
    outq,        \* encrypted frames each end has still to write
    wire,        \* frames each end has written, in order
    twice,       \* some frame was put on the connection twice by this end
    retries,     \* polls that were repeated after a pending flush
    got,         \* offset up to which each end has read the other's bytes
    used,        \* offset up to which recv_buf was consumed
    rest,        \* bytes in WebsocketReader.recv_buf of each end
    need,        \* next_read_n: 0 when the buffer is decoded next
    sent,        \* events each end has sent in the session
    delivered    \* events each end has decoded in the session

config == <<transport, method>>
contexts == <<wctx, rctx>>
writing == <<outq, wire, twice, retries>>
reading == <<got, used, rest, need>>
history == <<sent, delivered>>
vars == <<config, phase, contexts, writing, reading, history>>

\* connect: the client's TCP connection is being made, the server has none;
\* auth: waits for the other's AUTH event; reply: the server writes its answer;
\* session; ended: an error or the end of the connection; panic: a slice out of
\* range; garbled: noise was decoded.
Phases == {"connect", "auth", "reply", "session", "ended", "panic", "garbled"}
Reading(e) == phase[e] \in {"auth", "session"}
Over(e) == phase[e] \in {"ended", "panic", "garbled"}

-----------------------------------------------------------------------------
(* Contexts and frames.                                                     *)

\* CryptoContext::new: h is the counter of the header key, b that of the nonce
\* sequence of the body, both set to the same number.
NewContext(m, nonce) == [m |-> m, h |-> nonce, b |-> nonce]

Sealed(ctx) == ctx.m # "none"

\* get_flag_len and Header::len: the length loses what does not fit 24 bits.
HeaderField(len) == len % LenMod

\* auth: the AuthRequest or AuthResponse an AUTH event carries.
Event(k, len, auth) == [k |-> k, len |-> len, auth |-> auth]
Plain(k, len) == Event(k, len, [method |-> "none", rand |-> 0])

\* FLAG_WIN_UPDATE carries its number in the header's length and has no body.
BodyLen(ev) == IF ev.k = "WIN_UPDATE" THEN 0 ELSE ev.len

\* CryptoContext::encrypt: the frame, and the context after it.
Encrypt(ctx, ev) ==
    [ev |-> ev, ctx |-> ctx,
     n |-> HeaderLen + BodyLen(ev) + (IF Sealed(ctx) /\ BodyLen(ev) > 0 THEN TagLen ELSE 0)]
AfterEncrypt(ctx, ev) ==
    IF Sealed(ctx)
    THEN [ctx EXCEPT !.h = @ + 1, !.b = IF BodyLen(ev) > 0 THEN @ + 1 ELSE @]
    ELSE ctx

\* Frames on the connection to e, each with the offset where it starts.
Incoming(e) == wire[Other(e)]
Total(w) == IF w = <<>> THEN 0 ELSE w[Len(w)].at + w[Len(w)].f.n
FramesAt(e, off) == {i \in DOMAIN Incoming(e) : Incoming(e)[i].at = off}

\* The header is masked with the key and the counter; the method does not
\* matter, as long as there is one.  (The counter is OR-ed into the key, so some
\* pairs of counters mask alike; between them the model has noise where the code
\* may read the header.  No property is about a reader out of step.)
HeaderReadable(ctx, f) ==
    Sealed(ctx) = Sealed(f.ctx) /\ (Sealed(ctx) => ctx.h = f.ctx.h)

\* open_in_place succeeds.
BodyOpens(ctx, f) == ctx.m = f.ctx.m /\ (Sealed(ctx) => ctx.b = f.ctx.b)

-----------------------------------------------------------------------------
Init ==
    /\ transport \in Transports
    /\ method \in [Ends -> Methods]
    /\ phase = [e \in Ends |-> "connect"]
    /\ wctx = [e \in Ends |-> NewContext(method[e], 0)]
    /\ rctx = [e \in Ends |-> NewContext(method[e], 0)]
    /\ outq = [e \in Ends |-> <<>>]
    /\ wire = [e \in Ends |-> <<>>]
    /\ twice = [e \in Ends |-> FALSE]
    /\ retries = 0
    /\ got = [e \in Ends |-> 0] /\ used = [e \in Ends |-> 0]
    /\ rest = [e \in Ends |-> 0] /\ need = [e \in Ends |-> 0]
    /\ sent = [e \in Ends |-> <<>>] /\ delivered = [e \in Ends |-> <<>>]

\* encrypt an event and hand it to the writer.
Send(e, ev) ==
    /\ outq' = [outq EXCEPT ![e] = Append(@, Encrypt(wctx[e], ev))]
    /\ wctx' = [wctx EXCEPT ![e] = AfterEncrypt(@, ev)]

\* init_rmux_client connects, the listener accepts, and init_client sends the
\* AuthRequest with its method.
Connect ==
    /\ phase["c"] = "connect"
    /\ phase' = [e \in Ends |-> "auth"]
    /\ Send("c", Event("AUTH", AuthLen, [method |-> method["c"], rand |-> 0]))
    /\ UNCHANGED <<config, rctx, wire, twice, retries, reading, history>>

\* The connection attempt fails or takes more than five seconds.
ConnectFails ==
    /\ phase["c"] = "connect"
    /\ phase' = [phase EXCEPT !["c"] = "ended"]
    /\ UNCHANGED <<config, contexts, writing, reading, history>>

\* Events with a body, without one, and with a number in place of the length.
Messages ==
    {Plain("DATA", n) : n \in Bodies} \cup {Plain("FIN", 0)}
    \cup {Plain("WIN_UPDATE", n) : n \in Credits}

\* process_event sends an event of the session; the server has none before the
\* client's first.
SendEvent(e) ==
    /\ phase[e] = "session" /\ Len(sent[e]) < MaxEvents[e]
    /\ e = "s" => delivered["s"] # <<>>
    /\ \E ev \in Messages :
          /\ Send(e, ev)
          /\ sent' = [sent EXCEPT ![e] = Append(@, ev)]
    /\ UNCHANGED <<config, phase, rctx, wire, twice, retries, reading, delivered>>

OnWire(e) == Append(wire[e], [f |-> Head(outq[e]), at |-> Total(wire[e])])

\* A frame goes out: over TCP in any pieces, over a websocket as one binary
\* message, as write_buf of VBuf gives poll_write the first frame only.
Write(e) ==
    /\ outq[e] # <<>> /\ ~Over(e)
    /\ wire' = [wire EXCEPT ![e] = OnWire(e)]
    /\ outq' = [outq EXCEPT ![e] = Tail(@)]
    /\ UNCHANGED <<config, phase, contexts, twice, retries, reading, history>>

\* WebsocketWriter::poll_write makes a new send future on every poll.  When the
\* message was taken by the sink and only its flush is pending, the future is
\* dropped, and the next poll sends the same bytes again.
WritePending(e) ==
    /\ transport = "ws" /\ outq[e] # <<>> /\ ~Over(e) /\ retries < MaxRetries
    /\ wire' = [wire EXCEPT ![e] = OnWire(e)]
    /\ twice' = [twice EXCEPT ![e] = TRUE]
    /\ retries' = retries + 1
    /\ UNCHANGED <<config, phase, contexts, outq, reading, history>>

-----------------------------------------------------------------------------
(* Reading.                                                                 *)

MinOf(a, b) == IF a < b THEN a ELSE b
MaxOf(a, b) == IF a > b THEN a ELSE b

\* Lengths of recv_buf[pos..] after reserve(next_read_n).
Rooms(e) == {MaxOf(need[e], MinRead), MaxOf(need[e], MinRead) + Slack}

\* One read of a TCP stream: any part of what is there.
ReadTcp(e) ==
    /\ transport = "tcp"
    /\ \E room \in Rooms(e) :
       \E n \in 1 .. MinOf(room, Total(Incoming(e)) - got[e]) :
          got' = [got EXCEPT ![e] = @ + n]
    /\ UNCHANGED <<phase, rest>>

\* WebsocketReader::poll_read: the rest of the last message, all of it, or the
\* next message as far as it fits.
ReadWs(e) ==
    /\ transport = "ws"
    /\ \E room \in Rooms(e) :
       IF rest[e] > 0
       THEN IF rest[e] > room
            THEN phase' = [phase EXCEPT ![e] = "panic"] /\ UNCHANGED <<got, rest>>
            ELSE /\ got' = [got EXCEPT ![e] = @ + rest[e]]
                 /\ rest' = [rest EXCEPT ![e] = 0]
                 /\ UNCHANGED phase
       ELSE \E i \in FramesAt(e, got[e]) :
            LET n == Incoming(e)[i].f.n IN
            /\ got' = [got EXCEPT ![e] = @ + MinOf(n, room)]
            /\ rest' = [rest EXCEPT ![e] = n - MinOf(n, room)]
            /\ UNCHANGED phase

\* read_encrypt_event gets some bytes and goes on to decode.
Read(e) ==
    /\ Reading(e) /\ need[e] > 0
    /\ ReadTcp(e) \/ ReadWs(e)
    /\ need' = [need EXCEPT ![e] = 0]
    /\ UNCHANGED <<config, contexts, writing, used, history>>

\* The connection ends or fails, perhaps within a frame: what recv_buf holds of
\* it is dropped.
ReadEnds(e) ==
    /\ Reading(e) /\ need[e] > 0
    /\ phase' = [phase EXCEPT ![e] = "ended"]
    /\ UNCHANGED <<config, contexts, writing, reading, history>>

\* Mutant: a WIN_UPDATE is taken to have a body.
BytesOfBody_Credit(ctx, ev) ==
    IF HeaderField(ev.len) = 0 THEN 0
    ELSE HeaderField(ev.len) + (IF Sealed(ctx) THEN TagLen ELSE 0)

\* What decrypt expects behind a header.
BytesOfBody(ctx, ev) ==
    IF ev.k = "WIN_UPDATE" \/ HeaderField(ev.len) = 0 THEN 0
    ELSE HeaderField(ev.len) + (IF Sealed(ctx) THEN TagLen ELSE 0)

\* Mutant: the counter of the header key moves only with a body.
AfterDecrypt_NoHeaderNonce(ctx, ev) ==
    IF Sealed(ctx) /\ BytesOfBody(ctx, ev) > 0
    THEN [ctx EXCEPT !.h = @ + 1, !.b = @ + 1] ELSE ctx

\* Both counters move with a frame that was read, and not before.
AfterDecrypt(ctx, ev) ==
    IF Sealed(ctx)
    THEN [ctx EXCEPT !.h = @ + 1, !.b = IF BytesOfBody(ctx, ev) > 0 THEN @ + 1 ELSE @]
    ELSE ctx

Outcome(r, n, ev) == [r |-> r, n |-> n, ev |-> ev]
NoEvent == Plain("NONE", 0)

\* CryptoContext::decrypt: the number of bytes that are missing, or an event
\* and the bytes it takes, or noise, or a body that does not open.
Decrypt(e) ==
    LET have == got[e] - used[e]
        at == FramesAt(e, used[e])
    IN IF have < HeaderLen THEN Outcome("more", HeaderLen - have, NoEvent)
       ELSE IF \A i \in at : ~HeaderReadable(rctx[e], Incoming(e)[i].f)
       THEN Outcome("noise", 0, NoEvent)
       ELSE LET f == Incoming(e)[CHOOSE i \in at : TRUE].f
                n == HeaderLen + BytesOfBody(rctx[e], f.ev)
            IN IF have < n THEN Outcome("more", n - have, NoEvent)
               ELSE IF n > HeaderLen /\ ~BodyOpens(rctx[e], f) THEN Outcome("error", 0, NoEvent)
               ELSE Outcome("event", n, f.ev)

Decoding(e, r) == Reading(e) /\ need[e] = 0 /\ Decrypt(e).r = r

\* Not enough yet: read on, keeping the buffer and the context as they are.
DecodeMore(e) ==
    /\ Decoding(e, "more")
    /\ need' = [need EXCEPT ![e] = Decrypt(e).n]
    /\ UNCHANGED <<config, phase, contexts, writing, got, used, rest, history>>

\* "Decrypt error" ends the session, or the handshake.
DecodeFails(e) ==
    /\ Decoding(e, "error")
    /\ phase' = [phase EXCEPT ![e] = "ended"]
    /\ UNCHANGED <<config, contexts, writing, reading, history>>

DecodeNoise(e) ==
    /\ Decoding(e, "noise")
    /\ phase' = [phase EXCEPT ![e] = "garbled"]
    /\ UNCHANGED <<config, contexts, writing, reading, history>>

\* Mutant: the next event is read from the connection before the buffer is
\* looked at.
Consume_ReadsFirst(e) ==
    /\ used' = [used EXCEPT ![e] = @ + Decrypt(e).n]
    /\ need' = [need EXCEPT ![e] = MinRead]
    /\ UNCHANGED <<got, rest>>

\* Mutant: the buffer is not advanced past an event without a body.
Consume_KeepsHeader(e) ==
    /\ used' = [used EXCEPT ![e] = IF Decrypt(e).n = HeaderLen THEN @ ELSE @ + Decrypt(e).n]
    /\ need' = [need EXCEPT ![e] = 0]
    /\ UNCHANGED <<got, rest>>

\* The event's bytes leave recv_buf, which is otherwise kept for the next call,
\* also from the handshake to the session.
Consume(e) ==
    /\ used' = [used EXCEPT ![e] = @ + Decrypt(e).n]
    /\ need' = [need EXCEPT ![e] = 0]
    /\ UNCHANGED <<got, rest>>

\* Mutant: the request is read and not answered.
ServerAuth_NoAnswer ==
    /\ phase["s"] = "auth" /\ Decoding("s", "event")
    /\ Consume("s")
    /\ phase' = [phase EXCEPT !["s"] = "reply"]
    /\ UNCHANGED <<config, contexts, writing, history>>

\* The AuthResponse: always success, a random number and the client's method.
Answer(req) == Event("AUTH", AuthLen, [method |-> req.method, rand |-> Rand])

\* handle_rmux has the AuthRequest and answers it, sealed with the first context;
\* handle_websocket does the same over its adapters.
ServerAuth ==
    /\ phase["s"] = "auth" /\ Decoding("s", "event")
    /\ Consume("s")
    /\ LET res == Answer(Decrypt("s").ev.auth) IN
       /\ Send("s", res)
       /\ rctx' = [rctx EXCEPT !["s"] = NewContext(res.auth.method, res.auth.rand)]
    /\ phase' = [phase EXCEPT !["s"] = "reply"]
    /\ UNCHANGED <<config, wire, twice, retries, history>>

\* write_all of the answer returns; the session starts with new contexts.
ServerReady ==
    /\ phase["s"] = "reply" /\ outq["s"] = <<>>
    /\ wctx' = [wctx EXCEPT !["s"] = rctx["s"]]
    /\ phase' = [phase EXCEPT !["s"] = "session"]
    /\ UNCHANGED <<config, rctx, writing, reading, history>>

\* init_client has the AuthResponse: it keeps its own method.
ClientReady ==
    /\ phase["c"] = "auth" /\ Decoding("c", "event")
    /\ Consume("c")
    /\ LET ctx == NewContext(method["c"], Decrypt("c").ev.auth.rand) IN
       /\ wctx' = [wctx EXCEPT !["c"] = ctx]
       /\ rctx' = [rctx EXCEPT !["c"] = ctx]
    /\ phase' = [phase EXCEPT !["c"] = "session"]
    /\ UNCHANGED <<config, writing, history>>

\* read_encrypt_event returns an event to handle_recv.
Deliver(e) ==
    /\ phase[e] = "session" /\ Decoding(e, "event")
    /\ Consume(e)
    /\ rctx' = [rctx EXCEPT ![e] = AfterDecrypt(@, Decrypt(e).ev)]
    /\ delivered' = [delivered EXCEPT ![e] = Append(@, Decrypt(e).ev)]
    /\ UNCHANGED <<config, phase, wctx, writing, sent>>

-----------------------------------------------------------------------------
Decode(e) == DecodeMore(e) \/ DecodeFails(e) \/ DecodeNoise(e) \/ Deliver(e)
Auth == ServerAuth \/ ServerReady \/ ClientReady

Next ==
    \/ Connect \/ ConnectFails \/ Auth
    \/ \E e \in Ends : SendEvent(e) \/ Write(e) \/ WritePending(e)
                       \/ Read(e) \/ ReadEnds(e) \/ Decode(e)

Spec == Init /\ [][Next]_vars

\* A connection that has not ended takes what is written to it and delivers it;
\* one end that stops closes it for the other; a coroutine whose await returned
\* runs on.
PeerGone(e) == phase[Other(e)] \in {"ended", "panic"} /\ ReadEnds(e)
Fairness ==
    /\ WF_vars(Auth)
    /\ \A e \in Ends : WF_vars(PeerGone(e))
    /\ \A e \in Ends : WF_vars(Write(e)) /\ WF_vars(Read(e)) /\ WF_vars(Decode(e))

FairSpec == Spec /\ Fairness

-----------------------------------------------------------------------------
(* Properties.                                                              *)

Counters == [Ends -> Nat]

\* The variables have their types; offsets are ordered as the bytes flow.
TypeOK ==
    /\ transport \in Transports /\ method \in [Ends -> Methods] /\ phase \in [Ends -> Phases]
    /\ {got, used, rest, need} \subseteq Counters /\ twice \in [Ends -> BOOLEAN]
    /\ \A e \in Ends :
          /\ used[e] <= got[e] /\ got[e] + rest[e] <= Total(Incoming(e))
          /\ wctx[e].m \in Methods /\ rctx[e].m \in Methods

\* Two ends with the same method stay in step for ever: whatever the pieces in
\* which frames arrive, and through the switch of contexts after the handshake,
\* the reader is at the start of a frame with the counters the frame was sealed
\* with, and the rest of a websocket message fits its next read; unless the
\* websocket writer put a frame on the connection twice.  Ends that differ have
\* no session: the server repeats the client's method and the client takes no
\* notice of the answer's, so the methods meet in the first frame alone.
InStep ==
    /\ TypeOK
    /\ phase["c"] = "session" => method["c"] = method["s"]
    /\ \A e \in Ends :
          method["c"] = method["s"] /\ ~twice[Other(e)] =>
              /\ phase[e] \notin {"garbled", "panic"}
              /\ Reading(e) /\ need[e] = 0 => Decrypt(e).r # "error"

Link == INSTANCE EventLink WITH Peer <- Other,
    state <- [e \in Ends |-> IF Over(e) THEN "over"
                             ELSE IF twice[Other(e)] THEN "broken"
                             ELSE IF phase[e] = "session" THEN "session" ELSE "wait"]

\* Framing, ciphers, reassembly and the handshake together are a link that hands
\* over events: in order, each once, only within the session, nothing made up,
\* until a websocket writer repeats a frame.
ImplementsLink == Link!LinkSpec

\* read_encrypt_event waits for the connection only while recv_buf has no
\* complete frame: a frame that came together with the one before it is not
\* left in the buffer until more bytes come.
WaitsOnlyWithoutFrame ==
    \A e \in Ends : Reading(e) /\ need[e] > 0 => Decrypt(e).r = "more"

\* Every event sent is decoded, unless the connection ends or a frame was put on
\* it twice.
EventsArrive ==
    \A e \in Ends : \A i \in 1 .. MaxEvents[Other(e)] :
        Len(sent[Other(e)]) >= i ~>
            (Len(delivered[e]) >= i \/ Over(e) \/ Over(Other(e)) \/ twice[Other(e)])

\* The client's wait for the AuthResponse, which has no timeout, ends, unless
\* the server reads noise: a client and a server of which only one encrypts may
\* wait for each other.
AuthEnds == phase["c"] = "auth" ~> (phase["c"] # "auth" \/ phase["s"] = "garbled")
=============================================================================
