------------------------------ MODULE Inbound ------------------------------
(***************************************************************************)
(* One connection of a "local" tunnel: handle_inbound (tunnel/local.rs)     *)
(* looks at the first bytes and picks a front end (socks5.rs, tls.rs,       *)
(* http.rs or the redirected destination), which takes what is meant for    *)
(* the proxy off the connection, answers, and hands over to relay_stream    *)
(* (tunnel/relay.rs): it picks a channel by the pac entries, opens a stream *)
(* (channel/mod.rs, channel/direct.rs) and copies.                          *)
(*                                                                         *)
(* What a client sends is a row of parts, each one of the units the front   *)
(* ends read.  Of the way back only the answers of the front ends are kept. *)
(***************************************************************************)
EXTENDS Integers, Sequences, SequencesExt

CONSTANTS
    Kinds,       \* protocols clients speak, a subset of the domain of Script
    Openings,    \* the first three bytes clients of each protocol may send
    Pacs,        \* sequences of pac entries as they apply to the target:
                 \* each is [match, channel]
    Channels,    \* channels other than "direct"
    MaxChanges   \* bound on the sessions that come and go

\* The parts a client sends, in order; "p1" and "p2" are for the target.
Script ==
    [socks5  |-> <<"greeting", "methods", "request", "addr", "p1", "p2">>,
     socks4  |-> <<"request4", "p1">>,
     tls     |-> <<"record", "hello", "p1">>,
     http    |-> <<"line", "headend", "p1">>,
     connect |-> <<"line", "headend", "p1", "p2">>,
     other   |-> <<"p1", "p2">>]

\* The three-letter beginnings handle_inbound compares with, in ASCII: GET, PUT, POS,
\* DEL, OPT, TRA, PAT, HEA, CON and UPG.
CON == <<67, 79, 78>>
Methods ==
    {<<71, 69, 84>>, <<80, 85, 84>>, <<80, 79, 83>>, <<68, 69, 76>>, <<79, 80, 84>>,
     <<84, 82, 65>>, <<80, 65, 84>>, <<72, 69, 65>>, CON, <<85, 80, 71>>}

\* to_uppercase.
Upper(b) == [i \in 1 .. 3 |-> IF b[i] \in 97 .. 122 THEN b[i] - 32 ELSE b[i]]
Letters == (65 .. 90) \cup (97 .. 122)

\* Clients send what their protocols say; an HTTP method is any word, also one the
\* code does not know.
ASSUME OpeningsAssumption ==
    /\ \A k \in DOMAIN Script : Openings[k] \subseteq [1 .. 3 -> 0 .. 255]
    /\ \A o \in Openings["socks5"] : o[1] = 5
    /\ \A o \in Openings["socks4"] : o[1] = 4
    /\ \A o \in Openings["tls"] : o[1] = 22 /\ o[2] >= 3
    /\ \A o \in Openings["http"] : o \in [1 .. 3 -> Letters] /\ Upper(o) # CON
    /\ \A o \in Openings["connect"] : Upper(o) = CON
    /\ \A o \in Openings["other"] :
          o[1] \notin {4, 5} /\ (o[1] = 22 => o[2] < 3) /\ Upper(o) \notin Methods

ASSUME InboundAssumption ==
    /\ Kinds \subseteq DOMAIN Script
    /\ Channels \cap {"direct", "none"} = {} /\ MaxChanges \in Nat
    /\ \A p \in Pacs : p \in Seq([match : BOOLEAN, channel : Channels \cup {"direct"}])

VARIABLES
    kind,        \* the client's protocol
    opening,     \* its first three bytes
    bad,         \* the part the front end will refuse, or "none"
    eager,       \* the client does not wait for answers
    redirected,  \* getsockopt finds an original destination
    pac,         \* the pac entries
    sent, got,   \* parts sent by the client, parts read by the front end
    closed,      \* the client has closed its side
    seen,        \* number of bytes peek got
    pc,          \* where the connection's coroutine is
    route,       \* the front end that was picked
    answers,     \* answers written to the client
    kept,        \* parts that were read and are passed on first
    relayed,     \* parts written to the channel
    pos,         \* the next pac entry
    channel,     \* the channel picked so far, or "none"
    sessions,    \* channels that have a session
    changes,     \* number of changes of sessions
    lost,        \* the channel lost its session after the loop looked at it
    missed,      \* create_stream failed for want of a "session", or by a "wrap", or "no"
    stuck        \* the event queue of the session it took is full for good

world == <<kind, opening, bad, eager, redirected, pac>>
peer == <<sent, closed>>
choice == <<pos, channel>>
table == <<sessions, changes, lost>>
stream == <<missed, stuck>>
vars == <<world, peer, got, seen, pc, route, answers, kept, relayed, choice, table, stream>>

script == Script[kind]
Exact == {"greeting", "methods", "request", "addr", "record", "hello"}

\* The parts that wait for an answer, unless the client is eager.
AnswersBefore(part) ==
    CASE kind = "socks5" /\ part = "request" -> 1
      [] kind = "socks5" /\ part = "p1" -> 2
      [] kind = "connect" /\ part = "p1" -> 1
      [] OTHER -> 0

Init ==
    /\ kind \in Kinds /\ opening \in Openings[kind]
    /\ bad \in {"none"} \cup ({"methods", "request", "addr", "record", "hello", "headend"} \cap ToSet(script))
    /\ eager \in BOOLEAN /\ redirected \in BOOLEAN /\ pac \in Pacs
    /\ sent = 0 /\ got = 0 /\ closed = FALSE /\ seen = 0
    /\ pc = "peek" /\ route = "none" /\ answers = 0 /\ kept = <<>> /\ relayed = <<>>
    /\ pos = 1 /\ channel = "none"
    /\ sessions \in SUBSET Channels /\ changes = 0 /\ lost = FALSE
    /\ missed = "no" /\ stuck = FALSE

-----------------------------------------------------------------------------
(* The client, and the sessions of the channels.                            *)

Send ==
    /\ ~closed /\ sent < Len(script)
    /\ eager \/ answers >= AnswersBefore(script[sent + 1])
    /\ sent' = sent + 1
    /\ UNCHANGED <<world, got, closed, seen, pc, route, answers, kept, relayed, choice, table, stream>>

Close ==
    /\ ~closed /\ closed' = TRUE
    /\ UNCHANGED <<world, got, sent, seen, pc, route, answers, kept, relayed, choice, table, stream>>

\* A session of a channel is stored, or the last one is erased.
SessionsChange ==
    /\ changes < MaxChanges /\ changes' = changes + 1
    /\ \E c \in Channels :
        /\ sessions' = IF c \in sessions THEN sessions \ {c} ELSE sessions \cup {c}
        /\ lost' = (lost \/ (pc = "open" /\ c = channel /\ c \in sessions))
    /\ UNCHANGED <<world, peer, got, seen, pc, route, answers, kept, relayed, choice, stream>>

-----------------------------------------------------------------------------
(* handle_inbound.                                                          *)

\* Mutant: version 3 itself is refused.
valid_tls_version_Above(b) == b[1] = 22 /\ b[2] > 3

\* A handshake record of version 3 or later; the third byte is not looked at.
valid_tls_version(b) == b[1] = 22 /\ b[2] >= 3

\* peek_buf: what was not there stays 0.
peek_buf(n) == [i \in 1 .. 3 |-> IF i <= n THEN opening[i] ELSE 0]

\* The front end for the bytes in peek_buf.
RouteOf(b) ==
    CASE b[1] = 5 -> "socks5"
      [] b[1] = 4 -> "socks4"
      [] valid_tls_version(b) -> "tls"
      [] Upper(b) = CON -> "connect"
      [] Upper(b) \in Methods \ {CON} -> "http"
      [] OTHER -> "origin"

\* The first read of a front end.
Entry(r) ==
    CASE r = "socks5" -> "greeting"
      [] r = "socks4" -> "ended"
      [] r = "tls" -> "record"
      [] r \in {"http", "connect"} -> "head"
      [] r = "origin" -> IF redirected THEN "pac" ELSE "ended"

Peek ==
    /\ pc = "peek" /\ (sent > 0 \/ closed)
    /\ seen' \in IF sent = 0 THEN {0} ELSE 1 .. 3
    /\ route' = RouteOf(peek_buf(seen')) /\ pc' = Entry(route')
    /\ UNCHANGED <<world, peer, got, answers, kept, relayed, choice, table, stream>>

-----------------------------------------------------------------------------
(* The front ends.                                                          *)

\* Mutant: the methods are accepted without a word.
AnswersAfter_NoMethods(part) == IF part = "addr" THEN answers + 1 ELSE answers

\* SOCKS5 answers the methods and the address, the second time with success
\* before relay_stream has tried anything.
AnswersAfter(part) == IF part \in {"methods", "addr"} THEN answers + 1 ELSE answers

\* handle_socks5: version and number of methods, the methods, the request, and
\* an address of the type it names.
AfterSocks(part) ==
    CASE part = "greeting" -> "methods"
      [] part = "methods" -> "request"
      [] part = "request" -> "addr"
      [] part = "addr" -> "pac"

\* handle_tls: peek_sni reads the record's header and the hello.
AfterTls(part) == IF part = "record" THEN "hello" ELSE "pac"
After(part) == IF route = "tls" THEN AfterTls(part) ELSE AfterSocks(part)

\* Mutant: the record is not given to the channel.
KeptAfter_HelloOnly(part) == IF part = "hello" THEN Append(kept, part) ELSE kept

\* peek_sni returns what it has read.
KeptAfter(part) == IF route = "tls" THEN Append(kept, part) ELSE kept

\* One read_exact of handle_socks5 or peek_sni, and what depends on it.
ReadExact ==
    /\ pc \in Exact /\ got < sent
    /\ got' = got + 1
    /\ IF bad = pc
       THEN pc' = "ended" /\ UNCHANGED <<answers, kept>>
       ELSE pc' = After(pc) /\ answers' = AnswersAfter(pc) /\ kept' = KeptAfter(pc)
    /\ UNCHANGED <<world, peer, seen, route, relayed, choice, table, stream>>

ReadExactEnds ==
    /\ pc \in Exact /\ closed /\ got = sent
    /\ pc' = "ended"
    /\ UNCHANGED <<world, peer, got, seen, route, answers, kept, relayed, choice, table, stream>>

HeadRead(n) == \E i \in 1 .. n : script[i] = "headend"

\* read_until_separator of handle_http and handle_https: any number of parts.
\* handle_http keeps all of it for HttpReader; handle_https answers and drops
\* what came behind the header.  The end of the connection is not noticed here.
ReadHead ==
    /\ pc = "head"
    /\ \E n \in got + 1 .. sent :
        /\ got' = n
        /\ IF ~HeadRead(n) THEN UNCHANGED <<pc, answers, kept>>
           ELSE IF bad = "headend" THEN pc' = "ended" /\ UNCHANGED <<answers, kept>>
           ELSE /\ pc' = "pac"
                /\ answers' = IF route = "connect" THEN answers + 1 ELSE answers
                /\ kept' = IF route = "http" THEN SubSeq(script, 1, n) ELSE <<>>
    /\ UNCHANGED <<world, peer, seen, route, relayed, choice, table, stream>>

-----------------------------------------------------------------------------
(* relay_stream.                                                            *)

\* Mutant: the first entry that matches is taken.
Usable_Any(c) == TRUE

\* An entry is taken when its channel is direct or has a session.
Usable(c) == c = "direct" \/ c \in sessions

\* One round of the loop over cfg.pac.  The table may change between rounds.
PickChannel ==
    /\ pc = "pac" /\ pos <= Len(pac)
    /\ pos' = pos + 1
    /\ IF ~pac[pos].match THEN UNCHANGED <<pc, channel>>
       ELSE /\ channel' = pac[pos].channel
            /\ pc' = IF Usable(pac[pos].channel) THEN "open" ELSE "pac"
    /\ UNCHANGED <<world, peer, got, seen, route, answers, kept, relayed, table, stream>>

\* The loop ends without a usable channel: the last match is tried.
LastMatch ==
    /\ pc = "pac" /\ pos > Len(pac)
    /\ pc' = IF channel = "none" THEN "ended" ELSE "open"
    /\ UNCHANGED <<world, peer, got, seen, route, answers, kept, relayed, choice, table, stream>>

\* A direct connection may fail, or take more than three seconds.
get_direct_stream == {"relay", "ended"}

\* get_channel_stream.  create_stream needs a session, which it may also skip when
\* the cursor wraps; it then waits for room for its SYN.
Open ==
    /\ pc = "open"
    /\ \/ /\ channel = "direct" /\ pc' \in get_direct_stream
          /\ UNCHANGED stream
       \/ /\ channel # "direct" /\ pc' = "ended" /\ UNCHANGED stuck
          /\ missed' = IF channel \in sessions THEN "wrap" ELSE "session"
       \/ /\ channel \in sessions /\ pc' = "syn"
          /\ stuck' \in BOOLEAN /\ UNCHANGED missed
    /\ UNCHANGED <<world, peer, got, seen, route, answers, kept, relayed, choice, table>>

\* ev_sender.send(ev).await, which has no timeout; its failure is ignored.
SendSyn ==
    /\ pc = "syn" /\ ~stuck /\ pc' = "relay"
    /\ UNCHANGED <<world, peer, got, seen, route, answers, kept, relayed, choice, table, stream>>

\* relay_buf, or what HttpReader has buffered, goes first, then the connection.  When
\* what HttpReader has buffered goes out is the matter of module HttpReader.
Copy ==
    /\ pc = "relay"
    /\ IF kept # <<>>
       THEN /\ relayed' = Append(relayed, Head(kept)) /\ kept' = Tail(kept)
            /\ UNCHANGED got
       ELSE /\ got < sent /\ got' = got + 1
            /\ relayed' = Append(relayed, script[got + 1])
            /\ UNCHANGED kept
    /\ UNCHANGED <<world, peer, seen, pc, route, answers, choice, table, stream>>

\* Either direction of the relay may end it.
RelayEnds ==
    /\ pc = "relay" /\ pc' = "done"
    /\ UNCHANGED <<world, peer, got, seen, route, answers, kept, relayed, choice, table, stream>>

FrontEnd == Peek \/ ReadExact \/ ReadExactEnds \/ ReadHead
RelayStream == PickChannel \/ LastMatch \/ Open \/ SendSyn \/ Copy
Next == Send \/ Close \/ SessionsChange \/ FrontEnd \/ RelayStream \/ RelayEnds

Spec == Init /\ [][Next]_vars

\* The coroutine runs on when it can, a direct connection is there or not after three
\* seconds, a session that is not stuck takes the SYN, and a client that neither
\* closes nor waits sends.
FairSpec == Spec /\ WF_vars(Send) /\ WF_vars(FrontEnd) /\ WF_vars(RelayStream)

-----------------------------------------------------------------------------
(* Properties.                                                              *)

\* The variables have their types; nothing is read that was not sent.
TypeOK ==
    /\ pc \in Exact \cup {"peek", "head", "pac", "open", "syn", "relay", "done", "ended"}
    /\ route \in DOMAIN Script \cup {"none", "origin"} /\ got <= sent
    /\ answers \in 0 .. 2 /\ channel \in Channels \cup {"direct", "none"}
    /\ sessions \subseteq Channels /\ {closed, lost, stuck} \subseteq BOOLEAN
    /\ seen \in 0 .. 3 /\ missed \in {"no", "session", "wrap"}

\* Where the parts for the target begin.
FirstPart == CASE route = "socks5" -> 5 [] route = "connect" -> 3 [] OTHER -> 1

\* What the target gets is what the client sent for it, from the first part on
\* and without a gap, although the front ends read ahead: the hello that was
\* read for its server name is passed on, the SOCKS requests are not.  The
\* exception is a CONNECT client that does not wait for the answer.
PayloadKept ==
    /\ TypeOK
    /\ \/ route = "connect" /\ eager
       \/ IsPrefix(relayed \o kept, SubSeq(script, FirstPart, Len(script)))

\* The bytes by which a protocol is known.
Needed ==
    [socks5 |-> 1, socks4 |-> 1, tls |-> 2, http |-> 3, connect |-> 3, other |-> 0]

\* A client whose protocol its first bytes do not tell: peek saw too little of it, or
\* it begins like none of the protocols and methods.
Unknown ==
    seen < Needed[kind] \/ kind = "other" \/ (kind = "http" /\ Upper(opening) \notin Methods)

\* A connection comes to the relay unless it is of SOCKS4, was not known by the bytes
\* peek saw and not redirected, sent a part that is refused, was closed by the client
\* within the handshake, or has no channel: no entry matches, there is no session, or
\* a direct connection fails.
TurnedDownHasCause ==
    pc = "ended" =>
        \/ kind = "socks4"
        \/ route = "origin" /\ Unknown /\ ~redirected
        \/ \E i \in 1 .. got : script[i] = bad
        \/ closed /\ got = sent
        \/ \A i \in DOMAIN pac : ~pac[i].match
        \/ missed # "no" \/ channel = "direct"

\* With an entry "direct" that matches, a connection fails for want of a session
\* only when the session ended between the look at the table and create_stream, or
\* when the cursor wrapped (FailsOnlyWithoutSession of ChannelSessions says when).
DirectIsReached ==
    missed # "no" /\ (\E i \in DOMAIN pac : pac[i].match /\ pac[i].channel = "direct") =>
        lost \/ missed = "wrap"

\* No two wait for each other: a client that speaks one of the protocols right
\* comes to the relay or is turned down, and one that gives up is noticed, except
\* in read_until_separator, which reads on for ever, and when create_stream waits
\* for room in the event queue of a stuck session.
HandshakeEnds ==
    <>(pc \in {"relay", "ended"} \/ (closed /\ pc = "head") \/ (pc = "syn" /\ stuck))
=============================================================================
