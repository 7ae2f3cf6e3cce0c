--------------------------- MODULE InboundProofs ---------------------------
(***************************************************************************)
(* Proofs about Inbound for every set of protocols, every pac table and    *)
(* any number of changes of the sessions: which parts reach the target,    *)
(* why a connection may be turned down before the relay, and why it may    *)
(* fail although "direct" was there.                                       *)
(***************************************************************************)
EXTENDS Inbound, TLAPS

-----------------------------------------------------------------------------
(* The inductive invariants.                                                *)

Parts == {"greeting", "methods", "request", "addr", "request4", "record", "hello",
          "line", "headend", "p1", "p2"}
Socks == {"greeting", "methods", "request", "addr"}
Relaying == {"pac", "open", "syn", "relay"}

\* The parts are those of the client's script, and the counts within it.
Counts ==
    /\ kind \in Kinds /\ eager \in BOOLEAN
    /\ sent \in 0 .. Len(script) /\ got \in 0 .. sent
    /\ kept \in Seq(Parts) /\ relayed \in Seq(Parts)
    /\ closed \in BOOLEAN /\ seen \in 0 .. 3 /\ opening \in Openings[kind]

\* A front end is the client's own, or the one for clients whose bytes tell nothing.
Routes ==
    /\ route \in {"none", "origin", kind} /\ (pc = "peek" <=> route = "none")
    /\ route = "origin" => Unknown

\* What a front end has read and answered when it is about to read pc.
Stages ==
    /\ pc \in Exact \cup {"peek", "head"} \cup Relaying \cup {"ended", "done"}
    /\ pc = "peek" => got = 0 /\ answers = 0 /\ kept = <<>>
    /\ pc \in Socks => route = "socks5" /\ kept = <<>>
    /\ pc = "greeting" => got = 0 /\ answers = 0
    /\ pc = "methods" => got = 1 /\ answers = 0
    /\ pc = "request" => got = 2 /\ answers = 1
    /\ pc = "addr" => got = 3 /\ answers = 1
    /\ pc = "record" => route = "tls" /\ got = 0 /\ answers = 0 /\ kept = <<>>
    /\ pc = "hello" => route = "tls" /\ got = 1 /\ answers = 0 /\ kept = <<"record">>
    /\ pc = "head" => route \in {"http", "connect"} /\ answers = 0 /\ kept = <<>>
    /\ answers \in 0 .. 2
    /\ pc \notin Relaying \cup {"ended", "done"} => relayed = <<>>

\* A CONNECT client that waits has sent its header and no more.
Waits == kind = "connect" /\ ~eager /\ answers = 0 => sent <= 2

\* relayed and then kept are the parts of the script from the first one for
\* the target on.
Follows ==
    /\ Len(relayed) + Len(kept) + FirstPart - 1 <= Len(script)
    /\ \A i \in 1 .. Len(relayed) : relayed[i] = script[FirstPart - 1 + i]
    /\ \A i \in 1 .. Len(kept) : kept[i] = script[FirstPart - 1 + Len(relayed) + i]

\* ... and while the relay is on they are all that was read.
Payload ==
    ~(route = "connect" /\ eager) =>
        /\ Follows
        /\ pc \in Relaying => Len(relayed) + Len(kept) + FirstPart - 1 = got

FrontInv == Counts /\ Routes /\ Stages /\ Waits /\ Payload

Entries == [match : BOOLEAN, channel : Channels \cup {"direct"}]

\* An entry "direct" that matches.
DirectMatch == \E i \in DOMAIN pac : pac[i].match /\ pac[i].channel = "direct"

\* The loop over the pac entries has ended.
Opened == {"open", "syn", "relay", "ended", "done"}

\* The loop over the pac entries does not pass a direct one, and a channel it
\* picks has a session, or had one.
ChannelInv ==
    /\ pac \in Seq(Entries)
    /\ pos \in Nat \ {0} /\ channel \in Channels \cup {"direct", "none"}
    /\ sessions \subseteq Channels /\ lost \in BOOLEAN
    /\ missed \in {"no", "session", "wrap"} /\ stuck \in BOOLEAN
    /\ channel = "none" => \A i \in DOMAIN pac : i < pos => ~pac[i].match
    /\ pc \notin Opened =>
          \A i \in DOMAIN pac : i < pos => ~(pac[i].match /\ pac[i].channel = "direct")
    /\ pc = "open" => channel = "direct" \/ channel \in sessions \/ lost \/ ~DirectMatch
    /\ missed # "no" => lost \/ ~DirectMatch \/ missed = "wrap"

\* What the proofs use of the scripts: they are sequences, long enough for the
\* first part for the target, and begin as their front ends expect.
LEMMA ScriptFacts ==
  /\ DOMAIN Script = {"socks5", "socks4", "tls", "http", "connect", "other"}
  /\ \A k \in DOMAIN Script : Script[k] \in Seq(Parts) /\ Len(Script[k]) \in Nat
  /\ Len(Script["socks5"]) = 6 /\ Len(Script["tls"]) = 3 /\ Len(Script["connect"]) = 4
  /\ Script["tls"][1] = "record" /\ Script["tls"][2] = "hello"
  /\ Script["socks5"][1] = "greeting" /\ Script["socks5"][2] = "methods"
  /\ Script["socks5"][3] = "request" /\ Script["socks5"][4] = "addr"
  /\ Script["connect"][1] # "headend" /\ Script["connect"][2] = "headend"
  /\ Script["connect"][3] = "p1"
  <1>1. /\ <<"greeting", "methods", "request", "addr", "p1", "p2">> \in Seq(Parts)
        /\ <<"request4", "p1">> \in Seq(Parts) /\ <<"record", "hello", "p1">> \in Seq(Parts)
        /\ <<"line", "headend", "p1">> \in Seq(Parts)
        /\ <<"line", "headend", "p1", "p2">> \in Seq(Parts) /\ <<"p1", "p2">> \in Seq(Parts)
    BY DEF Parts
  <1>2. DOMAIN Script = {"socks5", "socks4", "tls", "http", "connect", "other"}
    BY DEF Script
  <1>3. /\ Script["socks5"] = <<"greeting", "methods", "request", "addr", "p1", "p2">>
        /\ Script["socks4"] = <<"request4", "p1">>
        /\ Script["tls"] = <<"record", "hello", "p1">>
        /\ Script["http"] = <<"line", "headend", "p1">>
        /\ Script["connect"] = <<"line", "headend", "p1", "p2">>
        /\ Script["other"] = <<"p1", "p2">>
    BY DEF Script
  <1>4. \A k \in DOMAIN Script : Script[k] \in Seq(Parts)
    BY <1>1, <1>2, <1>3
  <1>5. \A k \in DOMAIN Script : Len(Script[k]) \in Nat
    BY <1>4
  <1>6. /\ Len(Script["socks5"]) = 6 /\ Len(Script["tls"]) = 3 /\ Len(Script["connect"]) = 4
        /\ Script["tls"][1] = "record" /\ Script["tls"][2] = "hello"
        /\ Script["socks5"][1] = "greeting" /\ Script["socks5"][2] = "methods"
        /\ Script["socks5"][3] = "request" /\ Script["socks5"][4] = "addr"
        /\ Script["connect"][1] # "headend" /\ Script["connect"][2] = "headend"
        /\ Script["connect"][3] = "p1"
    BY <1>3
  <1> QED BY <1>2, <1>4, <1>5, <1>6

\* The script of the client at hand.
LEMMA ScriptOfClient ==
  ASSUME kind \in Kinds
  PROVE  /\ kind \in {"socks5", "socks4", "tls", "http", "connect", "other"}
         /\ script \in Seq(Parts) /\ Len(script) \in Nat
         /\ kind = "socks5" => /\ Len(script) = 6 /\ script[1] = "greeting"
                               /\ script[2] = "methods" /\ script[3] = "request"
                               /\ script[4] = "addr"
         /\ kind = "tls" => Len(script) = 3 /\ script[1] = "record" /\ script[2] = "hello"
         /\ kind = "connect" => /\ Len(script) = 4 /\ script[1] # "headend"
                                /\ script[2] = "headend" /\ script[3] = "p1"
  BY ScriptFacts, InboundAssumption DEF script

-----------------------------------------------------------------------------
(* The front ends.                                                          *)

\* At the start nothing was sent, read or answered.
LEMMA FrontInit == Init => FrontInv
  <1> SUFFICES ASSUME Init PROVE FrontInv
    OBVIOUS
  <1>1. kind \in Kinds /\ script \in Seq(Parts) /\ Len(script) \in Nat
    BY ScriptOfClient DEF Init
  <1>2. <<>> \in Seq(Parts) /\ Len(<<>>) = 0
    OBVIOUS
  <1>3. Counts
    <2>1. sent = 0 /\ got = 0 /\ kept = <<>> /\ relayed = <<>>
      BY DEF Init
    <2>2. sent \in 0 .. Len(script) /\ got \in 0 .. sent
      BY <1>1, <2>1
    <2>3. eager \in BOOLEAN /\ closed \in BOOLEAN /\ opening \in Openings[kind]
      BY DEF Init
    <2>4. seen = 0 /\ 0 \in 0 .. 3
      BY DEF Init
    <2> QED BY <1>1, <1>2, <2>1, <2>2, <2>3, <2>4 DEF Counts
  <1>4. Routes /\ Stages /\ Waits
    BY DEF Init, Routes, Stages, Waits, Relaying, Socks, Exact
  <1>5. Payload
    <2>1. FirstPart = 1 /\ pc \notin Relaying
      BY DEF Init, FirstPart, Relaying
    <2> QED BY <1>1, <1>2, <2>1 DEF Init, Payload, Follows
  <1> QED BY <1>3, <1>4, <1>5 DEF FrontInv

\* Only a kind that has a handshake puts the first part for the target later.
LEMMA FirstPartFacts ==
  /\ FirstPart \in {1, 3, 5}
  /\ route = "socks5" => FirstPart = 5
  /\ route = "connect" => FirstPart = 3
  /\ route \notin {"socks5", "connect"} => FirstPart = 1
  BY DEF FirstPart

\* Bytes that were not there are 0, and so neither a letter nor a version.
LEMMA PeekedBytes ==
  ASSUME kind \in Kinds, opening \in Openings[kind], NEW n \in 0 .. 3
  PROVE  /\ \A i \in 1 .. 3 : peek_buf(n)[i] = IF i <= n THEN opening[i] ELSE 0
         /\ \A i \in 1 .. 3 : opening[i] \in 0 .. 255
         /\ n = 3 => Upper(peek_buf(n)) = Upper(opening)
         /\ n < 3 => Upper(peek_buf(n)) \notin Methods
  <1>1. opening \in [1 .. 3 -> 0 .. 255]
    BY InboundAssumption, OpeningsAssumption
  <1>2. \A i \in 1 .. 3 : peek_buf(n)[i] = IF i <= n THEN opening[i] ELSE 0
    BY DEF peek_buf
  <1>3. ASSUME n = 3 PROVE Upper(peek_buf(n)) = Upper(opening)
    <2>1. \A i \in 1 .. 3 : peek_buf(n)[i] = opening[i]
      BY <1>2, <1>3
    <2> QED BY <2>1 DEF Upper
  <1>4. ASSUME n < 3 PROVE Upper(peek_buf(n)) \notin Methods
    <2>1. peek_buf(n)[3] = 0
      BY <1>2, <1>4
    <2>2. Upper(peek_buf(n))[3] = 0
      BY <2>1 DEF Upper
    <2>3. \A m \in Methods : m[3] # 0
      BY DEF Methods, CON
    <2> QED BY <2>2, <2>3
  <1> QED BY <1>1, <1>2, <1>3, <1>4

\* The bytes of a method are letters.
LEMMA MethodBytes ==
  ASSUME NEW b \in [1 .. 3 -> 0 .. 255], Upper(b) \in Methods
  PROVE  b[1] \notin {0, 4, 5, 22}
  <1>1. \A m \in Methods : m[1] \in 65 .. 90
    BY DEF Methods, CON
  <1>2. Upper(b)[1] = IF b[1] \in 97 .. 122 THEN b[1] - 32 ELSE b[1]
    BY DEF Upper
  <1>3. b[1] \in 0 .. 255
    OBVIOUS
  <1> QED BY <1>1, <1>2, <1>3

\* A client is sent to its own front end, or to the one for the rest if its bytes do
\* not tell what it is.
LEMMA RouteFacts ==
  ASSUME kind \in Kinds, opening \in Openings[kind], NEW n \in 0 .. 3
  PROVE  /\ RouteOf(peek_buf(n)) \in {"origin", kind}
         /\ RouteOf(peek_buf(n)) = "origin" /\ kind # "other" =>
               n < Needed[kind] \/ (kind = "http" /\ Upper(opening) \notin Methods)
  <1> DEFINE b == peek_buf(n)
  <1>1. kind \in {"socks5", "socks4", "tls", "http", "connect", "other"}
    BY ScriptOfClient
  <1>2. /\ Needed["socks5"] = 1 /\ Needed["socks4"] = 1 /\ Needed["tls"] = 2
        /\ Needed["http"] = 3 /\ Needed["connect"] = 3
    BY DEF Needed
  <1>3. /\ b[1] = (IF 1 <= n THEN opening[1] ELSE 0) /\ b[2] = (IF 2 <= n THEN opening[2] ELSE 0)
        /\ opening[1] \in 0 .. 255 /\ opening[2] \in 0 .. 255
        /\ n = 3 => Upper(b) = Upper(opening)
        /\ n < 3 => Upper(b) \notin Methods
    BY PeekedBytes
  <1>4. opening \in [1 .. 3 -> 0 .. 255] /\ CON \in Methods
    BY InboundAssumption, OpeningsAssumption DEF Methods
  <1>5. Upper(opening) \in Methods => opening[1] \notin {0, 4, 5, 22}
    BY <1>4, MethodBytes
  <1> HIDE DEF b
  <1>6. CASE kind = "socks5"
    <2>1. opening[1] = 5
      BY <1>6, OpeningsAssumption
    <2>2. Upper(b) \notin Methods
      BY <1>3, <1>5, <2>1
    <2>3. CASE n >= 1
      <3>1. b[1] = 5
        BY <1>3, <2>1, <2>3
      <3> QED BY <1>4, <1>6, <2>2, <3>1 DEF RouteOf, valid_tls_version, b
    <2>4. CASE n = 0
      <3>1. b[1] = 0
        BY <1>3, <2>4
      <3> QED BY <1>2, <1>4, <1>6, <2>2, <2>4, <3>1 DEF RouteOf, valid_tls_version, b
    <2> QED BY <2>3, <2>4
  <1>7. CASE kind = "socks4"
    <2>1. opening[1] = 4
      BY <1>7, OpeningsAssumption
    <2>2. Upper(b) \notin Methods
      BY <1>3, <1>5, <2>1
    <2>3. CASE n >= 1
      <3>1. b[1] = 4
        BY <1>3, <2>1, <2>3
      <3> QED BY <1>4, <1>7, <2>2, <3>1 DEF RouteOf, valid_tls_version, b
    <2>4. CASE n = 0
      <3>1. b[1] = 0
        BY <1>3, <2>4
      <3> QED BY <1>2, <1>4, <1>7, <2>2, <2>4, <3>1 DEF RouteOf, valid_tls_version, b
    <2> QED BY <2>3, <2>4
  <1>8. CASE kind = "tls"
    <2>1. opening[1] = 22 /\ opening[2] >= 3
      BY <1>8, OpeningsAssumption
    <2>2. Upper(b) \notin Methods
      BY <1>3, <1>5, <2>1
    <2>3. CASE n >= 2
      <3>1. b[1] = 22 /\ b[2] >= 3
        BY <1>3, <2>1, <2>3
      <3> QED BY <1>4, <1>8, <2>2, <3>1 DEF RouteOf, valid_tls_version, b
    <2>4. CASE n < 2
      <3>1. b[1] \in {0, 22} /\ b[2] = 0
        BY <1>3, <2>1, <2>4
      <3> QED BY <1>2, <1>4, <1>8, <2>2, <2>4, <3>1 DEF RouteOf, valid_tls_version, b
    <2> QED BY <2>3, <2>4
  <1>9. CASE kind \in {"http", "connect"}
    <2>1. /\ opening[1] \notin {4, 5, 22}
          /\ kind = "http" => Upper(opening) # CON
          /\ kind = "connect" => Upper(opening) = CON
      <3>1. CASE kind = "http"
        <4>1. opening \in [1 .. 3 -> Letters] /\ Upper(opening) # CON
          BY <3>1, OpeningsAssumption
        <4>2. opening[1] \in Letters
          BY <4>1
        <4> QED BY <3>1, <4>1, <4>2 DEF Letters
      <3>2. CASE kind = "connect"
        <4>1. Upper(opening) = CON
          BY <3>2, OpeningsAssumption
        <4> QED BY <1>4, <1>5, <3>2, <4>1
      <3> QED BY <1>9, <3>1, <3>2
    <2>2. b[1] \notin {4, 5, 22}
      BY <1>3, <2>1
    <2>3. CASE n = 3
      <3>1. Upper(b) = Upper(opening)
        BY <1>3, <2>3
      <3> QED BY <1>4, <1>9, <2>1, <2>2, <3>1 DEF RouteOf, valid_tls_version, b
    <2>4. CASE n < 3
      <3>1. Upper(b) \notin Methods
        BY <1>3, <2>4
      <3> QED BY <1>2, <1>4, <1>9, <2>2, <2>4, <3>1 DEF RouteOf, valid_tls_version, b
    <2> QED BY <2>3, <2>4
  <1>10. CASE kind = "other"
    <2>1. opening[1] \notin {4, 5} /\ (opening[1] = 22 => opening[2] < 3) /\ Upper(opening) \notin Methods
      BY <1>10, OpeningsAssumption
    <2>2. b[1] \notin {4, 5} /\ (b[1] = 22 => ~(b[2] >= 3))
      BY <1>3, <2>1
    <2>3. Upper(b) \notin Methods
      BY <1>3, <2>1
    <2> QED BY <1>4, <1>10, <2>2, <2>3 DEF RouteOf, valid_tls_version, b
  <1> QED BY <1>1, <1>6, <1>7, <1>8, <1>9, <1>10

\* handle_inbound picks a front end.
LEMMA PeekFront ==
  ASSUME FrontInv, Peek
  PROVE  FrontInv'
  <1>1. kind \in {"socks5", "socks4", "tls", "http", "connect", "other"}
        /\ Len(script) \in Nat /\ (kind = "socks5" => Len(script) = 6)
        /\ (kind = "connect" => Len(script) = 4)
    BY ScriptOfClient DEF FrontInv, Counts
  <1>2. /\ pc = "peek" /\ (sent > 0 \/ closed) /\ seen' \in 0 .. 3
        /\ route' = RouteOf(peek_buf(seen')) /\ pc' = Entry(route')
        /\ UNCHANGED <<kind, opening, bad, eager, redirected, pac, sent, closed, got, answers, kept, relayed>>
    BY DEF Peek, world, peer
  <1>3. got = 0 /\ answers = 0 /\ kept = <<>> /\ relayed = <<>> /\ route = "none"
    BY <1>2 DEF FrontInv, Stages, Routes, Relaying
  <1>4. script' = script
    BY <1>2 DEF script
  <1>5. Counts' /\ Waits'
    BY <1>2, <1>4 DEF FrontInv, Counts, Waits
  <1>6. /\ route' \in {"origin", kind}
        /\ route' = "origin" /\ kind # "other" =>
              seen' < Needed[kind] \/ (kind = "http" /\ Upper(opening) \notin Methods)
    BY <1>2, RouteFacts DEF FrontInv, Counts
  <1>7. /\ pc' \in {"greeting", "record", "head", "pac", "ended"}
        /\ pc' = "greeting" => route' = "socks5"
        /\ pc' = "record" => route' = "tls"
        /\ pc' = "head" => route' \in {"http", "connect"}
        /\ pc' = "pac" => route' = "origin"
    <2>1. route' \in {"socks5", "socks4", "tls", "http", "connect", "origin"}
      BY <1>2 DEF RouteOf
    <2> QED BY <1>2, <2>1 DEF Entry
  <1>8. Stages'
    BY <1>2, <1>3, <1>7 DEF Stages, Relaying, Socks, Exact
  <1>9. Payload'
    <2>1. FirstPart' \in {1, 3, 5} /\ (route' = "origin" => FirstPart' = 1)
          /\ (route' = "socks5" \/ FirstPart' # 5) /\ (route' = "connect" \/ FirstPart' # 3)
      BY DEF FirstPart
    <2>2. route' \in {"origin", kind}
      BY <1>6
    <2>3. FirstPart' - 1 <= Len(script)
      <3>1. CASE FirstPart' = 1
        BY <1>1, <3>1
      <3>2. CASE FirstPart' = 3
        <4>1. Len(script) = 4
          BY <1>1, <2>1, <2>2, <3>2
        <4> QED BY <3>2, <4>1
      <3>3. CASE FirstPart' = 5
        <4>1. Len(script) = 6
          BY <1>1, <2>1, <2>2, <3>3
        <4> QED BY <3>3, <4>1
      <3> QED BY <2>1, <3>1, <3>2, <3>3
    <2>4. Len(<<>>) = 0 /\ kept' = <<>> /\ relayed' = <<>> /\ got' = 0
      BY <1>2, <1>3
    <2>5. Follows'
      BY <1>4, <2>1, <2>3, <2>4 DEF Follows
    <2>6. pc' \in Relaying => Len(relayed') + Len(kept') + FirstPart' - 1 = got'
      <3>1. pc' \in Relaying => FirstPart' = 1
        BY <1>7, <2>1 DEF Relaying
      <3>2. Len(relayed') = 0 /\ Len(kept') = 0
        BY <2>4
      <3> QED BY <2>4, <3>1, <3>2
    <2> QED BY <2>5, <2>6 DEF Payload
  <1>10. Routes'
    BY <1>1, <1>2, <1>6, <1>7 DEF Routes, Unknown
  <1> QED BY <1>5, <1>8, <1>9, <1>10 DEF FrontInv

\* What peek saw is not forgotten.
LEMMA UnknownKept ==
  ASSUME UNCHANGED <<kind, opening, seen>>
  PROVE  Unknown' = Unknown
  BY DEF Unknown

\* One read_exact: the stage it is at says what is kept and answered.
LEMMA ReadExactFront ==
  ASSUME FrontInv, ReadExact
  PROVE  FrontInv'
  <1>1. /\ kind \in {"socks5", "socks4", "tls", "http", "connect", "other"}
        /\ Len(script) \in Nat /\ (kind = "socks5" => Len(script) = 6)
        /\ (kind = "tls" => Len(script) = 3 /\ script[1] = "record" /\ script[2] = "hello")
    BY ScriptOfClient DEF FrontInv, Counts
  <1>2. /\ pc \in Exact /\ got < sent /\ got' = got + 1
        /\ \/ pc' = "ended" /\ UNCHANGED <<answers, kept>>
           \/ pc' = After(pc) /\ answers' = AnswersAfter(pc) /\ kept' = KeptAfter(pc)
        /\ UNCHANGED <<kind, opening, bad, eager, redirected, pac, sent, closed, seen, route, relayed>>
    BY DEF ReadExact, world, peer
  <1>3. script' = script /\ FirstPart' = FirstPart /\ relayed = <<>> /\ route = kind
        /\ route \in {"socks5", "tls"}
    BY <1>2 DEF script, FirstPart, FrontInv, Stages, Routes, Relaying, Exact, Socks
  <1>4. kept \in Seq(Parts) /\ kept' \in Seq(Parts) /\ got \in Nat /\ sent \in 0 .. Len(script)
    <2>1. kept \in Seq(Parts) /\ got \in Nat /\ sent \in 0 .. Len(script)
      BY DEF FrontInv, Counts
    <2>2. pc \in Parts
      BY <1>2 DEF Exact, Parts
    <2>3. KeptAfter(pc) \in Seq(Parts)
      BY <2>1, <2>2 DEF KeptAfter
    <2> QED BY <1>2, <2>1, <2>3
  <1>5. Counts'
    BY <1>1, <1>2, <1>3, <1>4 DEF FrontInv, Counts
  <1>6. pc' # "peek" /\ Routes'
    <2>1. pc' # "peek"
      BY <1>2 DEF After, AfterTls, AfterSocks, FrontInv, Stages, Exact
    <2> QED BY <1>2, <2>1, UnknownKept DEF FrontInv, Routes, Exact
  <1>7. Waits'
    BY <1>2, <1>3 DEF Waits
  <1>8. CASE route = "socks5"
    <2>1. kept' = <<>>
      BY <1>2, <1>8 DEF KeptAfter, FrontInv, Stages, Socks, Exact
    <2>2. Stages'
      BY <1>2, <1>3, <1>8, <2>1
         DEF FrontInv, Stages, After, AfterSocks, AnswersAfter, Exact, Socks, Relaying
    <2>3. pc' \in Relaying => got' = 4
      BY <1>2, <1>8 DEF FrontInv, Stages, After, AfterSocks, Exact, Socks, Relaying
    <2>4. Payload'
      <3>1. Len(<<>>) = 0 /\ FirstPart = 5 /\ Len(script) = 6
        BY <1>1, <1>3, <1>8 DEF FirstPart
      <3> QED BY <1>2, <1>3, <2>1, <2>3, <3>1 DEF Payload, Follows
    <2> QED BY <1>5, <1>6, <1>7, <2>2, <2>4 DEF FrontInv
  <1>9. CASE route = "tls"
    <2>1. \/ pc = "record" /\ got = 0 /\ kept = <<>>
          \/ pc = "hello" /\ got = 1 /\ kept = <<"record">>
      BY <1>2, <1>9 DEF FrontInv, Stages, Exact, Socks
    <2>2. /\ answers' = 0
          /\ \/ pc' = "hello" /\ pc = "record" /\ got' = 1 /\ kept' = <<"record">>
             \/ pc' = "pac" /\ pc = "hello" /\ got' = 2 /\ kept' = Append(<<"record">>, "hello")
             \/ pc' = "ended" /\ (kept' = <<>> \/ kept' = <<"record">>)
      <3>1. \A x : Append(<<>>, x) = <<x>>
        OBVIOUS
      <3>2. Append(<<>>, "record") = <<"record">>
        BY <3>1
      <3>3. answers = 0
        BY <2>1 DEF FrontInv, Stages
      <3>4. CASE pc' = "ended" /\ UNCHANGED <<answers, kept>>
        BY <2>1, <3>3, <3>4
      <3>5. CASE pc' = After(pc) /\ answers' = AnswersAfter(pc) /\ kept' = KeptAfter(pc)
        <4>1. CASE pc = "record" /\ got = 0 /\ kept = <<>>
          BY <1>2, <1>9, <3>2, <3>3, <3>5, <4>1 DEF After, AfterTls, AnswersAfter, KeptAfter
        <4>2. CASE pc = "hello" /\ got = 1 /\ kept = <<"record">>
          BY <1>2, <1>9, <3>2, <3>3, <3>5, <4>2 DEF After, AfterTls, AnswersAfter, KeptAfter
        <4> QED BY <2>1, <4>1, <4>2
      <3> QED BY <1>2, <3>4, <3>5
    <2>3. Stages'
      BY <1>2, <1>3, <1>9, <2>2 DEF Stages, Exact, Socks, Relaying
    <2>4. Payload'
      <3> DEFINE both == Append(<<"record">>, "hello")
      <3>1. /\ Len(<<>>) = 0 /\ Len(<<"record">>) = 1 /\ <<"record">>[1] = "record"
            /\ Len(both) = 2 /\ both[1] = "record" /\ both[2] = "hello"
        OBVIOUS
      <3> HIDE DEF both
      <3>2. FirstPart = 1 /\ Len(script) = 3 /\ script[1] = "record" /\ script[2] = "hello"
        BY <1>1, <1>3, <1>9 DEF FirstPart
      <3>3. Follows'
        <4>1. relayed' = <<>> /\ script' = script /\ FirstPart' = 1
          BY <1>2, <1>3, <3>2
        <4>2. CASE kept' = <<>>
          BY <3>1, <3>2, <4>1, <4>2 DEF Follows
        <4>3. CASE kept' = <<"record">>
          BY <3>1, <3>2, <4>1, <4>3 DEF Follows
        <4>4. CASE kept' = both
          <5>1. Len(relayed') = 0 /\ Len(kept') = 2 /\ kept'[1] = script[1] /\ kept'[2] = script[2]
            BY <3>1, <3>2, <4>1, <4>4
          <5>2. \A i \in 1 .. 2 : i = 1 \/ i = 2
            OBVIOUS
          <5>3. \A i \in 1 .. Len(kept') : kept'[i] = script[1 - 1 + 0 + i]
            BY <5>1, <5>2
          <5> QED BY <3>2, <4>1, <5>1, <5>3 DEF Follows
        <4> QED BY <2>2, <4>2, <4>3, <4>4 DEF both
      <3>4. pc' \in Relaying => Len(relayed') + Len(kept') + FirstPart' - 1 = got'
        <4>1. SUFFICES ASSUME pc' \in Relaying
                       PROVE  Len(relayed') + Len(kept') + FirstPart' - 1 = got'
          OBVIOUS
        <4>2. kept' = both /\ got' = 2
          BY <2>2, <4>1 DEF Relaying, both
        <4>3. Len(relayed') = 0 /\ Len(kept') = 2 /\ FirstPart' = 1
          BY <1>2, <1>3, <3>1, <3>2, <4>2
        <4> QED BY <4>2, <4>3
      <3> QED BY <3>3, <3>4 DEF Payload
    <2> QED BY <1>5, <1>6, <1>7, <2>3, <2>4 DEF FrontInv
  <1> QED BY <1>3, <1>8, <1>9

\* read_until_separator: a client that waits has nothing behind its header.
LEMMA ReadHeadFront ==
  ASSUME FrontInv, ReadHead
  PROVE  FrontInv'
  <1>1. /\ kind \in {"socks5", "socks4", "tls", "http", "connect", "other"}
        /\ script \in Seq(Parts) /\ Len(script) \in Nat
        /\ (kind = "connect" => Len(script) = 4 /\ script[1] # "headend")
    BY ScriptOfClient DEF FrontInv, Counts
  <1>2. PICK n \in got + 1 .. sent :
          /\ got' = n
          /\ \/ UNCHANGED <<pc, answers, kept>>
             \/ pc' = "ended" /\ UNCHANGED <<answers, kept>>
             \/ /\ HeadRead(n) /\ pc' = "pac"
                /\ answers' = IF route = "connect" THEN answers + 1 ELSE answers
                /\ kept' = IF route = "http" THEN SubSeq(script, 1, n) ELSE <<>>
    BY DEF ReadHead
  <1>3. /\ pc = "head" /\ relayed = <<>> /\ kept = <<>> /\ answers = 0
        /\ route \in {"http", "connect"} /\ route = kind
        /\ UNCHANGED <<kind, opening, bad, eager, redirected, pac, sent, closed, seen, route, relayed>>
    BY DEF ReadHead, world, peer, FrontInv, Stages, Routes, Relaying
  <1>4. script' = script /\ FirstPart' = FirstPart /\ n \in 1 .. sent /\ sent \in 0 .. Len(script)
    BY <1>1, <1>2, <1>3 DEF script, FirstPart, FrontInv, Counts
  <1>5. /\ SubSeq(script, 1, n) \in Seq(Parts) /\ Len(SubSeq(script, 1, n)) = n
        /\ \A j \in 1 .. n : SubSeq(script, 1, n)[j] = script[j]
    BY <1>1, <1>4
  <1>6. <<>> \in Seq(Parts) /\ Len(<<>>) = 0
    OBVIOUS
  <1>7. Counts'
    <2>1. kept' \in Seq(Parts)
      BY <1>2, <1>3, <1>5, <1>6
    <2> QED BY <1>1, <1>2, <1>3, <1>4, <2>1 DEF FrontInv, Counts
  <1>8. Routes' /\ Stages'
    BY <1>2, <1>3 DEF FrontInv, Routes, Stages, Relaying, Socks, Exact
  <1>9. Waits'
    BY <1>2, <1>3 DEF FrontInv, Waits
  <1>10. Payload'
    <2>1. CASE route = "http"
      <3>1. FirstPart = 1
        BY <2>1 DEF FirstPart
      <3>2. CASE kept' = <<>> /\ pc' \notin Relaying
        BY <1>1, <1>3, <1>4, <1>6, <3>1, <3>2 DEF Payload, Follows
      <3>3. CASE kept' = SubSeq(script, 1, n) /\ pc' = "pac"
        <4>1. Len(relayed') = 0 /\ Len(kept') = n /\ \A j \in 1 .. n : kept'[j] = script[j]
          BY <1>3, <1>5, <1>6, <3>3
        <4>2. Follows'
          BY <1>1, <1>4, <3>1, <4>1 DEF Follows
        <4> QED BY <1>2, <1>4, <3>1, <4>1, <4>2 DEF Payload
      <3> QED BY <1>2, <1>3, <2>1, <3>2, <3>3 DEF Relaying
    <2>2. CASE route = "connect"
      <3>1. FirstPart = 3 /\ Len(script) = 4 /\ kept' = <<>> /\ relayed' = <<>>
        BY <1>1, <1>2, <1>3, <2>2 DEF FirstPart
      <3>2. Follows'
        BY <1>4, <1>6, <3>1 DEF Follows
      <3>3. ASSUME ~eager, pc' \in Relaying PROVE got' = 2
        <4>1. sent <= 2
          BY <1>3, <2>2, <3>3 DEF FrontInv, Waits
        <4>2. HeadRead(n) /\ got' = n
          BY <1>2, <1>3, <3>3 DEF Relaying
        <4>3. n # 1
          BY <1>1, <1>3, <2>2, <4>2 DEF HeadRead
        <4> QED BY <1>4, <4>1, <4>2, <4>3
      <3> QED BY <1>3, <1>4, <1>6, <2>2, <3>1, <3>2, <3>3 DEF Payload
    <2> QED BY <1>3, <2>1, <2>2
  <1> QED BY <1>7, <1>8, <1>9, <1>10 DEF FrontInv

\* The relay: what is kept goes first, then the connection is read on.
LEMMA CopyFront ==
  ASSUME FrontInv, Copy
  PROVE  FrontInv'
  <1>1. script \in Seq(Parts) /\ Len(script) \in Nat
    BY ScriptOfClient DEF FrontInv, Counts
  <1>2. /\ pc = "relay" /\ kept \in Seq(Parts) /\ relayed \in Seq(Parts)
        /\ sent \in 0 .. Len(script) /\ got \in 0 .. sent
        /\ UNCHANGED <<kind, opening, bad, eager, redirected, pac, sent, closed, seen, pc, route, answers>>
    BY DEF Copy, world, peer, FrontInv, Counts
  <1>3. script' = script /\ FirstPart' = FirstPart /\ FirstPart \in {1, 3, 5}
    BY <1>2, FirstPartFacts DEF script, FirstPart
  <1>4. Routes' /\ Stages' /\ Waits'
    BY <1>2, UnknownKept DEF FrontInv, Routes, Stages, Waits, Relaying, Socks, Exact
  <1>5. CASE kept # <<>>
    <2> DEFINE h == Head(kept)
    <2>1. relayed' = Append(relayed, h) /\ kept' = Tail(kept) /\ got' = got
      BY <1>5 DEF Copy
    <2>2. /\ h \in Parts /\ h = kept[1] /\ Tail(kept) \in Seq(Parts) /\ Len(kept) \in Nat /\ 1 <= Len(kept)
          /\ Len(Tail(kept)) = Len(kept) - 1
          /\ \A i \in 1 .. Len(Tail(kept)) : Tail(kept)[i] = kept[i + 1]
      BY <1>2, <1>5
    <2>3. /\ relayed' \in Seq(Parts) /\ Len(relayed) \in Nat /\ Len(relayed') = Len(relayed) + 1
          /\ \A i \in 1 .. Len(relayed) : relayed'[i] = relayed[i]
          /\ relayed'[Len(relayed) + 1] = h
      BY <1>2, <2>1, <2>2
    <2>4. Counts'
      BY <1>2, <1>3, <2>1, <2>2, <2>3 DEF FrontInv, Counts
    <2>5. ASSUME ~(route = "connect" /\ eager)
          PROVE  Follows' /\ Len(relayed') + Len(kept') + FirstPart' - 1 = got'
      <3>1. Follows /\ Len(relayed) + Len(kept) + FirstPart - 1 = got
        BY <1>2, <2>5 DEF FrontInv, Payload, Relaying
      <3>2. Len(relayed') + Len(kept') = Len(relayed) + Len(kept)
        BY <2>1, <2>2, <2>3
      <3>3. \A i \in 1 .. Len(relayed') : relayed'[i] = script[FirstPart - 1 + i]
        <4>1. ASSUME NEW i \in 1 .. Len(relayed')
              PROVE  relayed'[i] = script[FirstPart - 1 + i]
          <5>1. CASE i \in 1 .. Len(relayed)
            BY <2>3, <3>1, <5>1 DEF Follows
          <5>2. CASE i = Len(relayed) + 1
            <6>1. 1 \in 1 .. Len(kept)
              BY <2>2
            <6>2. kept[1] = script[FirstPart - 1 + Len(relayed) + 1]
              BY <3>1, <6>1 DEF Follows
            <6>3. FirstPart - 1 + Len(relayed) + 1 = FirstPart - 1 + (Len(relayed) + 1)
              BY <1>3, <2>3
            <6> QED BY <2>2, <2>3, <5>2, <6>2, <6>3
          <5> QED BY <2>3, <5>1, <5>2
        <4> QED BY <4>1
      <3>4. \A i \in 1 .. Len(kept') : kept'[i] = script[FirstPart - 1 + Len(relayed') + i]
        <4>1. ASSUME NEW i \in 1 .. Len(Tail(kept))
              PROVE  Tail(kept)[i] = script[FirstPart - 1 + Len(relayed') + i]
          <5>1. i + 1 \in 1 .. Len(kept) /\ Tail(kept)[i] = kept[i + 1]
            BY <2>2
          <5>2. kept[i + 1] = script[FirstPart - 1 + Len(relayed) + (i + 1)]
            BY <3>1, <5>1 DEF Follows
          <5>3. FirstPart - 1 + Len(relayed) + (i + 1) = FirstPart - 1 + Len(relayed') + i
            BY <1>3, <2>3
          <5> QED BY <5>1, <5>2, <5>3
        <4> QED BY <2>1, <4>1
      <3>5. Len(relayed') + Len(kept') + FirstPart - 1 = got'
        BY <2>1, <3>1, <3>2
      <3>6. Len(relayed') + Len(kept') + FirstPart - 1 <= Len(script)
        BY <3>1, <3>2 DEF Follows
      <3> QED BY <1>3, <3>3, <3>4, <3>5, <3>6 DEF Follows
    <2>6. Payload'
      BY <1>2, <2>5 DEF Payload
    <2> QED BY <1>4, <2>4, <2>6 DEF FrontInv
  <1>6. CASE kept = <<>>
    <2>1. /\ got < sent /\ got' = got + 1 /\ relayed' = Append(relayed, script[got + 1]) /\ kept' = kept
      BY <1>6 DEF Copy
    <2>2. got \in Nat /\ got + 1 \in 1 .. Len(script) /\ script[got + 1] \in Parts /\ Len(kept) = 0
      BY <1>1, <1>2, <1>6, <2>1
    <2>3. /\ relayed' \in Seq(Parts) /\ Len(relayed) \in Nat /\ Len(relayed') = Len(relayed) + 1
          /\ \A i \in 1 .. Len(relayed) : relayed'[i] = relayed[i]
          /\ relayed'[Len(relayed) + 1] = script[got + 1]
      BY <1>2, <2>1, <2>2
    <2>4. Counts'
      BY <1>1, <1>2, <1>3, <2>1, <2>2, <2>3 DEF FrontInv, Counts
    <2>5. ASSUME ~(route = "connect" /\ eager)
          PROVE  Follows' /\ Len(relayed') + Len(kept') + FirstPart' - 1 = got'
      <3>1. Follows /\ Len(relayed) + FirstPart - 1 = got
        BY <1>2, <1>3, <2>2, <2>3, <2>5 DEF FrontInv, Payload, Relaying
      <3>2. FirstPart - 1 + (Len(relayed) + 1) = got + 1
        BY <1>3, <2>2, <2>3, <3>1
      <3>3. \A i \in 1 .. Len(relayed') : relayed'[i] = script[FirstPart - 1 + i]
        <4>1. ASSUME NEW i \in 1 .. Len(relayed')
              PROVE  relayed'[i] = script[FirstPart - 1 + i]
          <5>1. CASE i \in 1 .. Len(relayed)
            BY <2>3, <3>1, <5>1 DEF Follows
          <5>2. CASE i = Len(relayed) + 1
            BY <2>3, <3>2, <5>2
          <5> QED BY <2>3, <5>1, <5>2
        <4> QED BY <4>1
      <3>4. Len(relayed') + Len(kept') + FirstPart - 1 = got' /\ got' <= Len(script) /\ Len(kept') = 0
        BY <1>3, <2>1, <2>2, <2>3, <3>1
      <3> QED BY <1>3, <3>3, <3>4 DEF Follows
    <2>6. Payload'
      BY <1>2, <2>5 DEF Payload
    <2> QED BY <1>4, <2>4, <2>6 DEF FrontInv
  <1> QED BY <1>5, <1>6

\* Every step preserves the invariant of the front ends.
LEMMA FrontStep == FrontInv /\ [Next]_vars => FrontInv'
  <1> SUFFICES ASSUME FrontInv, [Next]_vars PROVE FrontInv'
    OBVIOUS
  <1>0. ASSUME UNCHANGED <<kind, opening, eager, sent, got, closed, seen, route, answers, kept, relayed>>,
               pc' = pc \/ (pc' \in {"ended", "done"} /\ pc # "peek") \/ (pc \in Relaying /\ pc' \in Relaying)
        PROVE  FrontInv'
    <2>1. script' = script /\ FirstPart' = FirstPart
      BY <1>0 DEF script, FirstPart
    <2>2. Follows' = Follows
      BY <1>0, <2>1 DEF Follows
    <2>3. Counts' /\ Waits'
      BY <1>0, <2>1 DEF FrontInv, Counts, Waits
    <2>4. Routes' /\ Stages'
      BY <1>0, UnknownKept DEF FrontInv, Routes, Stages, Relaying, Socks, Exact
    <2>5. Payload'
      BY <1>0, <2>1, <2>2 DEF FrontInv, Payload, Relaying
    <2> QED BY <2>3, <2>4, <2>5 DEF FrontInv
  <1>1. CASE Send
    <2>1. /\ ~closed /\ sent < Len(script) /\ sent' = sent + 1
          /\ eager \/ answers >= AnswersBefore(script[sent + 1])
          /\ UNCHANGED <<kind, opening, eager, got, closed, seen, pc, route, answers, kept, relayed>>
      BY <1>1 DEF Send, world
    <2>2. /\ Len(script) \in Nat /\ sent \in 0 .. Len(script) /\ got \in 0 .. sent
          /\ (kind = "connect" => Len(script) = 4 /\ script[3] = "p1")
      BY ScriptOfClient DEF FrontInv, Counts
    <2>3. script' = script /\ FirstPart' = FirstPart
      BY <2>1 DEF script, FirstPart
    <2>4. Counts'
      BY <2>1, <2>2, <2>3 DEF FrontInv, Counts
    <2>5. Routes' /\ Stages'
      BY <2>1, UnknownKept DEF FrontInv, Routes, Stages
    <2>6. Waits'
      <3>1. SUFFICES ASSUME kind = "connect", ~eager, answers = 0 PROVE sent + 1 <= 2
        BY <2>1 DEF Waits
      <3>2. sent <= 2
        BY <3>1 DEF FrontInv, Waits
      <3>3. sent # 2
        <4>1. SUFFICES ASSUME sent = 2 PROVE FALSE
          OBVIOUS
        <4>2. AnswersBefore(script[sent + 1]) = 1
          BY <2>2, <3>1, <4>1 DEF AnswersBefore
        <4> QED BY <2>1, <3>1, <4>2
      <3> QED BY <2>2, <3>2, <3>3
    <2>7. Payload'
      BY <2>1, <2>3 DEF FrontInv, Payload, Follows
    <2> QED BY <2>4, <2>5, <2>6, <2>7 DEF FrontInv
  <1>2. CASE Close
    <2>1. /\ closed' = TRUE
          /\ UNCHANGED <<kind, opening, eager, got, sent, seen, pc, route, answers, kept, relayed>>
      BY <1>2 DEF Close, world
    <2>2. script' = script /\ FirstPart' = FirstPart
      BY <2>1 DEF script, FirstPart
    <2>3. Counts' /\ Routes' /\ Stages' /\ Waits'
      BY <2>1, <2>2, UnknownKept DEF FrontInv, Counts, Routes, Stages, Waits
    <2>4. Payload'
      BY <2>1, <2>2 DEF FrontInv, Payload, Follows
    <2> QED BY <2>3, <2>4 DEF FrontInv
  <1>3. CASE SessionsChange \/ RelayEnds \/ UNCHANGED vars
    <2>1. /\ UNCHANGED <<kind, opening, eager, sent, got, closed, seen, route, answers, kept, relayed>>
          /\ pc' = pc \/ (pc = "relay" /\ pc' = "done")
      BY <1>3 DEF SessionsChange, RelayEnds, vars, world, peer
    <2> QED BY <1>0, <2>1
  <1>4. CASE Peek
    BY <1>4, PeekFront
  <1>5. CASE ReadExact
    BY <1>5, ReadExactFront
  <1>6. CASE ReadExactEnds
    BY <1>0, <1>6 DEF ReadExactEnds, world, peer, Exact
  <1>7. CASE ReadHead
    BY <1>7, ReadHeadFront
  <1>8. CASE PickChannel \/ LastMatch \/ Open \/ SendSyn
    <2>1. /\ UNCHANGED <<kind, opening, eager, sent, got, closed, seen, route, answers, kept, relayed>>
          /\ pc \in Relaying /\ (pc' \in Relaying \/ pc' = "ended")
      BY <1>8 DEF PickChannel, LastMatch, Open, SendSyn, get_direct_stream, world, peer, Relaying
    <2> QED BY <1>0, <2>1 DEF Relaying
  <1>9. CASE Copy
    BY <1>9, CopyFront
  <1> QED BY <1>1, <1>2, <1>3, <1>4, <1>5, <1>6, <1>7, <1>8, <1>9
          DEF Next, FrontEnd, RelayStream

\* The front ends keep to their stages throughout.
LEMMA FrontCorrect == Spec => []FrontInv
  BY FrontInit, FrontStep, PTL DEF Spec

-----------------------------------------------------------------------------
(* The choice of the channel.                                               *)

\* Every step keeps the loop over the pac entries honest.
LEMMA ChannelStep == FrontInv /\ ChannelInv /\ [Next]_vars => ChannelInv'
  <1> SUFFICES ASSUME FrontInv, ChannelInv, [Next]_vars PROVE ChannelInv'
    OBVIOUS
  <1>0. ASSUME UNCHANGED <<pac, choice, table, stream>>,
               pc' \notin Opened => pc \notin Opened,
               pc' = "open" => pc = "open"
        PROVE  ChannelInv'
    <2>1. DirectMatch' = DirectMatch
      BY <1>0 DEF DirectMatch
    <2> QED BY <1>0, <2>1 DEF ChannelInv, choice, table, stream
  <1>1. CASE Send \/ Close \/ RelayEnds \/ SendSyn \/ Copy \/ UNCHANGED vars
    BY <1>0, <1>1 DEF Send, Close, RelayEnds, SendSyn, Copy, vars, world, Opened
  <1>2. CASE SessionsChange
    <2>1. PICK c \in Channels :
            /\ sessions' = IF c \in sessions THEN sessions \ {c} ELSE sessions \cup {c}
            /\ lost' = (lost \/ (pc = "open" /\ c = channel /\ c \in sessions))
      BY <1>2 DEF SessionsChange
    <2>2. UNCHANGED <<pac, pc, choice, stream>>
      BY <1>2 DEF SessionsChange, world
    <2>3. sessions' \subseteq Channels /\ lost' \in BOOLEAN /\ (lost => lost')
      BY <2>1 DEF ChannelInv
    <2>4. DirectMatch' = DirectMatch
      BY <2>2 DEF DirectMatch
    <2>5. pc = "open" /\ channel \in sessions => channel \in sessions' \/ lost'
      BY <2>1
    <2> QED BY <2>2, <2>3, <2>4, <2>5 DEF ChannelInv, choice, stream
  <1>3. CASE FrontEnd
    <2>1. UNCHANGED <<pac, choice, table, stream>>
      BY <1>3 DEF FrontEnd, Peek, ReadExact, ReadExactEnds, ReadHead, world
    <2>2. pc \notin Opened
      BY <1>3 DEF FrontEnd, Peek, ReadExact, ReadExactEnds, ReadHead, Exact, Opened
    <2>3. pc' # "open"
      <3>1. CASE Peek
        <4>1. route' \in {"socks5", "socks4", "tls", "http", "connect", "origin"} /\ pc' = Entry(route')
          BY <3>1 DEF Peek, RouteOf
        <4> QED BY <4>1 DEF Entry
      <3>2. CASE ReadExact
        BY <3>2 DEF ReadExact, After, AfterTls, AfterSocks, Exact, FrontInv, Stages
      <3>3. CASE ReadExactEnds \/ ReadHead
        BY <2>2, <3>3 DEF ReadExactEnds, ReadHead
      <3> QED BY <1>3, <3>1, <3>2, <3>3 DEF FrontEnd
    <2> QED BY <1>0, <2>1, <2>2, <2>3
  <1>4. CASE PickChannel
    <2>1. /\ pc = "pac" /\ pos <= Len(pac) /\ pos' = pos + 1
          /\ UNCHANGED <<pac, table, stream>>
          /\ \/ ~pac[pos].match /\ pc' = pc /\ channel' = channel
             \/ /\ pac[pos].match /\ channel' = pac[pos].channel
                /\ pc' = IF Usable(pac[pos].channel) THEN "open" ELSE "pac"
      BY <1>4 DEF PickChannel, world
    <2>2. pos \in DOMAIN pac /\ pac[pos].channel \in Channels \cup {"direct"}
      <3>1. pac \in Seq(Entries) /\ pos \in 1 .. Len(pac)
        BY <2>1 DEF ChannelInv
      <3>2. pos \in DOMAIN pac /\ pac[pos] \in Entries
        BY <3>1
      <3> QED BY <3>2 DEF Entries
    <2>3. pos' \in Nat \ {0} /\ channel' \in Channels \cup {"direct", "none"}
      BY <2>1, <2>2 DEF ChannelInv
    <2>4. DirectMatch' = DirectMatch
      BY <2>1 DEF DirectMatch
    <2>5. pc' = "open" => channel' = "direct" \/ channel' \in sessions'
      BY <2>1 DEF Usable, table
    <2>6. ASSUME pc' \notin Opened, NEW i \in DOMAIN pac, i < pos'
          PROVE  ~(pac[i].match /\ pac[i].channel = "direct")
      <3>1. CASE i < pos
        BY <2>1, <3>1 DEF ChannelInv, Opened
      <3>2. CASE i = pos
        BY <2>1, <2>6, <3>2 DEF Usable, Opened
      <3>3. i \in Nat /\ pos \in Nat
        BY DEF ChannelInv
      <3> QED BY <2>1, <2>6, <3>1, <3>2, <3>3
    <2>7. ASSUME channel' = "none", NEW i \in DOMAIN pac, i < pos'
          PROVE  ~pac[i].match
      <3>1. i \in Nat /\ pos \in Nat
        BY DEF ChannelInv
      <3>2. channel' = channel /\ ~pac[pos].match
        BY <2>1, <2>2, <2>7, InboundAssumption
      <3> QED BY <2>1, <2>7, <3>1, <3>2 DEF ChannelInv
    <2> QED BY <2>1, <2>3, <2>4, <2>5, <2>6, <2>7 DEF ChannelInv, table, stream, Opened
  <1>5. CASE LastMatch
    <2>1. /\ pc = "pac" /\ pos > Len(pac) /\ pc' \in {"ended", "open"}
          /\ UNCHANGED <<pac, choice, table, stream>>
      BY <1>5 DEF LastMatch, world
    <2>2. ~DirectMatch
      <3>1. \A i \in DOMAIN pac : i < pos
        <4>1. pac \in Seq(Entries) /\ pos \in Nat
          BY DEF ChannelInv
        <4>2. DOMAIN pac = 1 .. Len(pac) /\ Len(pac) \in Nat
          BY <4>1
        <4> QED BY <2>1, <4>1, <4>2
      <3> QED BY <2>1, <3>1 DEF ChannelInv, DirectMatch, Opened
    <2>3. DirectMatch' = DirectMatch
      BY <2>1 DEF DirectMatch
    <2> QED BY <2>1, <2>2, <2>3 DEF ChannelInv, choice, table, stream, Opened
  <1>6. CASE Open
    <2>1. /\ pc = "open" /\ pc' \in {"syn", "relay", "ended"} /\ UNCHANGED <<pac, choice, table>>
          /\ stuck' = stuck \/ stuck' \in BOOLEAN
          /\ \/ missed' = missed
             \/ channel # "direct" /\ missed' = IF channel \in sessions THEN "wrap" ELSE "session"
      BY <1>6 DEF Open, get_direct_stream, world, stream
    <2>2. DirectMatch' = DirectMatch
      BY <2>1 DEF DirectMatch
    <2>3. /\ missed' \in {"no", "session", "wrap"} /\ stuck' \in BOOLEAN
          /\ missed' # "no" => lost \/ ~DirectMatch \/ missed' = "wrap"
      <3>1. CASE missed' = missed
        BY <2>1, <3>1 DEF ChannelInv
      <3>2. CASE channel # "direct" /\ missed' = IF channel \in sessions THEN "wrap" ELSE "session"
        <4>1. channel \in sessions \/ lost \/ ~DirectMatch
          BY <2>1, <3>2 DEF ChannelInv
        <4> QED BY <2>1, <3>2, <4>1 DEF ChannelInv
      <3> QED BY <2>1, <3>1, <3>2
    <2> QED BY <2>1, <2>2, <2>3 DEF ChannelInv, choice, table, Opened
  <1> QED BY <1>1, <1>2, <1>3, <1>4, <1>5, <1>6 DEF Next, RelayStream

\* The invariant of the channel's choice holds throughout.
LEMMA ChannelCorrect == Spec => []ChannelInv
  <1>1. Init => ChannelInv
    <2> SUFFICES ASSUME Init PROVE ChannelInv
      OBVIOUS
    <2>1. pac \in Seq(Entries)
      BY InboundAssumption DEF Init, Entries
    <2>2. \A i \in DOMAIN pac : ~(i < pos)
      BY <2>1 DEF Init
    <2>3. pos \in Nat \ {0} /\ channel \in Channels \cup {"direct", "none"}
      BY DEF Init
    <2>4. sessions \subseteq Channels /\ lost = FALSE /\ missed = "no" /\ stuck = FALSE /\ pc = "peek"
      BY DEF Init
    <2> QED BY <2>1, <2>2, <2>3, <2>4 DEF ChannelInv
  <1> QED BY <1>1, ChannelStep, FrontCorrect, PTL DEF Spec

\* relay_stream does not fail for want of a session when an entry "direct"
\* matches, unless the session it had picked ended before create_stream or was
\* skipped as the cursor wrapped: for every pac table and any number of changes of
\* the sessions.
THEOREM DirectReached == Spec => []DirectIsReached
  <1>1. ChannelInv => DirectIsReached
    BY DEF ChannelInv, DirectIsReached, DirectMatch
  <1> QED BY <1>1, ChannelCorrect, PTL

-----------------------------------------------------------------------------
(* Who is turned down.                                                      *)

\* A front end reads the parts of its own protocol in their order.
LEMMA ReadsItsOwn ==
  ASSUME FrontInv, pc \in Exact
  PROVE  script[got + 1] = pc
  <1>1. kind \in Kinds /\ route = kind /\ kind \in {"socks5", "tls"}
    BY DEF FrontInv, Counts, Routes, Stages, Exact, Socks
  <1>2. /\ kind = "socks5" => script[1] = "greeting" /\ script[2] = "methods"
                              /\ script[3] = "request" /\ script[4] = "addr"
        /\ kind = "tls" => script[1] = "record" /\ script[2] = "hello"
    BY <1>1, ScriptOfClient
  <1> QED BY <1>1, <1>2 DEF FrontInv, Stages, Exact, Socks

\* Every way to "ended" has its cause, and a cause stays.
LEMMA TurnedDownStep ==
  ASSUME FrontInv, FrontInv', ChannelInv, TurnedDownHasCause, [Next]_vars
  PROVE  TurnedDownHasCause'
  <1>0. got \in Nat /\ sent \in Nat
    BY ScriptOfClient DEF FrontInv, Counts
  <1>1. CASE pc' # "ended"
    BY <1>1 DEF TurnedDownHasCause
  <1>2. CASE pc = "ended" /\ pc' = "ended"
    <2>1. CASE Send \/ Close \/ SessionsChange \/ UNCHANGED vars
      <3>1. /\ UNCHANGED <<kind, opening, bad, redirected, pac, got, seen, route, channel, missed>>
            /\ closed => closed' /\ sent' = sent
        BY <2>1 DEF Send, Close, SessionsChange, vars, world, peer, choice, stream
      <3>2. script' = script /\ Unknown' = Unknown
        BY <3>1, UnknownKept DEF script
      <3> QED BY <1>2, <3>1, <3>2 DEF TurnedDownHasCause
    <2> QED BY <1>2, <2>1 DEF Next, FrontEnd, RelayStream, Peek, ReadExact, ReadExactEnds, ReadHead,
                            PickChannel, LastMatch, Open, SendSyn, Copy, RelayEnds, Exact
  <1>3. CASE Peek /\ pc' = "ended"
    <2>1. route' \in {"socks4", "origin"} /\ UNCHANGED redirected /\ (route' = "origin" => ~redirected)
      <3>1. route' \in {"socks5", "socks4", "tls", "http", "connect", "origin"} /\ pc' = Entry(route')
            /\ UNCHANGED redirected
        BY <1>3 DEF Peek, RouteOf, world
      <3> QED BY <1>3, <3>1 DEF Entry
    <2>2. CASE route' = "socks4"
      <3>1. kind' = "socks4"
        BY <2>2 DEF FrontInv, Routes
      <3> QED BY <3>1 DEF TurnedDownHasCause
    <2>3. CASE route' = "origin"
      <3>1. Unknown' /\ ~redirected'
        BY <2>1, <2>3 DEF FrontInv, Routes
      <3> QED BY <2>3, <3>1 DEF TurnedDownHasCause
    <2> QED BY <2>1, <2>2, <2>3
  <1>4. CASE ReadExact /\ pc' = "ended"
    <2>1. pc \in Exact /\ got' = got + 1 /\ bad = pc /\ UNCHANGED <<kind, bad>>
      BY <1>4 DEF ReadExact, After, AfterTls, AfterSocks, Exact, world, FrontInv, Stages
    <2>2. script'[got'] = bad'
      BY <2>1, ReadsItsOwn DEF script
    <2>3. got' \in 1 .. got'
      BY <1>0, <2>1
    <2> QED BY <2>2, <2>3 DEF TurnedDownHasCause
  <1>5. CASE ReadExactEnds
    BY <1>5 DEF ReadExactEnds, peer, TurnedDownHasCause
  <1>6. CASE ReadHead /\ pc' = "ended"
    <2>1. PICK n \in got + 1 .. sent : got' = n /\ HeadRead(n) /\ bad = "headend"
      BY <1>6 DEF ReadHead
    <2>2. script' = script /\ bad' = bad
      BY <1>6 DEF ReadHead, world, script
    <2>3. \E i \in 1 .. got' : script'[i] = bad'
      BY <2>1, <2>2 DEF HeadRead
    <2> QED BY <2>3 DEF TurnedDownHasCause
  <1>7. CASE LastMatch /\ pc' = "ended"
    <2>1. channel = "none" /\ pos > Len(pac) /\ pac' = pac
      BY <1>7 DEF LastMatch, world
    <2>2. pac \in Seq(Entries) /\ pos \in Nat
      BY DEF ChannelInv
    <2>3. \A i \in DOMAIN pac : i < pos
      <3>1. DOMAIN pac = 1 .. Len(pac) /\ Len(pac) \in Nat
        BY <2>2
      <3> QED BY <2>1, <2>2, <3>1
    <2>4. \A i \in DOMAIN pac : ~pac[i].match
      BY <2>1, <2>3 DEF ChannelInv
    <2> QED BY <2>1, <2>4 DEF TurnedDownHasCause
  <1>8. CASE Open /\ pc' = "ended"
    <2>1. channel' = "direct" \/ missed' # "no"
      BY <1>8 DEF Open, choice
    <2> QED BY <2>1 DEF TurnedDownHasCause
  <1>9. CASE PickChannel \/ SendSyn \/ RelayEnds \/ Copy
    <2>1. pc' # "ended"
      BY <1>9 DEF PickChannel, SendSyn, RelayEnds, Copy
    <2> QED BY <1>1, <2>1
  <1>10. CASE Send \/ Close \/ SessionsChange \/ UNCHANGED vars
    <2>1. pc' = pc
      BY <1>10 DEF Send, Close, SessionsChange, vars
    <2> QED BY <1>1, <1>2, <2>1
  <1> QED BY <1>1, <1>3, <1>4, <1>5, <1>6, <1>7, <1>8, <1>9, <1>10 DEF Next, FrontEnd, RelayStream

\* A connection comes to the relay unless one of the causes of TurnedDownHasCause
\* applies: for any first bytes the protocols allow, any number of them that peek
\* sees, every pac table and any number of changes of the sessions.
THEOREM TurnedDownCaused == Spec => []TurnedDownHasCause
  <1>1. Init => TurnedDownHasCause
    BY DEF Init, TurnedDownHasCause
  <1> QED BY <1>1, TurnedDownStep, FrontCorrect, ChannelCorrect, PTL DEF Spec

-----------------------------------------------------------------------------
(* What reaches the target.                                                 *)

\* The variables keep their types.
LEMMA InboundTypes ==
  ASSUME FrontInv, ChannelInv
  PROVE  TypeOK
  <1>1. pc \in Exact \cup {"peek", "head", "pac", "open", "syn", "relay", "done", "ended"}
    BY DEF FrontInv, Stages, Relaying
  <1>2. route \in DOMAIN Script \cup {"none", "origin"}
    BY InboundAssumption DEF FrontInv, Routes, Counts
  <1>3. got <= sent /\ answers \in 0 .. 2
    BY DEF FrontInv, Counts, Stages
  <1>4. channel \in Channels \cup {"direct", "none"} /\ sessions \subseteq Channels
    BY DEF ChannelInv
  <1>5. {closed, lost, stuck} \subseteq BOOLEAN /\ seen \in 0 .. 3
        /\ missed \in {"no", "session", "wrap"}
    BY DEF FrontInv, Counts, ChannelInv
  <1> QED BY <1>1, <1>2, <1>3, <1>4, <1>5 DEF TypeOK

\* What the target gets is what the client sent for it, from the first part on
\* and without a gap, through every front end and with any read-ahead: but for
\* a CONNECT client that does not wait for the answer.
THEOREM PayloadComplete == Spec => []PayloadKept
  <1>1. FrontInv /\ ChannelInv => PayloadKept
    <2> SUFFICES ASSUME FrontInv, ChannelInv, ~(route = "connect" /\ eager)
                 PROVE  IsPrefix(relayed \o kept, SubSeq(script, FirstPart, Len(script)))
      BY InboundTypes DEF PayloadKept
    <2> DEFINE s == relayed \o kept
               t == SubSeq(script, FirstPart, Len(script))
    <2>1. /\ script \in Seq(Parts) /\ Len(script) \in Nat
          /\ relayed \in Seq(Parts) /\ kept \in Seq(Parts) /\ FirstPart \in {1, 3, 5}
      BY ScriptOfClient, FirstPartFacts DEF FrontInv, Counts
    <2>2. Follows
      BY DEF FrontInv, Payload
    <2>3. /\ s \in Seq(Parts) /\ Len(s) = Len(relayed) + Len(kept)
          /\ Len(relayed) \in Nat /\ Len(kept) \in Nat
          /\ \A i \in 1 .. Len(s) : s[i] = IF i <= Len(relayed) THEN relayed[i]
                                           ELSE kept[i - Len(relayed)]
      BY <2>1
    <2>4. Len(s) + FirstPart - 1 <= Len(script)
      BY <2>2, <2>3 DEF Follows
    <2>5. /\ t \in Seq(Parts) /\ Len(t) = Len(script) - FirstPart + 1
          /\ \A i \in 1 .. Len(t) : t[i] = script[FirstPart - 1 + i]
      <3>1. FirstPart <= Len(script) + 1 /\ FirstPart \in Nat
        BY <2>1, <2>3, <2>4
      <3> QED BY <2>1, <3>1
    <2>6. ASSUME NEW i \in 1 .. Len(s) PROVE s[i] = t[i]
      <3>1. i \in 1 .. Len(t)
        BY <2>1, <2>3, <2>4, <2>5
      <3>2. CASE i <= Len(relayed)
        <4>1. i \in 1 .. Len(relayed) /\ s[i] = relayed[i]
          BY <2>3, <3>2
        <4> QED BY <2>2, <2>5, <3>1, <4>1 DEF Follows
      <3>3. CASE ~(i <= Len(relayed))
        <4>1. i - Len(relayed) \in 1 .. Len(kept) /\ s[i] = kept[i - Len(relayed)]
          BY <2>3, <3>3
        <4>2. kept[i - Len(relayed)] = script[FirstPart - 1 + Len(relayed) + (i - Len(relayed))]
          BY <2>2, <4>1 DEF Follows
        <4>3. FirstPart - 1 + Len(relayed) + (i - Len(relayed)) = FirstPart - 1 + i
          BY <2>1, <2>3
        <4> QED BY <2>5, <3>1, <4>1, <4>2, <4>3
      <3> QED BY <3>2, <3>3
    <2> HIDE DEF s, t
    <2>7. Len(s) <= Len(t) /\ Len(s) \in Nat /\ Len(t) \in Nat
      BY <2>1, <2>3, <2>4, <2>5
    <2>8. SubSeq(s, 1, Len(s)) = SubSeq(t, 1, Len(s))
      BY <2>3, <2>5, <2>6, <2>7
    <2> QED BY <2>7, <2>8 DEF IsPrefix, s, t
  <1> QED BY <1>1, FrontCorrect, ChannelCorrect, PTL

=============================================================================
