----------------------------- MODULE HttpReader -----------------------------
(***************************************************************************)
(* The HTTP proxy of tunnel/http.rs on one connection: handle_http reads    *)
(* the first header with read_until_separator (utils/io.rs), and HttpReader *)
(* then feeds the client's bytes to BufCopy, rewriting every header and     *)
(* passing bodies on.                                                       *)
(*                                                                         *)
(* A byte string is a row of cells.  Each request is a header of some cells *)
(* and a body: none, of a given length, or chunked and ended by the         *)
(* terminator "0 CR LF CR LF", here two cells.  Chunks do not contain the   *)
(* terminator, and no body contains a whole header.  recv_buf is the part   *)
(* of the client's cells that was read and not used.                        *)
(***************************************************************************)
EXTENDS Integers, Sequences, SequencesExt

CONSTANTS
    Requests,    \* number of requests the client has
    HeaderLens,  \* lengths of headers
    BodyLens,    \* lengths of bodies, the terminator not counted
    BufSize,     \* buffer of BufCopy, 8192
    Slack,       \* room BytesMut::reserve may leave beyond what was asked for
    Pipelines    \* whether the client may send a request before the last one
                 \* was passed on: a subset of BOOLEAN

ASSUME HttpAssumption ==
    /\ Requests \in Nat \ {0} /\ BufSize \in Nat \ {0} /\ Slack \in Nat
    /\ HeaderLens \subseteq Nat \ {0} /\ BodyLens \subseteq Nat \ {0}
    /\ Pipelines \subseteq BOOLEAN

\* A request: the length of its header, what the header says of the body, and
\* the length of the body.
RequestSet ==
    [h : HeaderLens, body : {"none"}, n : {0}]
    \cup [h : HeaderLens, body : {"length", "chunked"}, n : BodyLens]

Terminator == <<"0", "end">>

\* The cells of request i.
CellsOf(r, i) ==
    [j \in 1 .. r.h |-> [r |-> i, k |-> IF j = 1 THEN "start" ELSE "header", last |-> j = r.h]]
    \o [j \in 1 .. r.n |-> [r |-> i, k |-> "body", last |-> FALSE]]
    \o (IF r.body = "chunked"
        THEN [j \in 1 .. Len(Terminator) |-> [r |-> i, k |-> Terminator[j], last |-> FALSE]]
        ELSE <<>>)

VARIABLES
    reqs,          \* the client's requests
    refused,       \* the request whose header httparse refuses, as it is invalid or has
                   \* more than 32 fields; 0: none
    pipelining,    \* whether this client pipelines
    input,         \* the cells of all requests
    got, used,     \* input[used + 1 .. got] is recv_buf
    closed,        \* the client has closed its side
    pc,            \* where handle_http is
    state,         \* HttpDecodeState
    http_buf,      \* rewritten header that waits, as pieces of the output
    body_length,   \* i64, negative for chunked
    body_tail,     \* the last cells of a chunked body
    out            \* pieces passed on: [k, from, to] of the input

client == <<reqs, refused, pipelining, input, closed>>
decoder == <<state, http_buf, body_length, body_tail>>
vars == <<client, got, used, pc, decoder, out>>

\* separator: in read_until_separator; copy: in BufCopy; done: it saw the end;
\* failed: a header was not understood; broken: a write failed; panic: a slice
\* out of range.
PCs == {"separator", "copy", "done", "failed", "broken", "panic"}
Over == pc \in {"done", "failed", "broken", "panic"}

Init ==
    /\ reqs \in [1 .. Requests -> RequestSet]
    /\ refused \in 0 .. Requests /\ pipelining \in Pipelines
    /\ input = FlattenSeq([i \in 1 .. Requests |-> CellsOf(reqs[i], i)])
    /\ got = 0 /\ used = 0 /\ closed = FALSE /\ pc = "separator"
    /\ state = "header" /\ http_buf = <<>> /\ body_length = 0
    /\ body_tail = <<>> /\ out = <<>>

-----------------------------------------------------------------------------
(* The client.                                                              *)

Passed == IF out = <<>> THEN 0 ELSE Last(out).to
BodyCells(r) == r.n + (IF r.body = "chunked" THEN Len(Terminator) ELSE 0)

\* Where request i ends among the cells of all.
EndOf(i) ==
    LET end[j \in 0 .. Requests] == IF j = 0 THEN 0 ELSE end[j - 1] + reqs[j].h + BodyCells(reqs[j])
    IN end[i]

\* What the client has sent: all, or the requests up to the first that was not
\* yet passed on.
Sent ==
    IF pipelining THEN Len(input)
    ELSE EndOf(CHOOSE i \in 1 .. Requests :
                  /\ EndOf(i) > Passed \/ i = Requests
                  /\ \A j \in 1 .. i - 1 : EndOf(j) <= Passed)

\* The client closes, between two requests or within one; what it has sent may
\* still be on its way.
Close ==
    /\ ~closed /\ closed' = TRUE
    /\ \E n \in got .. Sent : input' = SubSeq(input, 1, n)
    /\ UNCHANGED <<reqs, refused, pipelining, got, used, pc, decoder, out>>

-----------------------------------------------------------------------------
(* Helpers of the reader.                                                   *)

Avail == (IF closed THEN Len(input) ELSE Sent) - got
Buffered(to) == SubSeq(input, used + 1, to)
Piece(k, from, to) == [k |-> k, from |-> from, to |-> to]
Bytes(p) == p.to - p.from

HeaderEnds(to) == {j \in used + 1 .. to : input[j].last}

\* parse_request on recv_buf = input[used + 1 .. to]: the set of outcomes.  At the
\* start of a header it is complete or partial, or an error, at its end at the latest,
\* if the header is refused; elsewhere the bytes are some other text, which fails, or
\* is the first part of a line for all one can tell.
Parse(to) ==
    LET here == Piece("rewritten", used, used) IN
    IF used = to THEN {[r |-> "partial", p |-> here]}
    ELSE LET first == input[used + 1]
             whole == HeaderEnds(to) # {}
             end == CHOOSE j \in HeaderEnds(to) : \A i \in HeaderEnds(to) : j <= i
             header == Piece(IF first.k = "start" THEN "rewritten" ELSE "mixed", used, end)
         IN (IF ~whole THEN {[r |-> "partial", p |-> here]}
             ELSE IF input[end].r = refused THEN {} ELSE {[r |-> "complete", p |-> header]})
            \cup (IF first.k = "start" /\ first.r # refused THEN {}
                  ELSE {[r |-> "error", p |-> here]})

\* Mutant: only chunked bodies are known.
LengthAt_ChunkedOnly(j) == IF reqs[input[j].r].body = "chunked" THEN -1 ELSE 0

\* The body length parse_request returns for the header that ends at j.
LengthAt(j) ==
    LET r == reqs[input[j].r] IN
    CASE r.body = "none" -> 0
      [] r.body = "length" -> r.n
      [] r.body = "chunked" -> -1

\* Mutant: one cell of the buffer is lost.
Fits_OffByOne(p) == Bytes(p) < BufSize

\* fill_read_buf copies everything, or panics when dst is too small.
Fits(p) == Bytes(p) <= BufSize

-----------------------------------------------------------------------------
(* handle_http.                                                             *)

\* The first header leaves the reader as newHttpReader made it: what
\* parse_request says of the body is dropped.
HeadState(j) == UNCHANGED <<body_length, state>>

\* read_until_separator reads some cells; once a header end is among them, the
\* header is parsed, and all that was read is in recv_buf.
ReadHead ==
    /\ pc = "separator"
    /\ \E n \in 1 .. Avail :
        /\ got' = got + n
        /\ IF HeaderEnds(got + n) = {}
           THEN UNCHANGED <<pc, used, http_buf, state, body_length>>
           ELSE \E o \in Parse(got + n) :
                /\ pc' = IF o.r = "complete" THEN "copy" ELSE "failed"
                /\ used' = o.p.to
                /\ http_buf' = IF o.r = "complete" THEN <<o.p>> ELSE <<>>
                /\ HeadState(o.p.to)
    /\ UNCHANGED <<client, body_tail, out>>

-----------------------------------------------------------------------------
(* poll_read, called by BufCopy, which writes out all that it returns.      *)

\* A header that waits goes out first.
FlushHeader ==
    /\ pc = "copy" /\ http_buf # <<>>
    /\ IF Fits(http_buf[1])
       THEN out' = out \o http_buf /\ http_buf' = <<>> /\ UNCHANGED pc
       ELSE pc' = "panic" /\ UNCHANGED <<out, http_buf>>
    /\ UNCHANGED <<client, got, used, state, body_length, body_tail>>

\* Mutant: the tail starts anew with every read.
TailAfter_Forgets(to) ==
    LET cells == [i \in 1 .. to - used |-> input[used + i].k]
    IN IF Len(cells) <= Len(Terminator) THEN cells
       ELSE SubSeq(cells, Len(cells) - Len(Terminator) + 1, Len(cells))

\* The tail after the cells of recv_buf: the last ones of all that were seen
\* since it was cleared, which a long enough read does.
TailAfter(to) ==
    LET cells == [i \in 1 .. to - used |-> input[used + i].k]
        all == IF Len(cells) > Len(Terminator) THEN cells ELSE body_tail \o cells
    IN IF Len(all) <= Len(Terminator) THEN all
       ELSE SubSeq(all, Len(all) - Len(Terminator) + 1, Len(all))

\* check_body_complete_and_fill_read_buf: all of recv_buf = input[used + 1 .. to]
\* goes out, also what is behind the body.
PassBody(to) ==
    LET p == Piece("raw", used, to)
        left == body_length - Bytes(p)
    IN IF ~Fits(p) THEN pc' = "panic" /\ UNCHANGED <<used, state, body_length, body_tail, out>>
       ELSE /\ out' = Append(out, p) /\ used' = to /\ UNCHANGED pc
            /\ IF body_length < 0
               THEN /\ body_tail' = TailAfter(to)
                    /\ state' = IF TailAfter(to) = Terminator THEN "header" ELSE "body"
                    /\ UNCHANGED body_length
               ELSE /\ body_length' = left
                    /\ state' = IF left = 0 THEN "header" ELSE "body"
                    /\ UNCHANGED body_tail

\* Mutant: a body that came with its header waits for the next read.
FlushBody_Waits ==
    /\ pc = "copy" /\ http_buf = <<>> /\ state = "body" /\ used < got /\ Avail > 0
    /\ PassBody(got)
    /\ UNCHANGED <<client, got, http_buf>>

\* Part of a body came with its header, or behind another.
FlushBody ==
    /\ pc = "copy" /\ http_buf = <<>> /\ state = "body" /\ used < got
    /\ PassBody(got)
    /\ UNCHANGED <<client, got, http_buf>>

TailEnds == body_length < 0 /\ body_tail = Terminator

\* Nothing is in recv_buf, and the tail is still that of the last chunked body.
OldTailEnds ==
    /\ pc = "copy" /\ http_buf = <<>> /\ state = "body" /\ used = got /\ TailEnds
    /\ state' = "header"
    /\ UNCHANGED <<client, got, used, pc, http_buf, body_length, body_tail, out>>

Polls == pc = "copy" /\ http_buf = <<>> /\ (state = "body" => used = got /\ ~TailEnds)

\* The length of one read: the buffer has room for buf.len() and more.
ReadSizes == {n \in 1 .. Avail : n <= BufSize + Slack}

\* What poll_read does with the outcome of parse_request: a partial header gives
\* Ok(0), the sign of the end.
HeaderOutcome(o) ==
    CASE o.r = "complete" /\ Fits(o.p) ->
            /\ out' = Append(out, o.p) /\ used' = o.p.to
            /\ body_length' = LengthAt(o.p.to)
            /\ state' = IF LengthAt(o.p.to) = 0 THEN "header" ELSE "body"
            /\ UNCHANGED <<pc, http_buf>>
      [] o.r = "complete" /\ ~Fits(o.p) ->
            pc' = "panic" /\ UNCHANGED <<out, used, body_length, state, http_buf>>
      [] o.r = "partial" ->
            pc' = "done" /\ UNCHANGED <<out, used, body_length, state, http_buf>>
      [] o.r = "error" ->
            pc' = "failed" /\ UNCHANGED <<out, used, body_length, state, http_buf>>

\* Cells come while a header is expected: recv_buf with them is parsed.
ReadHeader ==
    /\ Polls /\ state = "header"
    /\ \E n \in ReadSizes :
        /\ got' = got + n
        /\ \E o \in Parse(got + n) : HeaderOutcome(o)
    /\ UNCHANGED <<client, body_tail>>

\* Cells come within a body.
ReadBody ==
    /\ Polls /\ state = "body"
    /\ \E n \in ReadSizes : got' = got + n /\ PassBody(got + n)
    /\ UNCHANGED <<client, http_buf>>

\* The client's end: BufCopy finishes, and what is in recv_buf is dropped.
ReadEnd ==
    /\ Polls /\ closed /\ Avail = 0
    /\ pc' = "done"
    /\ UNCHANGED <<client, got, used, decoder, out>>

\* The remote side takes no more: BufCopy ends with the error of the write.
WriteFails ==
    /\ pc = "copy" /\ pc' = "broken"
    /\ UNCHANGED <<client, got, used, decoder, out>>

Step == ReadHead \/ FlushHeader \/ FlushBody \/ OldTailEnds \/ ReadHeader \/ ReadBody \/ ReadEnd
Next == Close \/ Step \/ WriteFails

Spec == Init /\ [][Next]_vars

\* What a client has sent arrives, and a coroutine whose await returned runs on.
FairSpec == Spec /\ WF_vars(Step)

-----------------------------------------------------------------------------
(* Properties.                                                              *)

\* The variables have their types, and what was passed on or waits in a buffer
\* is all that was read, in order.
TypeOK ==
    /\ pc \in PCs /\ state \in {"header", "body"} /\ used <= got /\ got <= Len(input)
    /\ body_length \in Int /\ Len(body_tail) <= Len(Terminator)
    /\ LET all == out \o http_buf IN
       \A i \in DOMAIN all : all[i].from = IF i = 1 THEN 0 ELSE all[i - 1].to

HasBody(i) == reqs[i].body # "none"
Chunked == {i \in 1 .. Requests : reqs[i].body = "chunked"}

\* A piece is what it should be: a header of its own, or a part of one body.
Framed(p) ==
    IF p.k = "rewritten"
    THEN input[p.from + 1].k = "start" /\ input[p.to].last
         /\ \A j \in p.from + 1 .. p.to : input[j].r = input[p.to].r
    ELSE p.k = "raw" /\ \A j \in p.from + 1 .. p.to :
             input[j].k \notin {"start", "header"} /\ input[j].r = input[p.to].r

\* The clients HttpReader cannot serve: those whose first request has a body,
\* as handle_http drops its length; those with two chunked bodies, as the tail of
\* the first ends the second; and those that send a request behind another.
Unserved == HasBody(1) \/ \E i, j \in Chunked : i # j

\* Nothing that was read is lost, and of all other clients every header is rewritten,
\* every body is passed on as it is, and nothing is taken for a header that is none,
\* however the bytes are cut into reads, the terminator of a chunked body too.
MisreadHasCause ==
    /\ TypeOK
    /\ Unserved \/ pipelining \/ \A i \in DOMAIN out : Framed(out[i])

\* For these clients parse_request fails only at the header httparse refuses, and the
\* copy ends before the client does only when a header after the first arrives in two
\* reads: poll_read then reports the end.
EarlyEndHasCause ==
    ~pipelining /\ ~Unserved =>
        /\ pc = "failed" => input[used + 1].k = "start" /\ input[used + 1].r = refused
        /\ pc = "done" /\ ~closed =>
              used < got /\ input[used + 1].k = "start" /\ ~input[got].last

\* fill_read_buf panics only for a header or a body that is longer than the
\* buffer (recv_buf may take more in one read than the buffer holds), or when
\* requests are sent together.
PanicHasCause ==
    pc = "panic" =>
        pipelining \/ \E i \in 1 .. Requests : reqs[i].h > BufSize \/ BodyCells(reqs[i]) > BufSize

\* A request that has arrived is passed on, unless the copy is over: nothing
\* waits in recv_buf for cells that are not to come.
AllPassedOn ==
    \A i \in 1 .. Requests :
        got >= EndOf(i) ~> (Passed >= EndOf(i) \/ Over \/ Unserved \/ pipelining)

\* A client that has PUT or POST in its first line, as handle_inbound accepts
\* it, has its body passed on.
BodyPassedOn ==
    got >= EndOf(1) ~> (Passed >= EndOf(1) \/ pc # "copy")
=============================================================================
