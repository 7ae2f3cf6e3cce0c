-------------------------- MODULE SecureLinkProofs --------------------------
(***************************************************************************)
(* Proofs about the encrypted connection, for every header, tag and buffer *)
(* size, every set of body lengths and any number of events.               *)
(*                                                                         *)
(* The invariant lays the bytes out, end by end.  Of the writer: its       *)
(* frames lie on the connection one behind the other (Layout); the first   *)
(* is its AUTH event, sealed with the first context (HelloOK); the others  *)
(* are the events it sent, each sealed with the context the one before     *)
(* left behind (Chain), as long as it wrote no frame twice.  Of the        *)
(* reader: it waits only for what decrypt is short of (NeedOK); it has a   *)
(* session only if it opened the other's AUTH event (HelloOK); unless the  *)
(* writer repeated a frame it stands at the first byte of a frame, with    *)
(* the context this was sealed with (StepOK), and what a websocket message *)
(* left over is the end of a frame whose header was read (RestOK), hence   *)
(* what it waits for.                                                      *)
(***************************************************************************)
EXTENDS SecureLink, TLAPS

-----------------------------------------------------------------------------
(* The inductive invariant.                                                 *)

Contexts == [m : Methods, h : Nat, b : Nat]
Auths == [method : Methods \cup {"none"}, rand : Nat]
Events == [k : {"AUTH", "DATA", "FIN", "WIN_UPDATE", "NONE"}, len : 0 .. LenMod - 1, auth : Auths]
Frames == {Encrypt(ctx, ev) : ctx \in Contexts, ev \in Events}
Cells == [f : Frames, at : Nat]

\* The variables TypeOK leaves open, and the two parts of TypeOK about offsets.
TypesInv ==
    /\ transport \in Transports /\ method \in [Ends -> Methods] /\ phase \in [Ends -> Phases]
    /\ wctx \in [Ends -> Contexts] /\ rctx \in [Ends -> Contexts]
    /\ outq \in [Ends -> Seq(Frames)] /\ wire \in [Ends -> Seq(Cells)]
    /\ twice \in [Ends -> BOOLEAN] /\ retries \in Nat
    /\ got \in Counters /\ used \in Counters /\ rest \in Counters /\ need \in Counters
    /\ sent \in [Ends -> Seq(Events)] /\ delivered \in [Ends -> Seq(Events)]

\* Frames one behind the other, from offset 0 on.
Layout(w) ==
    /\ w # <<>> => w[1].at = 0
    /\ \A i \in 1 .. Len(w) : i < Len(w) => w[i + 1].at = w[i].at + w[i].f.n
    /\ \A i, j \in 1 .. Len(w) : i < j => w[i].at + w[i].f.n <= w[j].at

BytesOK(e) ==
    /\ used[e] <= got[e] /\ got[e] + rest[e] <= Total(Incoming(e))
    /\ transport = "tcp" => rest[e] = 0
    /\ phase[e] \in {"connect", "auth"} => used[e] = 0

\* An end waits for exactly what decrypt is short of.
NeedOK(e) ==
    /\ Reading(e) /\ need[e] > 0 => Decrypt(e).r = "more" /\ Decrypt(e).n = need[e]
    /\ phase[e] \in {"connect", "reply"} => need[e] = 0

\* The context of each end's AUTH event, and the one sessions start with.
FirstContext(e) == NewContext(method[e], 0)
SessionContext == NewContext(method["c"], Rand)
SameMethod == method["c"] = method["s"]

\* The AUTH event of each end.
Hello(e) ==
    Event("AUTH", AuthLen, [method |-> method["c"], rand |-> IF e = "c" THEN 0 ELSE Rand])

PhasesInv ==
    /\ phase["c"] = "connect" => phase["s"] = "connect"
    /\ phase["c"] # "reply"

\* No frame was made yet.
Silent(e) == phase[e] = "connect" \/ (e = "s" /\ phase[e] = "auth")

HelloOK(e) ==
    /\ wire[e] # <<>> => wire[e][1].f = Encrypt(FirstContext(e), Hello(e))
    /\ wire[e] = <<>> /\ outq[e] # <<>> => outq[e][1] = Encrypt(FirstContext(e), Hello(e))
    /\ Silent(e) => wire[e] = <<>> /\ outq[e] = <<>> /\ wctx[e] = FirstContext(e)
    /\ ~Silent(e) /\ ~Over(e) => wire[e] # <<>> \/ outq[e] # <<>>
    /\ phase[e] \in {"connect", "auth"} => rctx[e] = FirstContext(e)
    /\ phase[e] \in {"connect", "auth", "reply"} => sent[e] = <<>> /\ delivered[e] = <<>>
    /\ phase[e] = "reply" => rctx[e] = SessionContext
    /\ phase[e] \in {"reply", "session"} => SameMethod

\* The frames of o, first those it has written, then those it has not.
Count(o) == Len(wire[o]) + Len(outq[o])
Frame(o, i) == IF i <= Len(wire[o]) THEN wire[o][i].f ELSE outq[o][i - Len(wire[o])]

\* The context of the frame behind frame i, written or still to come.
NextContext(o, i) == IF i < Count(o) THEN Frame(o, i + 1).ctx ELSE wctx[o]

\* The events of a session behind the AUTH event, each sealed with the context the
\* one before it left.
Chain(o) ==
    /\ Count(o) > 0 => Count(o) = 1 + Len(sent[o])
    /\ \A i \in 2 .. Count(o) :
          /\ Frame(o, i).ev = sent[o][i - 1]
          /\ NextContext(o, i) = AfterEncrypt(Frame(o, i).ctx, Frame(o, i).ev)
    /\ Count(o) >= 2 \/ phase[o] = "session" => NextContext(o, 1) = SessionContext

WriterSide(o) == Layout(wire[o]) /\ (~twice[o] => Chain(o))

\* The connection to e is one on which the ends must stay in step.
Sound(e) == SameMethod /\ ~twice[Other(e)]

\* Frames that e has read, and where frame i of w starts or will start.
Taken(e) == IF phase[e] \in {"connect", "auth"} THEN 0 ELSE 1 + Len(delivered[e])
StartOf(w, i) == IF i <= Len(w) THEN w[i].at ELSE Total(w)

InPlace(e) ==
    /\ Taken(e) <= Len(Incoming(e))
    /\ used[e] = StartOf(Incoming(e), Taken(e) + 1)
    /\ Taken(e) = 1 => rctx[e] = SessionContext
    /\ Taken(e) >= 2 => rctx[e] = NextContext(Other(e), Taken(e))

StepOK(e) ==
    Sound(e) =>
        /\ phase[e] \notin {"garbled", "panic"}
        /\ ~Over(e) => InPlace(e)

\* The rest of a websocket message is the end of frame j.
RestOf(w, g, u, r, j) ==
    w[j].at + HeaderLen <= g /\ g + r = w[j].at + w[j].f.n /\ u <= w[j].at

RestOK(e) ==
    Sound(e) /\ ~Over(e) /\ rest[e] > 0 =>
        \E j \in 1 .. Len(Incoming(e)) : RestOf(Incoming(e), got[e], used[e], rest[e], j)

ReaderSide(e) == BytesOK(e) /\ NeedOK(e) /\ StepOK(e) /\ RestOK(e)

LinkInv ==
    /\ TypesInv /\ PhasesInv
    /\ \A e \in Ends : WriterSide(e) /\ HelloOK(e) /\ ReaderSide(e)

-----------------------------------------------------------------------------
(* Contexts, events and frames.                                             *)

\* The sizes of LinkAssumption, one by one.
LEMMA Numbers ==
    /\ HeaderLen \in Nat /\ HeaderLen > 0 /\ TagLen \in Nat /\ MinRead \in Nat /\ MinRead >= HeaderLen
    /\ Slack \in Nat /\ LenMod \in Nat /\ LenMod > 0 /\ AuthLen \in 1 .. LenMod - 1 /\ Rand \in Nat
    /\ Bodies \subseteq 1 .. LenMod - 1 /\ Credits \subseteq 1 .. LenMod - 1
  BY LinkAssumption

\* CryptoContext::new makes a context of the method it is given.
LEMMA NewContextType ==
  ASSUME NEW m \in Methods, NEW x \in Nat
  PROVE  NewContext(m, x) \in Contexts /\ NewContext(m, x).m = m
  BY DEF NewContext, Contexts

\* The length of an event fits its header.
LEMMA BodyOf ==
  ASSUME NEW ctx \in Contexts, NEW ev \in Events
  PROVE  /\ BytesOfBody(ctx, ev) \in Nat /\ BodyLen(ev) \in Nat
         /\ BytesOfBody(ctx, ev) = BodyLen(ev) + (IF Sealed(ctx) /\ BodyLen(ev) > 0 THEN TagLen ELSE 0)
         /\ BytesOfBody(ctx, ev) > 0 <=> BodyLen(ev) > 0
  <1>1. ev.len \in 0 .. LenMod - 1 /\ ev.len % LenMod = ev.len
    BY Numbers DEF Events
  <1>2. CASE ev.k = "WIN_UPDATE"
    BY <1>2 DEF BytesOfBody, BodyLen
  <1>3. CASE ev.k # "WIN_UPDATE"
    <2>1. BodyLen(ev) = ev.len
      BY <1>3 DEF BodyLen
    <2>2. BytesOfBody(ctx, ev) = IF ev.len = 0 THEN 0 ELSE ev.len + (IF Sealed(ctx) THEN TagLen ELSE 0)
      BY <1>1, <1>3 DEF BytesOfBody, HeaderField
    <2> QED BY <1>1, <2>1, <2>2, Numbers DEF Sealed
  <1> QED BY <1>2, <1>3

\* encrypt makes a frame of the event and the context, and leaves a context behind.
LEMMA Encrypted ==
  ASSUME NEW ctx \in Contexts, NEW ev \in Events
  PROVE  /\ Encrypt(ctx, ev) \in Frames
         /\ Encrypt(ctx, ev).ev = ev /\ Encrypt(ctx, ev).ctx = ctx
         /\ AfterEncrypt(ctx, ev) \in Contexts
  <1>1. Encrypt(ctx, ev) \in Frames
    BY DEF Frames
  <1>2. Encrypt(ctx, ev).ev = ev /\ Encrypt(ctx, ev).ctx = ctx
    BY DEF Encrypt
  <1>3. AfterEncrypt(ctx, ev) \in Contexts
    <2>1. ctx.m \in Methods /\ ctx.h \in Nat /\ ctx.b \in Nat /\ ctx = [m |-> ctx.m, h |-> ctx.h, b |-> ctx.b]
      BY DEF Contexts
    <2>2. CASE ~Sealed(ctx)
      BY <2>2 DEF AfterEncrypt
    <2>3. CASE Sealed(ctx)
      <3>1. AfterEncrypt(ctx, ev)
              = [m |-> ctx.m, h |-> ctx.h + 1, b |-> IF BodyLen(ev) > 0 THEN ctx.b + 1 ELSE ctx.b]
        BY <2>1, <2>3 DEF AfterEncrypt
      <3>2. (IF BodyLen(ev) > 0 THEN ctx.b + 1 ELSE ctx.b) \in Nat
        BY <2>1
      <3> QED BY <2>1, <3>1, <3>2 DEF Contexts
    <2> QED BY <2>2, <2>3
  <1> QED BY <1>1, <1>2, <1>3

\* A frame is as long as its header and what decrypt expects behind it.
LEMMA FrameFacts ==
  ASSUME NEW f \in Frames
  PROVE  /\ f.ctx \in Contexts /\ f.ev \in Events /\ f.n \in Nat /\ f.n >= HeaderLen
         /\ f.n = HeaderLen + BytesOfBody(f.ctx, f.ev)
  <1>1. PICK ctx \in Contexts, ev \in Events : f = Encrypt(ctx, ev)
    BY DEF Frames
  <1>2. f.ev = ev /\ f.ctx = ctx
    BY <1>1, Encrypted
  <1>3. f.n = HeaderLen + BodyLen(ev) + (IF Sealed(ctx) /\ BodyLen(ev) > 0 THEN TagLen ELSE 0)
    BY <1>1 DEF Encrypt
  <1>4. BytesOfBody(ctx, ev) \in Nat /\ BodyLen(ev) \in Nat
        /\ BytesOfBody(ctx, ev) = BodyLen(ev) + (IF Sealed(ctx) /\ BodyLen(ev) > 0 THEN TagLen ELSE 0)
    BY BodyOf
  <1> QED BY <1>2, <1>3, <1>4, Numbers

\* decrypt moves the counters exactly as encrypt did.
LEMMA SameMove ==
  ASSUME NEW ctx \in Contexts, NEW ev \in Events
  PROVE  /\ AfterDecrypt(ctx, ev) = AfterEncrypt(ctx, ev)
         /\ AfterDecrypt(ctx, ev) \in Contexts
  <1>1. AfterDecrypt(ctx, ev) = AfterEncrypt(ctx, ev)
    BY BodyOf DEF AfterDecrypt, AfterEncrypt
  <1> QED BY <1>1, Encrypted

\* The events of a session have lengths that fit the header.
LEMMA MessageType == Messages \subseteq Events
  <1>1. 0 \in 0 .. LenMod - 1 /\ Bodies \subseteq 0 .. LenMod - 1 /\ Credits \subseteq 0 .. LenMod - 1
    BY Numbers
  <1>2. [method |-> "none", rand |-> 0] \in Auths
    BY DEF Auths
  <1> QED BY <1>1, <1>2 DEF Messages, Plain, Event, Events

\* An AUTH event fits the header, carries what was put in it and has a body.
LEMMA AuthType ==
  ASSUME NEW m \in Methods, NEW x \in Nat
  PROVE  /\ Event("AUTH", AuthLen, [method |-> m, rand |-> x]) \in Events
         /\ Event("AUTH", AuthLen, [method |-> m, rand |-> x]).auth = [method |-> m, rand |-> x]
         /\ BodyLen(Event("AUTH", AuthLen, [method |-> m, rand |-> x])) > 0
  <1>1. AuthLen \in 0 .. LenMod - 1 /\ AuthLen > 0
    BY Numbers
  <1>2. [method |-> m, rand |-> x] \in Auths
    BY DEF Auths
  <1>3. Event("AUTH", AuthLen, [method |-> m, rand |-> x]) \in Events
    BY <1>1, <1>2 DEF Event, Events
  <1> QED BY <1>1, <1>3 DEF Event, BodyLen

-----------------------------------------------------------------------------
(* Frames on the connection.                                                *)

\* Every frame on the connection has at least a header.
LEMMA CellFacts ==
  ASSUME NEW w \in Seq(Cells), NEW i \in 1 .. Len(w)
  PROVE  /\ w[i].f \in Frames /\ w[i].at \in Nat
         /\ w[i].f.n \in Nat /\ w[i].f.n >= HeaderLen /\ w[i].f.n > 0
  <1>1. w[i] \in Cells
    OBVIOUS
  <1>2. w[i].f \in Frames /\ w[i].at \in Nat
    BY <1>1 DEF Cells
  <1> QED BY <1>2, FrameFacts, Numbers

\* No frame ends behind the last, which ends where the connection does.
LEMMA TotalFacts ==
  ASSUME NEW w \in Seq(Cells), Layout(w)
  PROVE  /\ Total(w) \in Nat
         /\ \A i \in 1 .. Len(w) : w[i].at + w[i].f.n <= Total(w)
         /\ w # <<>> => Total(w) = w[Len(w)].at + w[Len(w)].f.n
         /\ w = <<>> => Total(w) = 0
  <1>1. CASE w = <<>>
    BY <1>1 DEF Total
  <1>2. CASE w # <<>>
    <2>1. Len(w) \in 1 .. Len(w) /\ Len(w) \in Nat
      BY <1>2
    <2>2. Total(w) = w[Len(w)].at + w[Len(w)].f.n
      BY <1>2 DEF Total
    <2>3. Total(w) \in Nat
      BY <2>1, <2>2, CellFacts
    <2>4. ASSUME NEW i \in 1 .. Len(w) PROVE w[i].at + w[i].f.n <= Total(w)
      <3>1. CASE i = Len(w)
        BY <2>2, <2>3, <3>1
      <3>2. CASE i < Len(w)
        <4>1. w[i].at + w[i].f.n <= w[Len(w)].at
          BY <2>1, <3>2 DEF Layout
        <4> QED BY <2>1, <2>2, <4>1, CellFacts
      <3> QED BY <2>1, <3>1, <3>2
    <2> QED BY <1>2, <2>2, <2>3, <2>4
  <1> QED BY <1>1, <1>2

\* Frames do not overlap, so that at most one starts at an offset.
LEMMA OnePlace ==
  ASSUME NEW w \in Seq(Cells), Layout(w), NEW i \in 1 .. Len(w), NEW j \in 1 .. Len(w),
         w[i].at <= w[j].at, w[j].at < w[i].at + w[i].f.n
  PROVE  i = j
  <1>1. ~(i < j)
    BY CellFacts DEF Layout
  <1>2. ~(j < i)
    <2>1. SUFFICES ASSUME j < i PROVE FALSE
      OBVIOUS
    <2>2. w[j].at + w[j].f.n <= w[i].at
      BY <2>1 DEF Layout
    <2> QED BY <2>2, CellFacts
  <1> QED BY <1>1, <1>2

\* No two frames start at one offset.
LEMMA OneFrame ==
  ASSUME NEW w \in Seq(Cells), Layout(w), NEW i \in 1 .. Len(w)
  PROVE  {x \in DOMAIN w : w[x].at = w[i].at} = {i}
  <1>1. ASSUME NEW j \in 1 .. Len(w), w[j].at = w[i].at PROVE j = i
    <2>1. w[i].at <= w[j].at /\ w[j].at < w[i].at + w[i].f.n
      BY <1>1, CellFacts
    <2> QED BY <2>1, OnePlace
  <1> QED BY <1>1

\* The first frame starts at 0, every other where the one before it ends.
LEMMA Starts ==
  ASSUME NEW w \in Seq(Cells), Layout(w)
  PROVE  /\ StartOf(w, 1) = 0
         /\ \A i \in 1 .. Len(w) : StartOf(w, i + 1) = w[i].at + w[i].f.n /\ StartOf(w, i) = w[i].at
         /\ StartOf(w, Len(w) + 1) = Total(w)
  <1>1. StartOf(w, 1) = 0
    BY DEF StartOf, Layout, Total
  <1>2. ASSUME NEW i \in 1 .. Len(w)
        PROVE  StartOf(w, i + 1) = w[i].at + w[i].f.n /\ StartOf(w, i) = w[i].at
    <2>1. CASE i < Len(w)
      BY <2>1 DEF StartOf, Layout
    <2>2. CASE i = Len(w)
      <3>1. w # <<>> /\ ~(i + 1 <= Len(w))
        BY <2>2
      <3> QED BY <2>2, <3>1, TotalFacts DEF StartOf
    <2> QED BY <2>1, <2>2
  <1>3. StartOf(w, Len(w) + 1) = Total(w)
    BY DEF StartOf
  <1> QED BY <1>1, <1>2, <1>3

\* v is w with a frame written behind it.
Added(w, f, v) == v = Append(w, [f |-> f, at |-> Total(w)])

\* A frame added behind the others keeps the layout and lengthens it by its bytes.
LEMMA Laid ==
  ASSUME NEW w \in Seq(Cells), Layout(w), NEW f \in Frames, NEW v, Added(w, f, v)
  PROVE  /\ v \in Seq(Cells) /\ Len(v) = Len(w) + 1 /\ Layout(v) /\ Total(v) = Total(w) + f.n
         /\ \A i \in 1 .. Len(w) : v[i] = w[i]
         /\ v[Len(w) + 1].f = f /\ v[Len(w) + 1].at = Total(w)
  <1>0. v = Append(w, [f |-> f, at |-> Total(w)])
    BY DEF Added
  <1>1. [f |-> f, at |-> Total(w)] \in Cells
    BY TotalFacts DEF Cells
  <1>2. v \in Seq(Cells) /\ Len(v) = Len(w) + 1 /\ Len(w) \in Nat
    BY <1>0, <1>1
  <1>3. \A i \in 1 .. Len(w) : v[i] = w[i]
    BY <1>0
  <1>4. v[Len(w) + 1] = [f |-> f, at |-> Total(w)]
    BY <1>0
  <1>5. v[Len(w) + 1].f = f /\ v[Len(w) + 1].at = Total(w)
    BY <1>4
  <1>6. v # <<>> => v[1].at = 0
    <2>1. CASE w = <<>>
      <3>1. Len(w) = 0 /\ Total(w) = 0
        BY <2>1, TotalFacts
      <3> QED BY <1>5, <3>1
    <2>2. CASE w # <<>>
      BY <1>3, <2>2 DEF Layout
    <2> QED BY <2>1, <2>2
  <1>7. ASSUME NEW i \in 1 .. Len(v), i < Len(v) PROVE v[i + 1].at = v[i].at + v[i].f.n
    <2>1. i \in 1 .. Len(w) /\ v[i] = w[i]
      BY <1>2, <1>3, <1>7
    <2>2. CASE i < Len(w)
      <3>1. i + 1 \in 1 .. Len(w) /\ v[i + 1] = w[i + 1]
        BY <1>2, <1>3, <2>1, <2>2
      <3> QED BY <2>1, <2>2, <3>1 DEF Layout
    <2>3. CASE i = Len(w)
      BY <1>5, <2>1, <2>3, TotalFacts
    <2> QED BY <1>2, <2>1, <2>2, <2>3
  <1>8. ASSUME NEW i \in 1 .. Len(v), NEW j \in 1 .. Len(v), i < j PROVE v[i].at + v[i].f.n <= v[j].at
    <2>1. i \in 1 .. Len(w) /\ v[i] = w[i]
      BY <1>2, <1>3, <1>8
    <2>2. CASE j \in 1 .. Len(w)
      <3>1. v[j] = w[j]
        BY <1>3, <2>2
      <3> QED BY <1>8, <2>1, <2>2, <3>1 DEF Layout
    <2>3. CASE j = Len(w) + 1
      BY <1>5, <2>1, <2>3, TotalFacts
    <2> QED BY <1>2, <2>2, <2>3
  <1>9. Total(v) = Total(w) + f.n
    <2>1. v # <<>>
      BY <1>2
    <2> QED BY <1>2, <1>5, <2>1 DEF Total
  <1> QED BY <1>2, <1>3, <1>5, <1>6, <1>7, <1>8, <1>9 DEF Layout

-----------------------------------------------------------------------------
(* decrypt, on a buffer that holds the bytes from u to g of w.              *)

Decode1(ctx, f, have) ==
    LET n == HeaderLen + BytesOfBody(ctx, f.ev)
    IN IF have < n THEN Outcome("more", n - have, NoEvent)
       ELSE IF n > HeaderLen /\ ~BodyOpens(ctx, f) THEN Outcome("error", 0, NoEvent)
       ELSE Outcome("event", n, f.ev)

DecryptOf(w, ctx, u, g) ==
    LET at == {i \in DOMAIN w : w[i].at = u}
    IN IF g - u < HeaderLen THEN Outcome("more", HeaderLen - (g - u), NoEvent)
       ELSE IF \A i \in at : ~HeaderReadable(ctx, w[i].f) THEN Outcome("noise", 0, NoEvent)
       ELSE Decode1(ctx, w[CHOOSE i \in at : TRUE].f, g - u)

\* Decrypt looks at the incoming frames, the context and the two offsets only.
LEMMA DecryptIs ==
  ASSUME NEW e \in Ends
  PROVE  /\ Decrypt(e) = DecryptOf(Incoming(e), rctx[e], used[e], got[e])
         /\ Decrypt(e)' = DecryptOf(Incoming(e)', rctx'[e], used'[e], got'[e])
  BY DEF Decrypt, DecryptOf, Decode1, FramesAt

\* The parts of an outcome are those it was made of.
LEMMA OutcomeFields ==
  ASSUME NEW r, NEW n, NEW ev
  PROVE  Outcome(r, n, ev).r = r /\ Outcome(r, n, ev).n = n /\ Outcome(r, n, ev).ev = ev
  BY DEF Outcome

\* Less than a header.
LEMMA DecryptShort ==
  ASSUME NEW w \in Seq(Cells), NEW ctx \in Contexts, NEW u \in Nat, NEW g \in Nat, g - u < HeaderLen
  PROVE  DecryptOf(w, ctx, u, g).r = "more" /\ DecryptOf(w, ctx, u, g).n = HeaderLen - (g - u)
  BY OutcomeFields DEF DecryptOf

\* A header, at the start of a frame.
LEMMA DecryptAt ==
  ASSUME NEW w \in Seq(Cells), Layout(w), NEW ctx \in Contexts, NEW u \in Nat, NEW g \in Nat,
         ~(g - u < HeaderLen), NEW i \in 1 .. Len(w), w[i].at = u
  PROVE  DecryptOf(w, ctx, u, g)
           = IF HeaderReadable(ctx, w[i].f) THEN Decode1(ctx, w[i].f, g - u) ELSE Outcome("noise", 0, NoEvent)
  <1>1. {x \in DOMAIN w : w[x].at = u} = {i}
    BY OneFrame
  <1>2. (CHOOSE x \in {i} : TRUE) = i
    OBVIOUS
  <1> QED BY <1>1, <1>2 DEF DecryptOf

\* A header, at no frame's start.
LEMMA DecryptLost ==
  ASSUME NEW w \in Seq(Cells), NEW ctx \in Contexts, NEW u \in Nat, NEW g \in Nat,
         ~(g - u < HeaderLen), \A i \in 1 .. Len(w) : w[i].at # u
  PROVE  DecryptOf(w, ctx, u, g) = Outcome("noise", 0, NoEvent)
  <1>1. {x \in DOMAIN w : w[x].at = u} = {}
    OBVIOUS
  <1> QED BY <1>1 DEF DecryptOf

\* The outcome d is the event of a whole frame at u, sealed by the same method.
Found(w, ctx, u, g, d) ==
    \E i \in 1 .. Len(w) :
       /\ w[i].at = u /\ d.ev = w[i].f.ev /\ d.ev \in Events
       /\ d.n = HeaderLen + BytesOfBody(ctx, w[i].f.ev)
       /\ u + d.n <= g
       /\ BodyLen(w[i].f.ev) > 0 => ctx.m = w[i].f.ctx.m

\* What the outcome says: an event is one that lies at u, whole, was sealed by
\* the same method and is no longer than what was read.
LEMMA DecryptFacts ==
  ASSUME NEW w \in Seq(Cells), Layout(w), NEW ctx \in Contexts, NEW u \in Nat, NEW g \in Nat,
         NEW d, d = DecryptOf(w, ctx, u, g)
  PROVE  /\ d.n \in Nat
         /\ d.r = "event" => Found(w, ctx, u, g, d)
  <1>1. CASE g - u < HeaderLen
    <2>1. d.r = "more" /\ d.n = HeaderLen - (g - u)
      BY <1>1, DecryptShort
    <2> QED BY <1>1, <2>1, Numbers
  <1>2. CASE ~(g - u < HeaderLen) /\ \A i \in 1 .. Len(w) : w[i].at # u
    <2>1. d = Outcome("noise", 0, NoEvent)
      BY <1>2, DecryptLost
    <2> QED BY <2>1, OutcomeFields
  <1>3. ASSUME ~(g - u < HeaderLen), NEW i \in 1 .. Len(w), w[i].at = u
        PROVE  /\ d.n \in Nat
               /\ d.r = "event" =>
                    /\ d.ev = w[i].f.ev /\ d.ev \in Events
                    /\ d.n = HeaderLen + BytesOfBody(ctx, w[i].f.ev)
                    /\ u + d.n <= g
                    /\ BodyLen(w[i].f.ev) > 0 => ctx.m = w[i].f.ctx.m
    <2> DEFINE f == w[i].f
               n == HeaderLen + BytesOfBody(ctx, f.ev)
    <2>1. f \in Frames /\ f.ev \in Events
      BY CellFacts, FrameFacts
    <2>2. n \in Nat /\ (BodyLen(f.ev) > 0 => n > HeaderLen)
      BY <2>1, BodyOf, Numbers
    <2>3. d = IF HeaderReadable(ctx, f) THEN Decode1(ctx, f, g - u) ELSE Outcome("noise", 0, NoEvent)
      BY <1>3, DecryptAt
    <2>4. CASE ~HeaderReadable(ctx, f)
      <3>1. d = Outcome("noise", 0, NoEvent)
        BY <2>3, <2>4
      <3> QED BY <3>1, OutcomeFields
    <2>5. CASE HeaderReadable(ctx, f)
      <3>1. d = Decode1(ctx, f, g - u)
        BY <2>3, <2>5
      <3>2. CASE g - u < n
        <4>1. d = Outcome("more", n - (g - u), NoEvent)
          BY <3>1, <3>2 DEF Decode1
        <4>2. d.r = "more" /\ d.n = n - (g - u)
          BY <4>1, OutcomeFields
        <4> QED BY <2>2, <3>2, <4>2
      <3>3. CASE ~(g - u < n) /\ n > HeaderLen /\ ~BodyOpens(ctx, f)
        <4>1. d = Outcome("error", 0, NoEvent)
          BY <3>1, <3>3 DEF Decode1
        <4> QED BY <4>1, OutcomeFields
      <3>4. CASE ~(g - u < n) /\ ~(n > HeaderLen /\ ~BodyOpens(ctx, f))
        <4>1. d = Outcome("event", n, f.ev)
          BY <3>1, <3>4 DEF Decode1
        <4>2. d.r = "event" /\ d.n = n /\ d.ev = f.ev
          BY <4>1, OutcomeFields
        <4>3. BodyLen(f.ev) > 0 => ctx.m = f.ctx.m
          BY <2>2, <3>4 DEF BodyOpens
        <4> QED BY <2>1, <2>2, <3>4, <4>2, <4>3
      <3> QED BY <3>2, <3>3, <3>4
    <2> QED BY <2>4, <2>5
  <1> QED BY <1>1, <1>2, <1>3 DEF Found

\* A reader at the start of a frame, with its context.
LEMMA DecryptInStep ==
  ASSUME NEW w \in Seq(Cells), Layout(w), NEW ctx \in Contexts, NEW u \in Nat, NEW g \in Nat,
         NEW i \in 1 .. Len(w), w[i].at = u, w[i].f.ctx = ctx,
         NEW d, d = DecryptOf(w, ctx, u, g)
  PROVE  /\ d.r = "more" \/ d.r = "event"
         /\ d.r = "more" => d.n = (IF g - u < HeaderLen THEN HeaderLen ELSE w[i].f.n) - (g - u)
         /\ d.r = "event" => d.n = w[i].f.n /\ d.ev = w[i].f.ev /\ u + d.n <= g
  <1> DEFINE f == w[i].f
  <1>1. f \in Frames /\ f.n = HeaderLen + BytesOfBody(ctx, f.ev) /\ f.n \in Nat
    BY CellFacts, FrameFacts
  <1>2. HeaderReadable(ctx, f) /\ BodyOpens(ctx, f)
    BY DEF HeaderReadable, BodyOpens
  <1>3. CASE g - u < HeaderLen
    BY <1>3, DecryptShort
  <1>4. CASE ~(g - u < HeaderLen)
    <2>1. d = Decode1(ctx, f, g - u)
      BY <1>2, <1>4, DecryptAt
    <2>2. CASE g - u < f.n
      <3>1. d = Outcome("more", f.n - (g - u), NoEvent)
        BY <1>1, <2>1, <2>2 DEF Decode1
      <3> QED BY <1>4, <3>1, OutcomeFields
    <2>3. CASE ~(g - u < f.n)
      <3>1. d = Outcome("event", f.n, f.ev)
        BY <1>1, <1>2, <2>1, <2>3 DEF Decode1
      <3> QED BY <1>1, <2>3, <3>1, OutcomeFields
    <2> QED BY <2>2, <2>3
  <1> QED BY <1>3, <1>4

\* Nothing left to read but what is there: frames added behind it change nothing.
LEMMA DecryptGrows ==
  ASSUME NEW w \in Seq(Cells), Layout(w), NEW ctx \in Contexts, NEW u \in Nat, NEW g \in Nat,
         u <= g, g <= Total(w), NEW f \in Frames, NEW v, Added(w, f, v)
  PROVE  DecryptOf(v, ctx, u, g) = DecryptOf(w, ctx, u, g)
  <1>0. /\ v \in Seq(Cells) /\ Len(v) = Len(w) + 1 /\ Layout(v)
        /\ \A i \in 1 .. Len(w) : v[i] = w[i]
        /\ v[Len(w) + 1].at = Total(w)
    BY Laid
  <1>1. CASE g - u < HeaderLen
    BY <1>1 DEF DecryptOf
  <1>2. ASSUME ~(g - u < HeaderLen), NEW i \in 1 .. Len(w), w[i].at = u
        PROVE  DecryptOf(v, ctx, u, g) = DecryptOf(w, ctx, u, g)
    <2>1. i \in 1 .. Len(v) /\ v[i] = w[i]
      BY <1>0
    <2> DEFINE d == IF HeaderReadable(ctx, w[i].f) THEN Decode1(ctx, w[i].f, g - u) ELSE Outcome("noise", 0, NoEvent)
    <2>2. DecryptOf(w, ctx, u, g) = d
      BY <1>2, DecryptAt
    <2>3. v[i].at = u /\ v \in Seq(Cells) /\ Layout(v)
      BY <1>0, <1>2, <2>1
    <2>4. DecryptOf(v, ctx, u, g)
            = IF HeaderReadable(ctx, v[i].f) THEN Decode1(ctx, v[i].f, g - u) ELSE Outcome("noise", 0, NoEvent)
      BY <1>2, <2>1, <2>3, DecryptAt
    <2> QED BY <2>1, <2>2, <2>4
  <1>3. CASE ~(g - u < HeaderLen) /\ \A i \in 1 .. Len(w) : w[i].at # u
    <2>1. u < Total(w)
      BY <1>3, Numbers, TotalFacts
    <2>2. \A i \in 1 .. Len(v) : v[i].at # u
      BY <1>0, <1>3, <2>1
    <2>3. DecryptOf(w, ctx, u, g) = Outcome("noise", 0, NoEvent)
      BY <1>3, DecryptLost
    <2>4. v \in Seq(Cells) /\ ~(g - u < HeaderLen)
      BY <1>0, <1>3
    <2>5. DecryptOf(v, ctx, u, g) = Outcome("noise", 0, NoEvent)
      BY <2>2, <2>4, DecryptLost
    <2> QED BY <2>3, <2>5
  <1> QED BY <1>1, <1>2, <1>3

-----------------------------------------------------------------------------
(* One end as a writer.                                                     *)

\* There are two ends, each the other of the other.
LEMMA OtherEnd ==
  ASSUME NEW e \in Ends
  PROVE  /\ Other(e) \in Ends /\ Other(e) # e /\ Other(Other(e)) = e
         /\ \A x \in Ends : x = e \/ x = Other(e)
  BY DEF Ends, Other

\* TypesInv for one end.
LEMMA EndTypes ==
  ASSUME TypesInv, NEW e \in Ends
  PROVE  /\ method[e] \in Methods /\ phase[e] \in Phases /\ wctx[e] \in Contexts /\ rctx[e] \in Contexts
         /\ outq[e] \in Seq(Frames) /\ wire[e] \in Seq(Cells) /\ twice[e] \in BOOLEAN
         /\ got[e] \in Nat /\ used[e] \in Nat /\ rest[e] \in Nat /\ need[e] \in Nat
         /\ sent[e] \in Seq(Events) /\ delivered[e] \in Seq(Events)
         /\ Incoming(e) \in Seq(Cells)
  <1>1. Other(e) \in Ends
    BY OtherEnd
  <1> QED BY <1>1 DEF TypesInv, Counters, Incoming

\* Lengths are natural numbers.
LEMMA LengthsAdd ==
  ASSUME NEW S, NEW T, NEW p \in Seq(S), NEW q \in Seq(T)
  PROVE  Len(p) \in Nat /\ Len(q) \in Nat /\ Len(p) + Len(q) \in Nat
  OBVIOUS

\* An end has made as many frames as it has written and still to write.
LEMMA CountType ==
  ASSUME TypesInv, NEW o \in Ends
  PROVE  /\ Len(wire[o]) \in Nat /\ Len(outq[o]) \in Nat /\ Count(o) \in Nat
         /\ Count(o) = Len(wire[o]) + Len(outq[o])
         /\ Count(o) = 0 <=> wire[o] = <<>> /\ outq[o] = <<>>
         /\ wire[o] # <<>> \/ outq[o] # <<>> => Count(o) > 0
         /\ Len(wire[o]) <= Count(o)
  <1>1. wire[o] \in Seq(Cells) /\ outq[o] \in Seq(Frames)
    BY EndTypes
  <1>2. Count(o) = Len(wire[o]) + Len(outq[o])
    BY DEF Count
  <1>3. Len(wire[o]) \in Nat /\ Len(outq[o]) \in Nat /\ Count(o) \in Nat
    BY <1>1, <1>2, LengthsAdd, Zenon
  <1>4. (wire[o] = <<>> <=> Len(wire[o]) = 0) /\ (outq[o] = <<>> <=> Len(outq[o]) = 0)
    BY <1>1
  <1> DEFINE a == Len(wire[o])
             b == Len(outq[o])
             n == Count(o)
  <1>5. a \in Nat /\ b \in Nat /\ n = a + b
    BY <1>2, <1>3
  <1> HIDE DEF a, b, n
  <1>6. (n = 0 <=> a = 0 /\ b = 0) /\ a <= n /\ (a # 0 \/ b # 0 => n > 0)
    BY <1>5
  <1> QED BY <1>2, <1>3, <1>4, <1>6 DEF a, b, n

SameConfig == transport' = transport /\ method' = method
WriterSame(o) ==
    /\ wire'[o] = wire[o] /\ outq'[o] = outq[o] /\ wctx'[o] = wctx[o]
    /\ sent'[o] = sent[o] /\ twice'[o] = twice[o]
ReaderSame(e) ==
    /\ got'[e] = got[e] /\ used'[e] = used[e] /\ rest'[e] = rest[e] /\ need'[e] = need[e]
    /\ rctx'[e] = rctx[e] /\ delivered'[e] = delivered[e]

\* What a reader of o relies on: o only adds to the connection, and the contexts
\* behind the frames that are there stay what they are.
Followed(o) ==
    /\ wire'[o] = wire[o] \/ \E f \in Frames : Added(wire[o], f, wire'[o])
    /\ ~twice'[o] =>
         ~twice[o] /\ \A i \in 2 .. Len(wire[o]) : NextContext(o, i)' = NextContext(o, i)

\* Frame, NextContext and Count as the sequences determine them.
LEMMA FrameIs ==
  ASSUME NEW o \in Ends
  PROVE  /\ Count(o)' = Len(wire'[o]) + Len(outq'[o])
         /\ \A i : Frame(o, i)' = IF i <= Len(wire'[o]) THEN wire'[o][i].f ELSE outq'[o][i - Len(wire'[o])]
         /\ \A i : NextContext(o, i)' = IF i < Count(o)' THEN Frame(o, i + 1)'.ctx ELSE wctx'[o]
  BY DEF Count, Frame, NextContext

\* Chain, from frames and contexts that stay.
LEMMA ChainStays ==
  ASSUME NEW o \in Ends, Chain(o), SameConfig, sent'[o] = sent[o],
         phase'[o] = phase[o] \/ phase'[o] # "session",
         Count(o)' = Count(o), Count(o) \in Nat,
         \A i \in 1 .. Count(o) : Frame(o, i)' = Frame(o, i),
         \A i \in 1 .. Count(o) : NextContext(o, i)' = NextContext(o, i),
         phase[o] = "session" => Count(o) > 0
  PROVE  Chain(o)'
  <1>1. SessionContext' = SessionContext
    BY DEF SameConfig, SessionContext
  <1>2. Count(o)' > 0 => Count(o)' = 1 + Len(sent'[o])
    BY DEF Chain
  <1>3. ASSUME NEW i \in 2 .. Count(o)'
        PROVE  /\ Frame(o, i)'.ev = sent'[o][i - 1]
               /\ NextContext(o, i)' = AfterEncrypt(Frame(o, i)'.ctx, Frame(o, i)'.ev)
    <2>1. i \in 1 .. Count(o) /\ i \in 2 .. Count(o)
      OBVIOUS
    <2>2. Frame(o, i)' = Frame(o, i) /\ NextContext(o, i)' = NextContext(o, i)
      BY <2>1
    <2> QED BY <2>1, <2>2 DEF Chain
  <1>4. Count(o)' >= 2 \/ phase'[o] = "session" => NextContext(o, 1)' = SessionContext'
    <2>1. SUFFICES ASSUME Count(o) >= 2 \/ phase[o] = "session"
                   PROVE  NextContext(o, 1)' = SessionContext
      BY <1>1
    <2>2. 1 \in 1 .. Count(o)
      BY <2>1
    <2> QED BY <2>1, <2>2 DEF Chain
  <1> QED BY <1>2, <1>3, <1>4 DEF Chain

\* An end that writes, sends and switches nothing keeps its frames as they are.
LEMMA WriterKept ==
  ASSUME TypesInv, NEW o \in Ends, WriterSide(o), HelloOK(o), WriterSame(o), SameConfig,
         phase'[o] = phase[o] \/ phase'[o] # "session"
  PROVE  WriterSide(o)' /\ Followed(o)
  <1>1. Count(o)' = Count(o) /\ Count(o) \in Nat
    BY CountType DEF WriterSame, Count
  <1>2. \A i : Frame(o, i)' = Frame(o, i)
    BY DEF WriterSame, Frame
  <1>3. \A i : NextContext(o, i)' = NextContext(o, i)
    BY <1>1, <1>2 DEF WriterSame, NextContext
  <1>4. Layout(wire[o])'
    BY DEF WriterSide, WriterSame
  <1>5. phase[o] = "session" => Count(o) > 0
    <2>1. phase[o] = "session" => wire[o] # <<>> \/ outq[o] # <<>>
      BY DEF HelloOK, Silent, Over
    <2>2. SUFFICES ASSUME phase[o] = "session" PROVE Count(o) # 0
      BY <1>1
    <2> QED BY <2>1, <2>2, CountType
  <1>6. ~twice'[o] => Chain(o)'
    BY <1>1, <1>2, <1>3, <1>5, ChainStays DEF WriterSide, WriterSame
  <1> QED BY <1>3, <1>4, <1>6 DEF WriterSide, Followed, WriterSame

\* An event is encrypted and queued.
LEMMA WriterSends ==
  ASSUME TypesInv, NEW o \in Ends, WriterSide(o), SameConfig, NEW ev \in Events,
         wire'[o] = wire[o], twice'[o] = twice[o],
         outq'[o] = Append(outq[o], Encrypt(wctx[o], ev)), wctx'[o] = AfterEncrypt(wctx[o], ev),
         \/ Count(o) = 0 /\ sent'[o] = <<>> /\ phase'[o] # "session"
         \/ Count(o) > 0 /\ sent'[o] = Append(sent[o], ev) /\ phase[o] = "session"
  PROVE  WriterSide(o)' /\ Followed(o)
  <1> DEFINE f == Encrypt(wctx[o], ev)
             n == Count(o)
             a == Len(wire[o])
             b == Len(outq[o])
  <1>0. /\ outq[o] \in Seq(Frames) /\ sent[o] \in Seq(Events)
        /\ f \in Frames /\ f.ev = ev /\ f.ctx = wctx[o]
    BY EndTypes, Encrypted
  <1>a. a \in Nat /\ b \in Nat /\ n \in Nat /\ n = a + b
    BY CountType
  <1>b. Len(outq'[o]) = b + 1 /\ Len(wire'[o]) = a
    BY <1>0
  <1>c. Count(o)' = Len(wire'[o]) + Len(outq'[o])
    BY FrameIs
  <1> HIDE DEF n, a, b
  <1>e. n + 1 \in Nat
    BY <1>a
  <1>d. PICK m \in Nat : m = n + 1
    BY <1>e
  <1>1. Count(o)' = m
    BY <1>a, <1>b, <1>c, <1>d
  <1>2. ASSUME NEW i \in 1 .. n PROVE Frame(o, i)' = Frame(o, i)
    <2>1. CASE i <= a
      BY <2>1, FrameIs DEF Frame, a
    <2>2. CASE ~(i <= a)
      <3>1. i - a \in 1 .. b
        BY <1>a, <2>2
      <3>2. outq'[o][i - a] = outq[o][i - a]
        BY <1>0, <3>1 DEF b
      <3> QED BY <2>2, <3>2, FrameIs DEF Frame, a
    <2> QED BY <2>1, <2>2
  <1>3. Frame(o, m)' = f
    <2>1. ~(m <= a) /\ m - a = b + 1
      BY <1>a, <1>d
    <2>2. outq'[o][b + 1] = f
      BY <1>0 DEF b
    <2>3. Frame(o, m)' = IF m <= a THEN wire'[o][m].f ELSE outq'[o][m - a]
      BY <1>b, FrameIs
    <2> QED BY <2>1, <2>2, <2>3
  <1> HIDE DEF f
  <1>4. ASSUME NEW i \in 1 .. n PROVE NextContext(o, i)' = NextContext(o, i)
    <2>0. i < Count(o)'
      BY <1>a, <1>d, <1>1
    <2>1. NextContext(o, i)' = Frame(o, i + 1)'.ctx
      BY <2>0, FrameIs
    <2>2. CASE i < n
      <3>1. i + 1 \in 1 .. n
        BY <1>a, <2>2
      <3>2. Frame(o, i + 1)' = Frame(o, i + 1)
        BY <1>2, <3>1
      <3> QED BY <2>1, <2>2, <3>2 DEF NextContext, n
    <2>3. CASE i = n
      <3>1. NextContext(o, i) = wctx[o]
        BY <1>a, <2>3 DEF NextContext, n
      <3>2. i + 1 = m
        BY <1>d, <2>3
      <3> QED BY <1>0, <1>3, <2>1, <3>1, <3>2
    <2> QED BY <1>a, <2>2, <2>3
  <1>5. NextContext(o, m)' = AfterEncrypt(f.ctx, f.ev)
    <2>1. ~(m < Count(o)')
      BY <1>a, <1>d, <1>1
    <2>2. NextContext(o, m)' = wctx'[o]
      BY <2>1, FrameIs
    <2> QED BY <1>0, <2>2
  <1>6. ASSUME ~twice[o] PROVE Chain(o)'
    <2>0. Chain(o)
      BY <1>6 DEF WriterSide
    <2>1. SessionContext' = SessionContext
      BY DEF SameConfig, SessionContext
    <2>2. CASE n = 0 /\ sent'[o] = <<>> /\ phase'[o] # "session"
      <3>1. Len(sent'[o]) = 0
        BY <2>2
      <3>2. Count(o)' = 1
        BY <1>d, <1>1, <2>2
      <3> QED BY <2>2, <3>1, <3>2 DEF Chain
    <2>3. CASE n > 0 /\ sent'[o] = Append(sent[o], ev) /\ phase[o] = "session"
      <3>1. n = 1 + Len(sent[o])
        BY <2>0, <2>3 DEF Chain, n
      <3>2. Count(o)' = 1 + Len(sent'[o])
        <4>1. Len(sent'[o]) = Len(sent[o]) + 1 /\ Len(sent[o]) \in Nat
          BY <1>0, <2>3
        <4> QED BY <1>d, <1>1, <3>1, <4>1
      <3>3. ASSUME NEW i \in 2 .. Count(o)'
            PROVE  /\ Frame(o, i)'.ev = sent'[o][i - 1]
                   /\ NextContext(o, i)' = AfterEncrypt(Frame(o, i)'.ctx, Frame(o, i)'.ev)
        <4>1. CASE i <= n
          <5>1. i \in 1 .. n /\ i \in 2 .. n /\ i - 1 \in 1 .. Len(sent[o])
            BY <1>a, <3>1, <4>1
          <5>2. sent'[o][i - 1] = sent[o][i - 1]
            BY <1>0, <2>3, <5>1
          <5>3. Frame(o, i)' = Frame(o, i) /\ NextContext(o, i)' = NextContext(o, i)
            BY <1>2, <1>4, <5>1
          <5> QED BY <2>0, <5>1, <5>2, <5>3 DEF Chain, n
        <4>2. CASE i = m
          <5>1. i - 1 = Len(sent[o]) + 1
            BY <1>a, <1>d, <3>1, <4>2
          <5>2. sent'[o][i - 1] = ev
            BY <1>0, <2>3, <5>1
          <5>3. Frame(o, i)' = f /\ NextContext(o, i)' = AfterEncrypt(f.ctx, f.ev)
            BY <1>3, <1>5, <4>2
          <5> QED BY <1>0, <5>2, <5>3
        <4> QED BY <1>a, <1>d, <1>1, <4>1, <4>2
      <3>4. NextContext(o, 1)' = SessionContext'
        <4>1. 1 \in 1 .. n
          BY <1>a, <2>3
        <4> QED BY <1>4, <2>0, <2>1, <2>3, <4>1 DEF Chain
      <3> QED BY <3>2, <3>3, <3>4 DEF Chain
    <2> QED BY <2>2, <2>3 DEF n
  <1>7. ASSUME NEW i \in 2 .. a PROVE NextContext(o, i)' = NextContext(o, i)
    <2>1. i \in 1 .. n
      BY <1>a
    <2> QED BY <1>4, <2>1
  <1> QED BY <1>6, <1>7 DEF WriterSide, Followed, a

\* The first queued frame goes out.
LEMMA WriterWrites ==
  ASSUME TypesInv, NEW o \in Ends, WriterSide(o), SameConfig, outq[o] # <<>>,
         Added(wire[o], Head(outq[o]), wire'[o]), outq'[o] = Tail(outq[o]), wctx'[o] = wctx[o],
         twice'[o] = twice[o], sent'[o] = sent[o], phase'[o] = phase[o]
  PROVE  WriterSide(o)' /\ Followed(o)
  <1> DEFINE n == Count(o)
             a == Len(wire[o])
             b == Len(outq[o])
  <1>0. /\ wire[o] \in Seq(Cells) /\ outq[o] \in Seq(Frames) /\ Head(outq[o]) \in Frames
        /\ Len(outq[o]) > 0 /\ Layout(wire[o])
    BY EndTypes DEF WriterSide
  <1>a. a \in Nat /\ b \in Nat /\ n \in Nat /\ n = a + b /\ b > 0
    BY <1>0, CountType
  <1>1. /\ wire'[o] \in Seq(Cells) /\ Len(wire'[o]) = Len(wire[o]) + 1 /\ Layout(wire'[o])
        /\ \A i \in 1 .. Len(wire[o]) : wire'[o][i] = wire[o][i]
        /\ wire'[o][Len(wire[o]) + 1].f = Head(outq[o])
    BY <1>0, Laid
  <1>2. /\ Len(outq'[o]) = Len(outq[o]) - 1
        /\ \A j \in 1 .. Len(outq[o]) - 1 : outq'[o][j] = outq[o][j + 1]
        /\ Head(outq[o]) = outq[o][1]
    BY <1>0
  <1>b. Count(o)' = Len(wire'[o]) + Len(outq'[o])
    BY FrameIs
  <1> HIDE DEF n, a, b
  <1>3. Count(o)' = n
    <2>1. Len(wire'[o]) = a + 1 /\ Len(outq'[o]) = b - 1
      BY <1>1, <1>2 DEF a, b
    <2> HIDE DEF a, b, n
    <2>2. \A x, y \in Nat : (x + 1) + (y - 1) = x + y
      OBVIOUS
    <2> QED BY <1>a, <1>b, <2>1, <2>2
  <1>4. ASSUME NEW i \in 1 .. n PROVE Frame(o, i)' = Frame(o, i)
    <2>0. /\ Frame(o, i) = IF i <= a THEN wire[o][i].f ELSE outq[o][i - a]
          /\ Frame(o, i)' = IF i <= a + 1 THEN wire'[o][i].f ELSE outq'[o][i - (a + 1)]
      BY <1>1, FrameIs DEF Frame, a
    <2>1. CASE i <= a
      <3>1. i \in 1 .. a /\ i <= a + 1
        BY <1>a, <2>1
      <3>2. wire'[o][i] = wire[o][i]
        BY <1>1, <3>1 DEF a
      <3> QED BY <2>0, <2>1, <3>1, <3>2
    <2>2. CASE i = a + 1
      <3>1. i <= a + 1 /\ ~(i <= a) /\ i - a = 1
        BY <1>a, <2>2
      <3>2. wire'[o][i].f = outq[o][1]
        BY <1>1, <1>2, <2>2 DEF a
      <3> QED BY <2>0, <3>1, <3>2
    <2>3. CASE i > a + 1
      <3> DEFINE j == i - (a + 1)
      <3>1. ~(i <= a + 1) /\ ~(i <= a) /\ j \in 1 .. b - 1 /\ j + 1 = i - a
        BY <1>a, <2>3
      <3>2. outq'[o][j] = outq[o][j + 1]
        BY <1>2, <3>1 DEF b
      <3> QED BY <2>0, <3>1, <3>2
    <2> QED BY <1>a, <2>1, <2>2, <2>3
  <1>5. ASSUME NEW i \in 1 .. n PROVE NextContext(o, i)' = NextContext(o, i)
    <2>0. /\ NextContext(o, i) = IF i < n THEN Frame(o, i + 1).ctx ELSE wctx[o]
          /\ NextContext(o, i)' = IF i < n THEN Frame(o, i + 1)'.ctx ELSE wctx'[o]
      BY <1>3, FrameIs DEF NextContext, n
    <2>1. CASE i < n
      <3>1. i + 1 \in 1 .. n
        BY <1>a, <2>1
      <3>2. Frame(o, i + 1)' = Frame(o, i + 1)
        BY <1>4, <3>1
      <3> QED BY <2>0, <2>1, <3>2
    <2>2. CASE ~(i < n)
      BY <2>0, <2>2
    <2> QED BY <2>1, <2>2
  <1>6. ASSUME ~twice[o] PROVE Chain(o)'
    <2>1. Chain(o) /\ n > 0
      BY <1>a, <1>6 DEF WriterSide
    <2> QED BY <1>a, <1>3, <1>4, <1>5, <2>1, ChainStays DEF n
  <1>7. ASSUME NEW i \in 2 .. a PROVE NextContext(o, i)' = NextContext(o, i)
    <2>1. i \in 1 .. n
      BY <1>a
    <2> QED BY <1>5, <2>1
  <1> QED BY <1>0, <1>1, <1>6, <1>7 DEF WriterSide, Followed, a

\* It goes out and stays queued: the layout is kept, the chain is not.
LEMMA WriterRepeats ==
  ASSUME TypesInv, NEW o \in Ends, WriterSide(o), outq[o] # <<>>,
         Added(wire[o], Head(outq[o]), wire'[o]), twice'[o]
  PROVE  WriterSide(o)' /\ Followed(o)
  <1>0. wire[o] \in Seq(Cells) /\ Head(outq[o]) \in Frames /\ Layout(wire[o])
    BY EndTypes DEF WriterSide
  <1>1. Layout(wire'[o])
    BY <1>0, Laid
  <1> QED BY <1>0, <1>1 DEF WriterSide, Followed

\* The context of the session takes the place of the first one.
LEMMA WriterTurns ==
  ASSUME TypesInv, NEW o \in Ends, WriterSide(o), SameConfig, Count(o) > 0, sent[o] = <<>>,
         wire'[o] = wire[o], outq'[o] = outq[o], sent'[o] = sent[o], twice'[o] = twice[o],
         wctx'[o] = SessionContext
  PROVE  WriterSide(o)' /\ Followed(o)
  <1>0. wire[o] \in Seq(Cells) /\ outq[o] \in Seq(Frames) /\ Len(sent[o]) = 0
    BY EndTypes
  <1>1. Count(o)' = Count(o)
    BY DEF Count
  <1>2. ASSUME ~twice[o]
        PROVE  Chain(o)' /\ Len(wire[o]) <= 1
    <2>1. Count(o) = 1
      BY <1>0, <1>2 DEF WriterSide, Chain
    <2>2. NextContext(o, 1)' = wctx'[o]
      <3>1. ~(1 < Count(o)')
        BY <1>1, <2>1
      <3> QED BY <3>1, FrameIs
    <2>3. SessionContext' = SessionContext
      BY DEF SameConfig, SessionContext
    <2>4. Count(o)' = 1 + Len(sent'[o])
      BY <1>0, <1>1, <2>1
    <2>5. Len(wire[o]) <= 1
      <3>1. Len(wire[o]) <= Count(o)
        BY CountType
      <3> QED BY <2>1, <3>1
    <2> QED BY <1>1, <2>1, <2>2, <2>3, <2>4, <2>5 DEF Chain
  <1>3. Layout(wire[o])'
    BY DEF WriterSide
  <1>4. ~twice[o] => \A i \in 2 .. Len(wire[o]) : NextContext(o, i)' = NextContext(o, i)
    BY <1>0, <1>2
  <1> QED BY <1>2, <1>3, <1>4 DEF WriterSide, Followed

-----------------------------------------------------------------------------
(* One end as a reader.                                                     *)

\* A connection that nothing or one frame is added to.
LEMMA Grown ==
  ASSUME NEW w \in Seq(Cells), Layout(w), NEW v,
         v = w \/ \E f \in Frames : Added(w, f, v)
  PROVE  /\ v \in Seq(Cells) /\ Layout(v) /\ Len(w) <= Len(v) /\ Total(w) <= Total(v)
         /\ \A i \in 1 .. Len(w) : v[i] = w[i] /\ i \in 1 .. Len(v)
         /\ \A i \in 1 .. Len(w) + 1 : StartOf(v, i) = StartOf(w, i)
         /\ \A ctx \in Contexts, u, g \in Nat :
               u <= g /\ g <= Total(w) => DecryptOf(v, ctx, u, g) = DecryptOf(w, ctx, u, g)
  <1>1. CASE v = w
    BY <1>1, TotalFacts
  <1>2. ASSUME NEW f \in Frames, Added(w, f, v)
        PROVE  /\ v \in Seq(Cells) /\ Layout(v) /\ Len(w) <= Len(v) /\ Total(w) <= Total(v)
               /\ \A i \in 1 .. Len(w) : v[i] = w[i] /\ i \in 1 .. Len(v)
               /\ \A i \in 1 .. Len(w) + 1 : StartOf(v, i) = StartOf(w, i)
               /\ \A ctx \in Contexts, u, g \in Nat :
                     u <= g /\ g <= Total(w) => DecryptOf(v, ctx, u, g) = DecryptOf(w, ctx, u, g)
    <2>1. /\ v \in Seq(Cells) /\ Len(v) = Len(w) + 1 /\ Layout(v) /\ Total(v) = Total(w) + f.n
          /\ \A i \in 1 .. Len(w) : v[i] = w[i]
          /\ v[Len(w) + 1].at = Total(w)
      BY <1>2, Laid
    <2>2. Total(w) <= Total(v) /\ Len(w) <= Len(v) /\ \A i \in 1 .. Len(w) : i \in 1 .. Len(v)
      BY <2>1, TotalFacts, FrameFacts
    <2>3. ASSUME NEW i \in 1 .. Len(w) + 1 PROVE StartOf(v, i) = StartOf(w, i)
      <3>1. i <= Len(v) /\ StartOf(v, i) = v[i].at
        BY <2>1 DEF StartOf
      <3>2. CASE i <= Len(w)
        BY <2>1, <3>1, <3>2 DEF StartOf
      <3>3. CASE i = Len(w) + 1
        BY <2>1, <3>1, <3>3 DEF StartOf
      <3> QED BY <3>2, <3>3
    <2>4. \A ctx \in Contexts, u, g \in Nat :
             u <= g /\ g <= Total(w) => DecryptOf(v, ctx, u, g) = DecryptOf(w, ctx, u, g)
      BY <1>2, DecryptGrows
    <2> QED BY <2>1, <2>2, <2>3, <2>4
  <1> QED BY <1>1, <1>2

\* An end that goes on where it was, or gets to where it reads.
SamePlace(e) ==
    \/ phase'[e] = phase[e]
    \/ phase[e] = "connect" /\ phase'[e] = "auth"
    \/ phase[e] = "reply" /\ phase'[e] = "session"

\* A reader that does nothing, whatever the other end does.
LEMMA ReaderStays ==
  ASSUME TypesInv, NEW e \in Ends, WriterSide(Other(e)), ReaderSide(e), ReaderSame(e), SamePlace(e),
         SameConfig, Followed(Other(e))
  PROVE  ReaderSide(e)'
  <1> DEFINE o == Other(e)
             w == Incoming(e)
             v == wire'[o]
  <1>0. /\ o \in Ends /\ w = wire[o] /\ w \in Seq(Cells) /\ Layout(w) /\ Incoming(e)' = v
        /\ got[e] \in Nat /\ used[e] \in Nat /\ rest[e] \in Nat /\ need[e] \in Nat
        /\ rctx[e] \in Contexts /\ delivered[e] \in Seq(Events)
    BY OtherEnd, EndTypes DEF Incoming, WriterSide
  <1>1. BytesOK(e) /\ NeedOK(e) /\ StepOK(e) /\ RestOK(e)
    BY DEF ReaderSide
  <1>2. v = w \/ \E f \in Frames : Added(w, f, v)
    BY <1>0 DEF Followed
  <1>3. /\ v \in Seq(Cells) /\ Layout(v) /\ Len(w) <= Len(v) /\ Total(w) <= Total(v)
        /\ \A i \in 1 .. Len(w) : v[i] = w[i] /\ i \in 1 .. Len(v)
        /\ \A i \in 1 .. Len(w) + 1 : StartOf(v, i) = StartOf(w, i)
        /\ \A ctx \in Contexts, u, g \in Nat :
              u <= g /\ g <= Total(w) => DecryptOf(v, ctx, u, g) = DecryptOf(w, ctx, u, g)
    BY <1>0, <1>2, Grown
  <1>4. Total(w) \in Nat /\ Total(v) \in Nat
    BY <1>0, <1>3, TotalFacts
  <1> HIDE DEF w, v
  <1>5. BytesOK(e)'
    <2>1. got[e] + rest[e] <= Total(v)
      BY <1>0, <1>1, <1>3, <1>4 DEF BytesOK, w
    <2>2. used'[e] <= got'[e] /\ got'[e] + rest'[e] <= Total(Incoming(e)') /\ (transport' = "tcp" => rest'[e] = 0)
      BY <1>0, <1>1, <2>1 DEF BytesOK, ReaderSame, SameConfig
    <2>3. phase'[e] \in {"connect", "auth"} => used'[e] = 0
      BY <1>1 DEF BytesOK, ReaderSame, SamePlace
    <2>4. Total(Incoming(e)') = Total(Incoming(e))'
      BY DEF Total
    <2> QED BY <2>2, <2>3, <2>4 DEF BytesOK
  <1>6. NeedOK(e)'
    <2>1. Decrypt(e)' = Decrypt(e)
      <3>1. used[e] <= got[e] /\ got[e] <= Total(w)
        BY <1>0, <1>1, <1>4 DEF BytesOK, w
      <3>2. DecryptOf(v, rctx[e], used[e], got[e]) = DecryptOf(w, rctx[e], used[e], got[e])
        BY <1>0, <1>3, <3>1
      <3> QED BY <1>0, <3>2, DecryptIs DEF ReaderSame, w
    <2>2. ASSUME Reading(e)', need'[e] > 0 PROVE Decrypt(e)'.r = "more" /\ Decrypt(e)'.n = need'[e]
      <3>1. need[e] > 0 /\ need[e] # 0
        BY <1>0, <2>2 DEF ReaderSame
      <3>2. phase'[e] = phase[e]
        BY <1>1, <3>1 DEF NeedOK, SamePlace
      <3>3. Reading(e)
        BY <2>2, <3>2 DEF Reading
      <3> QED BY <1>1, <2>1, <3>1, <3>3 DEF NeedOK, ReaderSame
    <2>3. phase'[e] \in {"connect", "reply"} => need'[e] = 0
      BY <1>1 DEF NeedOK, SamePlace, ReaderSame
    <2> QED BY <2>2, <2>3 DEF NeedOK
  <1>7. ASSUME Sound(e)' PROVE Sound(e) /\ \A i \in 2 .. Len(w) : NextContext(o, i)' = NextContext(o, i)
    BY <1>0, <1>7 DEF Sound, SameMethod, SameConfig, Followed
  <1>8. (Over(e)' <=> Over(e)) /\ Taken(e)' = Taken(e)
    BY DEF SamePlace, ReaderSame, Over, Taken
  <1>9. StepOK(e)'
    <2> SUFFICES ASSUME Sound(e)'
                 PROVE  phase'[e] \notin {"garbled", "panic"} /\ (~Over(e)' => InPlace(e)')
      BY DEF StepOK
    <2>1. phase'[e] \notin {"garbled", "panic"}
      BY <1>1, <1>7 DEF StepOK, SamePlace
    <2>2. ASSUME ~Over(e) PROVE InPlace(e)'
      <3> DEFINE k == Taken(e)
      <3>1. InPlace(e)
        BY <1>1, <1>7, <2>2 DEF StepOK
      <3>2. k \in Nat /\ k <= Len(w) /\ used[e] = StartOf(w, k + 1)
        BY <1>0, <3>1 DEF InPlace, Taken, w
      <3>3. SessionContext' = SessionContext
        BY DEF SessionContext, SameConfig
      <3> HIDE DEF k
      <3>4. k <= Len(v) /\ k + 1 \in 1 .. Len(w) + 1
        BY <1>0, <1>3, <3>2
      <3>5. used[e] = StartOf(v, k + 1)
        BY <1>3, <3>2, <3>4
      <3>6. StartOf(v, k + 1) = StartOf(Incoming(e), Taken(e) + 1)'
        BY <1>0, <1>8 DEF StartOf, Total, k
      <3>7. k = 1 => rctx[e] = SessionContext
        BY <3>1 DEF InPlace, k
      <3>8. k >= 2 => rctx[e] = NextContext(o, k)'
        <4>1. SUFFICES ASSUME k >= 2 PROVE rctx[e] = NextContext(o, k)'
          OBVIOUS
        <4>2. PICK i \in Nat : i = k
          BY <3>2
        <4>3. i \in 2 .. Len(w) /\ rctx[e] = NextContext(o, i)
          BY <1>0, <3>1, <3>2, <4>1, <4>2 DEF InPlace, k
        <4>4. NextContext(o, i)' = NextContext(o, i)
          BY <1>7, <4>3
        <4>5. k' = i
          BY <1>8, <4>2 DEF k
        <4>6. NextContext(o, k)' = NextContext(o, i)'
          BY <4>5 DEF NextContext, Count, Frame
        <4> QED BY <4>3, <4>4, <4>6
      <3>9. (Taken(e) <= Len(Incoming(e)))' /\ (used[e] = StartOf(Incoming(e), Taken(e) + 1))'
        BY <1>0, <1>8, <3>4, <3>5, <3>6 DEF ReaderSame, k
      <3>10. (Taken(e) = 1 => rctx[e] = SessionContext)'
        BY <1>8, <3>3, <3>7 DEF ReaderSame, k
      <3>11. (Taken(e) >= 2 => rctx[e] = NextContext(Other(e), Taken(e)))'
        BY <1>8, <3>8 DEF ReaderSame, k
      <3> QED BY <3>9, <3>10, <3>11 DEF InPlace
    <2> QED BY <1>8, <2>1, <2>2
  <1>10. RestOK(e)'
    <2> SUFFICES ASSUME Sound(e)', ~Over(e)', rest'[e] > 0
                 PROVE  \E j \in 1 .. Len(v) : RestOf(v, got'[e], used'[e], rest'[e], j)
      BY <1>0 DEF RestOK, RestOf
    <2>1. PICK j \in 1 .. Len(w) : RestOf(w, got[e], used[e], rest[e], j)
      BY <1>1, <1>7, <1>8 DEF RestOK, ReaderSame, w
    <2>2. v[j] = w[j] /\ j \in 1 .. Len(v)
      BY <1>3, <2>1
    <2>3. RestOf(v, got[e], used[e], rest[e], j)
      BY <2>1, <2>2 DEF RestOf
    <2> QED BY <2>2, <2>3 DEF ReaderSame
  <1> QED BY <1>5, <1>6, <1>9, <1>10 DEF ReaderSide

\* The other end's invariants, as a reader uses them.
LEMMA ReaderTypes ==
  ASSUME LinkInv, NEW e \in Ends
  PROVE  /\ TypesInv /\ Other(e) \in Ends /\ Incoming(e) = wire[Other(e)]
         /\ WriterSide(e) /\ HelloOK(e) /\ WriterSide(Other(e)) /\ HelloOK(Other(e))
         /\ BytesOK(e) /\ NeedOK(e) /\ StepOK(e) /\ RestOK(e) /\ ReaderSide(e)
         /\ Incoming(e) \in Seq(Cells) /\ Layout(Incoming(e)) /\ Total(Incoming(e)) \in Nat
         /\ got[e] \in Nat /\ used[e] \in Nat /\ rest[e] \in Nat /\ need[e] \in Nat
         /\ rctx[e] \in Contexts /\ delivered[e] \in Seq(Events)
  <1>1. TypesInv /\ Other(e) \in Ends /\ WriterSide(e) /\ HelloOK(e) /\ ReaderSide(e)
        /\ WriterSide(Other(e)) /\ HelloOK(Other(e)) /\ Incoming(e) = wire[Other(e)]
    BY OtherEnd DEF LinkInv, Incoming
  <1>2. BytesOK(e) /\ NeedOK(e) /\ StepOK(e) /\ RestOK(e)
    BY <1>1 DEF ReaderSide
  <1>3. Incoming(e) \in Seq(Cells) /\ Layout(Incoming(e))
    BY <1>1, EndTypes DEF WriterSide
  <1> QED BY <1>1, <1>2, <1>3, EndTypes, TotalFacts

\* An end that waits for the other's AUTH event gets nothing else, and only if both
\* use the same method.
LEMMA AtHello ==
  ASSUME LinkInv, NEW e \in Ends, phase[e] = "auth", Decrypt(e).r = "event"
  PROVE  SameMethod /\ Decrypt(e).ev = Hello(Other(e)) /\ Decrypt(e).ev \in Events
  <1> DEFINE o == Other(e)
             w == Incoming(e)
             d == Decrypt(e)
  <1>0. /\ TypesInv /\ o \in Ends /\ w \in Seq(Cells) /\ Layout(w) /\ w = wire[o]
        /\ rctx[e] \in Contexts /\ used[e] \in Nat /\ got[e] \in Nat
        /\ used[e] = 0 /\ rctx[e] = FirstContext(e)
        /\ w # <<>> => w[1].f = Encrypt(FirstContext(o), Hello(o))
    BY ReaderTypes DEF BytesOK, HelloOK
  <1>1. PICK i \in 1 .. Len(w) :
          /\ w[i].at = 0 /\ d.ev = w[i].f.ev /\ d.ev \in Events
          /\ BodyLen(w[i].f.ev) > 0 => rctx[e].m = w[i].f.ctx.m
    <2>1. d = DecryptOf(w, rctx[e], used[e], got[e])
      BY DecryptIs
    <2>2. Found(w, rctx[e], used[e], got[e], d)
      BY <1>0, <2>1, DecryptFacts
    <2> QED BY <1>0, <2>2 DEF Found
  <1>2. w # <<>> /\ 1 \in 1 .. Len(w) /\ w[1].at = 0
    BY <1>0, <1>1 DEF Layout
  <1>3. i = 1
    <2>1. {x \in DOMAIN w : w[x].at = w[1].at} = {1}
      BY <1>0, <1>2, OneFrame
    <2> QED BY <1>0, <1>1, <1>2, <2>1
  <1>4. FirstContext(o) \in Contexts /\ FirstContext(o).m = method[o] /\ FirstContext(e).m = method[e]
    BY <1>0, EndTypes, NewContextType DEF FirstContext
  <1>5. Hello(o) \in Events /\ BodyLen(Hello(o)) > 0
    <2>1. method["c"] \in Methods /\ Rand \in Nat
      BY <1>0, Numbers DEF TypesInv, Ends
    <2>2. (IF o = "c" THEN 0 ELSE Rand) \in Nat
      BY <2>1
    <2> QED BY <2>1, <2>2, AuthType DEF Hello
  <1>6. w[1].f.ev = Hello(o) /\ w[1].f.ctx = FirstContext(o)
    BY <1>0, <1>2, <1>4, <1>5, Encrypted
  <1>7. method[e] = method[o]
    BY <1>0, <1>1, <1>3, <1>4, <1>5, <1>6
  <1>8. SameMethod
    BY <1>7 DEF SameMethod, Ends, Other
  <1> QED BY <1>1, <1>3, <1>6, <1>8

\* A reader in place finds the next frame behind those it has taken, with the
\* context to open it; what it has read of it decides between waiting and taking.
LEMMA AtFrame ==
  ASSUME LinkInv, NEW e \in Ends, Reading(e), Sound(e), NEW k \in Nat, k = Taken(e) + 1
  PROVE  /\ Taken(e) \in Nat /\ k > 0 /\ k <= Len(Incoming(e)) + 1
         /\ used[e] = StartOf(Incoming(e), k)
         /\ k \in 1 .. Len(Incoming(e)) => used[e] = Incoming(e)[k].at /\ rctx[e] = Incoming(e)[k].f.ctx
         /\ used[e] + HeaderLen <= got[e] => k \in 1 .. Len(Incoming(e))
         /\ Decrypt(e).r = "more" \/ Decrypt(e).r = "event"
         /\ Decrypt(e).r = "event" =>
              /\ k \in 1 .. Len(Incoming(e))
              /\ Decrypt(e).n = Incoming(e)[k].f.n /\ Decrypt(e).ev = Incoming(e)[k].f.ev
              /\ used[e] + Decrypt(e).n <= got[e]
         /\ Decrypt(e).r = "more" /\ used[e] + HeaderLen <= got[e] =>
              Decrypt(e).n = Incoming(e)[k].at + Incoming(e)[k].f.n - got[e]
  <1> DEFINE o == Other(e)
             w == Incoming(e)
             d == Decrypt(e)
             u == used[e]
             g == got[e]
  <1>0. /\ TypesInv /\ o \in Ends /\ w \in Seq(Cells) /\ Layout(w) /\ w = wire[o]
        /\ rctx[e] \in Contexts /\ u \in Nat /\ g \in Nat /\ rest[e] \in Nat
        /\ Total(w) \in Nat /\ WriterSide(o) /\ HelloOK(o) /\ HelloOK(e)
        /\ g + rest[e] <= Total(w) /\ delivered[e] \in Seq(Events) /\ Len(w) \in Nat
    BY ReaderTypes DEF BytesOK
  <1>1. InPlace(e)
    <2>1. ~Over(e)
      BY DEF Reading, Over
    <2> QED BY <2>1, ReaderTypes DEF StepOK
  <1>2. Taken(e) \in Nat
    BY <1>0 DEF Taken
  <1>3. k > 0 /\ k <= Len(w) + 1 /\ u = StartOf(w, k)
    BY <1>0, <1>1, <1>2 DEF InPlace
  <1>4. ASSUME k \in 1 .. Len(w) PROVE u = w[k].at /\ rctx[e] = w[k].f.ctx
    <2>1. u = w[k].at
      BY <1>3, <1>4 DEF StartOf
    <2>2. CASE Taken(e) = 0
      <3>1. phase[e] = "auth"
        BY <1>0, <2>2 DEF Taken, Reading
      <3>2. rctx[e] = FirstContext(e) /\ method[e] = method[o]
        BY <1>0, <3>1 DEF HelloOK, Sound, SameMethod, Ends, Other
      <3>3. k = 1 /\ w # <<>>
        BY <1>4, <2>2
      <3>4. w[1].f = Encrypt(FirstContext(o), Hello(o))
        BY <1>0, <3>3 DEF HelloOK
      <3>5. w[1].f.ctx = FirstContext(o)
        BY <3>4 DEF Encrypt
      <3> QED BY <2>1, <3>2, <3>3, <3>5 DEF FirstContext
    <2>3. CASE Taken(e) >= 1
      <3>1. Chain(o)
        BY <1>0 DEF WriterSide, Sound
      <3>2. Len(w) <= Count(o) /\ Count(o) \in Nat
        BY <1>0, CountType
      <3>3. Taken(e) < Count(o)
        BY <1>0, <1>2, <1>4, <3>2
      <3>4. NextContext(o, Taken(e)) = w[k].f.ctx
        BY <1>0, <1>4, <3>3 DEF NextContext, Frame
      <3>5. CASE Taken(e) = 1
        <4>1. Count(o) >= 2
          BY <3>2, <3>3, <3>5
        <4> QED BY <1>1, <2>1, <3>1, <3>4, <3>5, <4>1 DEF InPlace, Chain
      <3>6. CASE Taken(e) >= 2
        BY <1>1, <2>1, <3>4, <3>6 DEF InPlace
      <3> QED BY <1>2, <2>3, <3>5, <3>6
    <2> QED BY <1>2, <2>2, <2>3
  <1>5. ASSUME u + HeaderLen <= g PROVE k \in 1 .. Len(w)
    <2>1. u < Total(w)
      BY <1>0, <1>5, Numbers
    <2>2. k # Len(w) + 1
      BY <1>0, <1>3, <2>1, Starts
    <2> QED BY <1>0, <1>3, <2>2
  <1>6. d = DecryptOf(w, rctx[e], u, g)
    BY DecryptIs
  <1>7. CASE k \in 1 .. Len(w)
    <2>1. /\ d.r = "more" \/ d.r = "event"
          /\ d.r = "more" => d.n = (IF g - u < HeaderLen THEN HeaderLen ELSE w[k].f.n) - (g - u)
          /\ d.r = "event" => d.n = w[k].f.n /\ d.ev = w[k].f.ev /\ u + d.n <= g
      <3>1. /\ w \in Seq(Cells) /\ Layout(w) /\ rctx[e] \in Contexts /\ u \in Nat /\ g \in Nat
            /\ w[k].at = u /\ w[k].f.ctx = rctx[e]
        BY <1>0, <1>4, <1>7
      <3> HIDE DEF w, u, g, d
      <3> QED BY <1>6, <1>7, <3>1, DecryptInStep
    <2>2. ASSUME d.r = "more", u + HeaderLen <= g PROVE d.n = w[k].at + w[k].f.n - g
      <3>1. ~(g - u < HeaderLen)
        BY <1>0, <2>2, Numbers
      <3>2. d.n = w[k].f.n - (g - u)
        BY <2>1, <2>2, <3>1
      <3>3. w[k].f.n \in Nat /\ u = w[k].at
        BY <1>0, <1>4, <1>7, CellFacts
      <3> QED BY <1>0, <3>2, <3>3
    <2> QED BY <1>2, <1>3, <1>4, <1>7, <2>1, <2>2
  <1>8. CASE ~(k \in 1 .. Len(w))
    <2>1. g - u < HeaderLen /\ ~(u + HeaderLen <= g)
      BY <1>0, <1>5, <1>8, Numbers
    <2>2. d.r = "more"
      BY <1>0, <1>6, <2>1, DecryptShort
    <2> QED BY <1>2, <1>3, <1>8, <2>1, <2>2
  <1> QED BY <1>7, <1>8

\* The rest of a message is what the reader waits for.
LEMMA RestFits ==
  ASSUME LinkInv, NEW e \in Ends, Reading(e), Sound(e), need[e] > 0, rest[e] > 0
  PROVE  rest[e] = need[e]
  <1> DEFINE w == Incoming(e)
             u == used[e]
             g == got[e]
  <1>0. /\ w \in Seq(Cells) /\ Layout(w) /\ u \in Nat /\ g \in Nat /\ rest[e] \in Nat /\ need[e] \in Nat
        /\ NeedOK(e) /\ RestOK(e)
    BY ReaderTypes
  <1>1. PICK j \in 1 .. Len(w) : RestOf(w, g, u, rest[e], j)
    BY <1>0 DEF RestOK, Reading, Over
  <1>2. Decrypt(e).r = "more" /\ Decrypt(e).n = need[e]
    BY <1>0 DEF NeedOK
  <1>3. /\ w[j].at + HeaderLen <= g /\ g + rest[e] = w[j].at + w[j].f.n /\ u <= w[j].at
        /\ w[j].at \in Nat /\ w[j].f.n \in Nat
    BY <1>0, <1>1, CellFacts DEF RestOf
  <1>4. u + HeaderLen <= g
    <2>1. PICK a \in Nat : a = w[j].at /\ u <= a /\ a + HeaderLen <= g
      BY <1>3
    <2>2. u \in Nat /\ g \in Nat /\ HeaderLen \in Nat
      BY <1>0, Numbers
    <2> QED BY <2>1, <2>2
  <1>5. Taken(e) \in Nat
    BY ReaderTypes DEF Taken
  <1>6. PICK k \in Nat : k = Taken(e) + 1
    BY <1>5
  <1>7. k \in 1 .. Len(w) /\ u = w[k].at /\ need[e] = w[k].at + w[k].f.n - g
    BY <1>2, <1>4, <1>6, AtFrame
  <1>8. w[k].at \in Nat /\ w[k].f.n \in Nat
    BY <1>0, <1>7, CellFacts
  <1>9. k = j
    <2>1. w[k].at <= w[j].at
      BY <1>3, <1>7
    <2>2. g \in Nat /\ w[j].at \in Nat /\ w[j].at + HeaderLen <= g /\ HeaderLen \in Nat
      BY <1>0, <1>3, Numbers
    <2>3. need[e] \in Nat /\ need[e] = w[k].at + w[k].f.n - g
      BY <1>0, <1>7
    <2>4. w[j].at < w[k].at + w[k].f.n
      <3>1. PICK a \in Nat, b \in Nat, n \in Nat, x \in Nat : a = w[j].at /\ b = w[k].at /\ n = w[k].f.n /\ x = need[e]
        BY <1>8, <2>2, <2>3
      <3>2. g \in Nat /\ a + HeaderLen <= g /\ HeaderLen \in Nat /\ x = b + n - g /\ x > 0
        BY <2>2, <2>3, <3>1
      <3>3. a < b + n
        BY <3>2
      <3> QED BY <3>1, <3>3
    <2> QED BY <1>0, <1>1, <1>7, <2>1, <2>4, OnePlace
  <1> QED BY <1>0, <1>3, <1>7, <1>8, <1>9

\* decrypt asked for more bytes.
LEMMA ReaderWaits ==
  ASSUME LinkInv, NEW e \in Ends, Reading(e), Decrypt(e).r = "more", SameConfig,
         WriterSame(Other(e)), phase'[e] = phase[e], need'[e] = Decrypt(e).n,
         got'[e] = got[e], used'[e] = used[e], rest'[e] = rest[e],
         rctx'[e] = rctx[e], delivered'[e] = delivered[e]
  PROVE  ReaderSide(e)'
  <1>0. BytesOK(e) /\ NeedOK(e) /\ StepOK(e) /\ RestOK(e)
    BY ReaderTypes
  <1>1. Incoming(e)' = Incoming(e)
    BY DEF Incoming, WriterSame
  <1>2. \A i : NextContext(Other(e), i)' = NextContext(Other(e), i)
    BY DEF WriterSame, NextContext, Count, Frame
  <1>3. Decrypt(e)' = Decrypt(e)
    BY <1>1, DecryptIs
  <1>4. BytesOK(e)'
    BY <1>0, <1>1 DEF BytesOK, SameConfig, Total
  <1>5. NeedOK(e)'
    BY <1>3 DEF NeedOK, Reading
  <1>6. Taken(e)' = Taken(e) /\ Over(e)' = Over(e) /\ Sound(e)' = Sound(e) /\ SessionContext' = SessionContext
    BY DEF Taken, Over, Sound, SameMethod, SameConfig, SessionContext, WriterSame
  <1>7. InPlace(e)' = InPlace(e)
    BY <1>1, <1>2, <1>6 DEF InPlace, StartOf, Total
  <1>8. StepOK(e)'
    BY <1>0, <1>6, <1>7 DEF StepOK
  <1>9. RestOK(e)'
    BY <1>0, <1>1, <1>6 DEF RestOK, RestOf
  <1> QED BY <1>4, <1>5, <1>8, <1>9 DEF ReaderSide

\* More bytes were read, and the rest of a message changed with them.
LEMMA ReaderReads ==
  ASSUME LinkInv, NEW e \in Ends, Reading(e), SameConfig, WriterSame(Other(e)),
         phase'[e] = phase[e], need'[e] = 0, used'[e] = used[e],
         rctx'[e] = rctx[e], delivered'[e] = delivered[e],
         got'[e] \in Nat, rest'[e] \in Nat, got[e] <= got'[e],
         got'[e] + rest'[e] <= Total(Incoming(e)), transport = "tcp" => rest'[e] = 0,
         rest'[e] > 0 => \E j \in 1 .. Len(Incoming(e)) :
                            RestOf(Incoming(e), got'[e], used[e], rest'[e], j)
  PROVE  ReaderSide(e)'
  <1>0. /\ BytesOK(e) /\ NeedOK(e) /\ StepOK(e) /\ used[e] \in Nat /\ got[e] \in Nat
        /\ Total(Incoming(e)) \in Nat
    BY ReaderTypes
  <1>1. Incoming(e)' = Incoming(e)
    BY DEF Incoming, WriterSame
  <1>2. \A i : NextContext(Other(e), i)' = NextContext(Other(e), i)
    BY DEF WriterSame, NextContext, Count, Frame
  <1>3. Total(Incoming(e))' = Total(Incoming(e))
    BY <1>1 DEF Total
  <1>4. BytesOK(e)'
    BY <1>0, <1>3 DEF BytesOK, SameConfig
  <1>5. NeedOK(e)'
    BY DEF NeedOK
  <1>6. Taken(e)' = Taken(e) /\ Over(e)' = Over(e) /\ Sound(e)' = Sound(e) /\ SessionContext' = SessionContext
    BY DEF Taken, Over, Sound, SameMethod, SameConfig, SessionContext, WriterSame
  <1>7. InPlace(e)' = InPlace(e)
    BY <1>1, <1>2, <1>6 DEF InPlace, StartOf, Total
  <1>8. StepOK(e)'
    BY <1>0, <1>6, <1>7 DEF StepOK
  <1>9. RestOK(e)'
    BY <1>1 DEF RestOK, RestOf
  <1> QED BY <1>4, <1>5, <1>8, <1>9 DEF ReaderSide

\* A frame is taken out of the buffer.
LEMMA ReaderTakes ==
  ASSUME LinkInv, NEW e \in Ends, Reading(e), Decrypt(e).r = "event", SameConfig,
         WriterSame(Other(e)), phase'[e] \in {"reply", "session"}, need'[e] = 0,
         used'[e] = used[e] + Decrypt(e).n, got'[e] = got[e], rest'[e] = rest[e],
         \/ /\ phase[e] = "auth" /\ delivered'[e] = <<>>
            /\ Sound(e) => rctx'[e] = SessionContext
         \/ /\ phase[e] = "session" /\ delivered'[e] = Append(delivered[e], Decrypt(e).ev)
            /\ rctx'[e] = AfterDecrypt(rctx[e], Decrypt(e).ev)
  PROVE  ReaderSide(e)'
  <1> DEFINE o == Other(e)
             w == Incoming(e)
             d == Decrypt(e)
  <1>0. /\ BytesOK(e) /\ NeedOK(e) /\ StepOK(e) /\ RestOK(e) /\ used[e] \in Nat /\ got[e] \in Nat
        /\ rest[e] \in Nat /\ Total(w) \in Nat /\ w \in Seq(Cells) /\ Layout(w) /\ rctx[e] \in Contexts
        /\ delivered[e] \in Seq(Events) /\ WriterSide(o) /\ w = wire[o] /\ o \in Ends /\ TypesInv
    BY ReaderTypes
  <1>1. Incoming(e)' = w /\ Total(Incoming(e))' = Total(w)
    BY DEF Incoming, WriterSame, Total
  <1>2. \A i : NextContext(o, i)' = NextContext(o, i)
    BY DEF WriterSame, NextContext, Count, Frame
  <1>3. d.n \in Nat /\ used[e] + d.n <= got[e] /\ d.ev \in Events
    <2>1. d = DecryptOf(w, rctx[e], used[e], got[e])
      BY DecryptIs
    <2>2. d.n \in Nat /\ Found(w, rctx[e], used[e], got[e], d)
      BY <1>0, <2>1, DecryptFacts
    <2> QED BY <2>2 DEF Found
  <1>4. BytesOK(e)'
    BY <1>0, <1>1, <1>3 DEF BytesOK, SameConfig
  <1>5. NeedOK(e)'
    BY DEF NeedOK
  <1>6. ~Over(e)' /\ Sound(e)' = Sound(e) /\ SessionContext' = SessionContext
    BY DEF Over, Sound, SameMethod, SameConfig, SessionContext, WriterSame
  <1>7. PICK k \in Nat : k = Taken(e) + 1
    <2>1. Taken(e) \in Nat
      BY <1>0 DEF Taken
    <2> QED BY <2>1
  <1>8. Taken(e)' = k
    <2>1. CASE phase[e] = "auth" /\ delivered'[e] = <<>>
      <3>1. Taken(e) = 0 /\ Taken(e)' = 1 + Len(delivered'[e])
        BY <2>1 DEF Taken
      <3>2. Len(delivered'[e]) = 0
        BY <2>1
      <3> QED BY <1>7, <3>1, <3>2
    <2>2. CASE phase[e] = "session" /\ delivered'[e] = Append(delivered[e], d.ev)
      <3>1. Taken(e) = 1 + Len(delivered[e]) /\ Taken(e)' = 1 + Len(delivered'[e])
        BY <2>2 DEF Taken
      <3>2. Len(delivered'[e]) = Len(delivered[e]) + 1 /\ Len(delivered[e]) \in Nat
        BY <1>0, <2>2
      <3> QED BY <1>7, <3>1, <3>2
    <2> QED BY <2>1, <2>2
  <1>9. ASSUME Sound(e)
        PROVE  /\ k \in 1 .. Len(w) /\ used[e] = w[k].at /\ rctx[e] = w[k].f.ctx
               /\ d.n = w[k].f.n /\ d.ev = w[k].f.ev
    BY <1>7, <1>9, AtFrame
  <1> HIDE DEF d
  <1>10. ASSUME Sound(e) PROVE InPlace(e)'
    <2>1. StartOf(w, k + 1) = w[k].at + w[k].f.n
      BY <1>0, <1>9, <1>10, Starts
    <2>2. used'[e] = StartOf(w, k + 1)
      BY <1>9, <1>10, <2>1 DEF d
    <2>3. k <= Len(w)
      BY <1>9, <1>10
    <2>4. k = 1 => rctx'[e] = SessionContext
      <3>1. CASE phase[e] = "auth"
        BY <1>10, <3>1
      <3>2. CASE phase[e] = "session"
        <4>1. Taken(e) >= 1
          BY <1>0, <3>2 DEF Taken
        <4>2. Taken(e) \in Nat
          BY <1>0 DEF Taken
        <4> QED BY <1>7, <4>1, <4>2
      <3> QED BY <3>1, <3>2
    <2>5. k >= 2 => rctx'[e] = NextContext(o, k)
      <3>1. SUFFICES ASSUME k >= 2 PROVE rctx'[e] = NextContext(o, k)
        OBVIOUS
      <3>2. phase[e] = "session"
        BY <1>7, <3>1 DEF Taken
      <3>3. rctx'[e] = AfterDecrypt(rctx[e], d.ev)
        BY <3>2 DEF d
      <3>4. AfterDecrypt(rctx[e], d.ev) = AfterEncrypt(rctx[e], d.ev)
        BY <1>0, <1>3, SameMove DEF d
      <3>5. Chain(o)
        BY <1>0, <1>10 DEF WriterSide, Sound
      <3>6. Len(w) <= Count(o) /\ Count(o) \in Nat
        BY <1>0, CountType
      <3>7. k \in 2 .. Count(o) /\ k <= Len(wire[o])
        BY <1>0, <2>3, <3>1, <3>6
      <3>8. Frame(o, k) = w[k].f
        BY <1>0, <3>7 DEF Frame
      <3>9. NextContext(o, k) = AfterEncrypt(w[k].f.ctx, w[k].f.ev)
        BY <3>5, <3>7, <3>8 DEF Chain
      <3> QED BY <1>9, <1>10, <3>3, <3>4, <3>9
    <2>6. (Taken(e) <= Len(Incoming(e)))' /\ (used[e] = StartOf(Incoming(e), Taken(e) + 1))'
      BY <1>1, <1>8, <2>2, <2>3 DEF StartOf, Total
    <2>7. (Taken(e) = 1 => rctx[e] = SessionContext)'
      BY <1>6, <1>8, <2>4
    <2>8. (Taken(e) >= 2 => rctx[e] = NextContext(Other(e), Taken(e)))'
      <3>1. NextContext(Other(e), Taken(e))' = NextContext(o, k)'
        BY <1>8 DEF NextContext, Count, Frame
      <3> QED BY <1>2, <1>8, <2>5, <3>1
    <2> QED BY <2>6, <2>7, <2>8 DEF InPlace
  <1>11. StepOK(e)'
    BY <1>6, <1>10 DEF StepOK
  <1>12. RestOK(e)'
    <2> SUFFICES ASSUME Sound(e), rest[e] > 0
                 PROVE  \E j \in 1 .. Len(w) : RestOf(w, got[e], used'[e], rest[e], j)
      BY <1>1, <1>6 DEF RestOK, RestOf
    <2>1. PICK j \in 1 .. Len(w) : RestOf(w, got[e], used[e], rest[e], j)
      BY <1>0 DEF RestOK, Reading, Over
    <2>2. /\ w[j].at + HeaderLen <= got[e] /\ got[e] + rest[e] = w[j].at + w[j].f.n /\ used[e] <= w[j].at
          /\ w[j].at \in Nat /\ w[j].f.n \in Nat
      BY <1>0, <2>1, CellFacts DEF RestOf
    <2>3. /\ k \in 1 .. Len(w) /\ used[e] = w[k].at /\ used'[e] = w[k].at + w[k].f.n
          /\ w[k].at \in Nat /\ w[k].f.n \in Nat /\ w[k].at + w[k].f.n <= got[e]
      BY <1>0, <1>3, <1>9, CellFacts DEF d
    <2>4. ~(w[j].at < w[k].at + w[k].f.n)
      <3>1. SUFFICES ASSUME w[j].at < w[k].at + w[k].f.n PROVE FALSE
        OBVIOUS
      <3>2. j = k
        BY <1>0, <2>1, <2>2, <2>3, <3>1, OnePlace
      <3> QED BY <1>0, <2>2, <2>3, <3>2
    <2>5. RestOf(w, got[e], used'[e], rest[e], j)
      BY <2>2, <2>3, <2>4 DEF RestOf
    <2> QED BY <2>1, <2>5
  <1> QED BY <1>4, <1>5, <1>11, <1>12 DEF ReaderSide

\* An end is over: nothing is said of it any more but that its bytes were there.
LEMMA ReaderEnds ==
  ASSUME LinkInv, NEW e \in Ends, SameConfig, WriterSame(Other(e)),
         phase'[e] \in {"ended", "panic", "garbled"}, phase'[e] = "ended" \/ ~Sound(e),
         got'[e] = got[e], used'[e] = used[e], rest'[e] = rest[e]
  PROVE  ReaderSide(e)'
  <1>0. BytesOK(e)
    BY ReaderTypes
  <1>1. Incoming(e)' = Incoming(e) /\ Total(Incoming(e))' = Total(Incoming(e))
    BY DEF Incoming, WriterSame, Total
  <1>2. BytesOK(e)'
    BY <1>0, <1>1 DEF BytesOK, SameConfig
  <1>3. NeedOK(e)'
    BY DEF NeedOK, Reading
  <1>4. Over(e)' /\ Sound(e)' = Sound(e)
    BY DEF Over, Sound, SameMethod, SameConfig, WriterSame
  <1>5. StepOK(e)' /\ RestOK(e)'
    BY <1>4 DEF StepOK, RestOK
  <1> QED BY <1>2, <1>3, <1>5 DEF ReaderSide

-----------------------------------------------------------------------------
(* One lemma per action.                                                    *)

\* Only e does something.
Alone(e) ==
    /\ SameConfig /\ WriterSame(Other(e)) /\ ReaderSame(Other(e))
    /\ phase'[Other(e)] = phase[Other(e)]

\* Nothing that HelloOK speaks of changed.
LEMMA HelloSame ==
  ASSUME NEW e \in Ends, HelloOK(e), SameConfig, WriterSame(e), phase'[e] = phase[e],
         rctx'[e] = rctx[e], delivered'[e] = delivered[e]
  PROVE  HelloOK(e)'
  <1>1. /\ FirstContext(e)' = FirstContext(e) /\ Hello(e)' = Hello(e)
        /\ SessionContext' = SessionContext /\ SameMethod' = SameMethod
    BY DEF SameConfig, FirstContext, Hello, SessionContext, SameMethod
  <1>2. Silent(e)' = Silent(e) /\ Over(e)' = Over(e)
    BY DEF Silent, Over
  <1>3. Encrypt(FirstContext(e), Hello(e))' = Encrypt(FirstContext(e), Hello(e))
    BY <1>1 DEF Encrypt, BodyLen, Sealed
  <1> QED BY <1>1, <1>2, <1>3 DEF HelloOK, WriterSame

\* The end that does nothing.
LEMMA OtherKept ==
  ASSUME LinkInv, NEW e \in Ends, Alone(e), Followed(e)
  PROVE  /\ WriterSide(Other(e))' /\ HelloOK(Other(e))' /\ ReaderSide(Other(e))'
         /\ Followed(Other(e))
  <1> DEFINE o == Other(e)
  <1>0. /\ o \in Ends /\ Other(o) = e /\ TypesInv /\ WriterSide(e) /\ WriterSide(o) /\ HelloOK(o)
        /\ ReaderSide(o)
    BY OtherEnd DEF LinkInv
  <1>1. SameConfig /\ WriterSame(o) /\ ReaderSame(o) /\ phase'[o] = phase[o]
    BY DEF Alone
  <1> HIDE DEF o
  <1>2. WriterSide(o)' /\ Followed(o)
    BY <1>0, <1>1, WriterKept
  <1>3. HelloOK(o)'
    BY <1>0, <1>1, HelloSame DEF ReaderSame
  <1>4. ReaderSide(o)'
    <2>1. WriterSide(Other(o)) /\ Followed(Other(o)) /\ SamePlace(o)
      BY <1>0, <1>1 DEF SamePlace
    <2> QED BY <1>0, <1>1, <2>1, ReaderStays
  <1> QED BY <1>2, <1>3, <1>4 DEF o

\* The acting end, as a reader that does not read.
LEMMA ReaderIdle ==
  ASSUME LinkInv, NEW e \in Ends, Alone(e), ReaderSame(e), SamePlace(e)
  PROVE  ReaderSide(e)'
  <1> DEFINE o == Other(e)
  <1>0. o \in Ends /\ TypesInv /\ WriterSide(o) /\ HelloOK(o) /\ ReaderSide(e)
    BY OtherEnd DEF LinkInv
  <1>1. SameConfig /\ WriterSame(o) /\ phase'[o] = phase[o]
    BY DEF Alone
  <1>2. Followed(o)
    BY <1>0, <1>1, WriterKept
  <1> QED BY <1>0, <1>1, <1>2, ReaderStays

\* The invariant, from the parts of the acting end and of the other.
LEMMA Assemble ==
  ASSUME NEW e \in Ends, TypesInv', PhasesInv',
         WriterSide(e)', HelloOK(e)', ReaderSide(e)',
         WriterSide(Other(e))', HelloOK(Other(e))', ReaderSide(Other(e))'
  PROVE  LinkInv'
  <1>1. ASSUME NEW x \in Ends PROVE WriterSide(x)' /\ HelloOK(x)' /\ ReaderSide(x)'
    <2>1. CASE x = e
      BY <2>1
    <2>2. CASE x = Other(e)
      BY <2>2
    <2> QED BY <2>1, <2>2, OtherEnd
  <1> QED BY <1>1 DEF LinkInv

\* process_event seals an event with the context the last one left.
LEMMA SendEventKeeps ==
  ASSUME LinkInv, NEW e \in Ends, SendEvent(e)
  PROVE  LinkInv'
  <1> DEFINE o == Other(e)
  <1>0. /\ TypesInv /\ PhasesInv /\ o \in Ends /\ o # e /\ WriterSide(e) /\ HelloOK(e)
        /\ wctx[e] \in Contexts /\ outq[e] \in Seq(Frames) /\ sent[e] \in Seq(Events)
        /\ wire[e] \in Seq(Cells)
    BY OtherEnd, EndTypes DEF LinkInv
  <1>1. PICK ev \in Messages :
          /\ outq' = [outq EXCEPT ![e] = Append(outq[e], Encrypt(wctx[e], ev))]
          /\ wctx' = [wctx EXCEPT ![e] = AfterEncrypt(wctx[e], ev)]
          /\ sent' = [sent EXCEPT ![e] = Append(sent[e], ev)]
    BY DEF SendEvent, Send
  <1>2. /\ phase[e] = "session"
        /\ UNCHANGED <<transport, method, phase, rctx, wire, twice, retries, got, used, rest, need, delivered>>
    BY DEF SendEvent, config, reading
  <1>3. /\ ev \in Events /\ Encrypt(wctx[e], ev) \in Frames /\ AfterEncrypt(wctx[e], ev) \in Contexts
    BY <1>0, MessageType, Encrypted
  <1> DEFINE f == Encrypt(wctx[e], ev)
             c == AfterEncrypt(wctx[e], ev)
  <1>4. /\ outq'[e] = Append(outq[e], f) /\ wctx'[e] = c /\ sent'[e] = Append(sent[e], ev)
        /\ outq'[o] = outq[o] /\ wctx'[o] = wctx[o] /\ sent'[o] = sent[o]
    BY <1>0, <1>1 DEF TypesInv
  <1>5. TypesInv'
    <2> HIDE DEF f, c
    <2>1. Append(outq[e], f) \in Seq(Frames) /\ Append(sent[e], ev) \in Seq(Events) /\ c \in Contexts
      BY <1>0, <1>3 DEF f, c
    <2>2. outq' \in [Ends -> Seq(Frames)] /\ wctx' \in [Ends -> Contexts] /\ sent' \in [Ends -> Seq(Events)]
      BY <1>0, <1>1, <2>1 DEF TypesInv, f, c
    <2> QED BY <1>0, <1>2, <2>2 DEF TypesInv
  <1>6. PhasesInv'
    BY <1>0, <1>2 DEF PhasesInv
  <1>7. Alone(e) /\ ReaderSame(e) /\ SamePlace(e)
    BY <1>2, <1>4 DEF Alone, SameConfig, WriterSame, ReaderSame, SamePlace
  <1>8. wire[e] # <<>> \/ outq[e] # <<>>
    BY <1>0, <1>2 DEF HelloOK, Silent, Over
  <1>9. WriterSide(e)' /\ Followed(e)
    <2>1. Count(e) > 0
      BY <1>0, <1>8, CountType
    <2> QED BY <1>0, <1>2, <1>3, <1>4, <1>7, <2>1, WriterSends DEF Alone
  <1>10. HelloOK(e)'
    <2>1. outq[e] # <<>> => outq'[e][1] = outq[e][1]
      BY <1>0, <1>3, <1>4
    <2>2. Encrypt(FirstContext(e), Hello(e))' = Encrypt(FirstContext(e), Hello(e)) /\ SameMethod' = SameMethod
      BY <1>2 DEF Encrypt, FirstContext, Hello, SameMethod
    <2>3. ~Silent(e)' /\ (wire'[e] # <<>> \/ outq'[e] # <<>>)
      <3>1. ~Silent(e)'
        BY <1>2 DEF Silent
      <3>2. outq'[e] # <<>>
        <4>1. outq[e] \in Seq(Frames) /\ outq'[e] = Append(outq[e], f)
          BY <1>0, <1>4
        <4> HIDE DEF f
        <4> QED BY <4>1
      <3> QED BY <3>1, <3>2
    <2>4. /\ wire'[e] # <<>> => wire'[e][1].f = Encrypt(FirstContext(e), Hello(e))
          /\ wire'[e] = <<>> /\ outq'[e] # <<>> => outq'[e][1] = Encrypt(FirstContext(e), Hello(e))
      BY <1>0, <1>2, <1>8, <2>1 DEF HelloOK
    <2>5. phase'[e] = "session" /\ SameMethod
      BY <1>0, <1>2 DEF HelloOK
    <2> QED BY <2>2, <2>3, <2>4, <2>5 DEF HelloOK
  <1>11. ReaderSide(e)'
    BY <1>7, ReaderIdle
  <1> QED BY <1>5, <1>6, <1>7, <1>9, <1>10, <1>11, OtherKept, Assemble

\* Write and WritePending: the first queued frame is put on the connection.
LEMMA HelloWritten ==
  ASSUME LinkInv, NEW e \in Ends, SameConfig, outq[e] # <<>>, ~Over(e),
         Added(wire[e], Head(outq[e]), wire'[e]), wctx'[e] = wctx[e], sent'[e] = sent[e],
         phase'[e] = phase[e], rctx'[e] = rctx[e], delivered'[e] = delivered[e]
  PROVE  HelloOK(e)' /\ wire'[e] \in Seq(Cells)
  <1>0. /\ HelloOK(e) /\ wire[e] \in Seq(Cells) /\ Layout(wire[e]) /\ outq[e] \in Seq(Frames)
        /\ Head(outq[e]) \in Frames /\ Head(outq[e]) = outq[e][1]
    BY EndTypes DEF LinkInv, WriterSide
  <1>1. /\ wire'[e] \in Seq(Cells) /\ Len(wire'[e]) = Len(wire[e]) + 1
        /\ \A i \in 1 .. Len(wire[e]) : wire'[e][i] = wire[e][i]
        /\ wire'[e][Len(wire[e]) + 1].f = Head(outq[e])
    BY <1>0, Laid
  <1>2. wire'[e] # <<>>
    BY <1>0, <1>1
  <1>3. /\ FirstContext(e)' = FirstContext(e) /\ Hello(e)' = Hello(e)
        /\ SessionContext' = SessionContext /\ SameMethod' = SameMethod
    BY DEF SameConfig, FirstContext, Hello, SessionContext, SameMethod
  <1>4. Encrypt(FirstContext(e), Hello(e))' = Encrypt(FirstContext(e), Hello(e))
    BY <1>3 DEF Encrypt, BodyLen, Sealed
  <1>5. wire'[e][1].f = Encrypt(FirstContext(e), Hello(e))
    <2>1. CASE wire[e] = <<>>
      <3>1. Len(wire[e]) + 1 = 1
        BY <2>1
      <3>2. wire'[e][1].f = outq[e][1]
        BY <1>0, <1>1, <3>1
      <3> QED BY <1>0, <2>1, <3>2 DEF HelloOK
    <2>2. CASE wire[e] # <<>>
      <3>1. 1 \in 1 .. Len(wire[e])
        BY <1>0, <2>2
      <3> QED BY <1>0, <1>1, <2>2, <3>1 DEF HelloOK
    <2> QED BY <2>1, <2>2
  <1>6. ~Silent(e)' /\ ~Silent(e)
    BY <1>0 DEF HelloOK, Silent
  <1>7. (phase[e] \in {"connect", "auth"} => rctx[e] = FirstContext(e))'
    BY <1>0, <1>3 DEF HelloOK
  <1>8. /\ (phase[e] \in {"connect", "auth", "reply"} => sent[e] = <<>> /\ delivered[e] = <<>>)'
        /\ (phase[e] = "reply" => rctx[e] = SessionContext)'
        /\ (phase[e] \in {"reply", "session"} => SameMethod)'
    BY <1>0, <1>3 DEF HelloOK
  <1> QED BY <1>1, <1>2, <1>4, <1>5, <1>6, <1>7, <1>8 DEF HelloOK

\* A frame goes from the queue to the connection.
LEMMA WriteKeeps ==
  ASSUME LinkInv, NEW e \in Ends, Write(e)
  PROVE  LinkInv'
  <1> DEFINE o == Other(e)
  <1>0. /\ TypesInv /\ PhasesInv /\ o \in Ends /\ o # e /\ WriterSide(e) /\ outq[e] \in Seq(Frames)
    BY OtherEnd, EndTypes DEF LinkInv
  <1>1. /\ outq[e] # <<>> /\ ~Over(e)
        /\ wire' = [wire EXCEPT ![e] = OnWire(e)] /\ outq' = [outq EXCEPT ![e] = Tail(outq[e])]
        /\ UNCHANGED <<transport, method, phase, wctx, rctx, twice, retries, got, used, rest, need, sent, delivered>>
    BY DEF Write, config, contexts, reading, history
  <1>2. /\ Added(wire[e], Head(outq[e]), wire'[e]) /\ outq'[e] = Tail(outq[e])
        /\ wire'[o] = wire[o] /\ outq'[o] = outq[o]
    BY <1>0, <1>1 DEF TypesInv, Added, OnWire
  <1>3. Alone(e) /\ ReaderSame(e) /\ SamePlace(e)
    BY <1>1, <1>2 DEF Alone, SameConfig, WriterSame, ReaderSame, SamePlace
  <1>4. HelloOK(e)' /\ wire'[e] \in Seq(Cells)
    BY <1>1, <1>2, <1>3, HelloWritten DEF Alone
  <1>5. TypesInv'
    <2>1. Tail(outq[e]) \in Seq(Frames)
      BY <1>0, <1>1
    <2>2. wire'[e] = OnWire(e)
      BY <1>0, <1>1 DEF TypesInv
    <2>3. wire' \in [Ends -> Seq(Cells)] /\ outq' \in [Ends -> Seq(Frames)]
      BY <1>0, <1>1, <1>4, <2>1, <2>2 DEF TypesInv
    <2> QED BY <1>0, <1>1, <2>3 DEF TypesInv
  <1>6. PhasesInv'
    BY <1>0, <1>1 DEF PhasesInv
  <1>7. WriterSide(e)' /\ Followed(e)
    BY <1>0, <1>1, <1>2, <1>3, WriterWrites DEF Alone
  <1>8. ReaderSide(e)'
    BY <1>3, ReaderIdle
  <1> QED BY <1>3, <1>4, <1>5, <1>6, <1>7, <1>8, OtherKept, Assemble

\* A frame is put on the connection and stays in the queue: twice is set for this end.
LEMMA WritePendingKeeps ==
  ASSUME LinkInv, NEW e \in Ends, WritePending(e)
  PROVE  LinkInv'
  <1> DEFINE o == Other(e)
  <1>0. /\ TypesInv /\ PhasesInv /\ o \in Ends /\ o # e /\ WriterSide(e)
    BY OtherEnd DEF LinkInv
  <1>1. /\ outq[e] # <<>> /\ ~Over(e)
        /\ wire' = [wire EXCEPT ![e] = OnWire(e)] /\ twice' = [twice EXCEPT ![e] = TRUE]
        /\ retries' = retries + 1
        /\ UNCHANGED <<transport, method, phase, wctx, rctx, outq, got, used, rest, need, sent, delivered>>
    BY DEF WritePending, config, contexts, reading, history
  <1>2. /\ Added(wire[e], Head(outq[e]), wire'[e]) /\ twice'[e]
        /\ wire'[o] = wire[o] /\ twice'[o] = twice[o]
    BY <1>0, <1>1 DEF TypesInv, Added, OnWire
  <1>3. Alone(e) /\ ReaderSame(e) /\ SamePlace(e)
    BY <1>1, <1>2 DEF Alone, SameConfig, WriterSame, ReaderSame, SamePlace
  <1>4. HelloOK(e)' /\ wire'[e] \in Seq(Cells)
    BY <1>1, <1>2, <1>3, HelloWritten DEF Alone
  <1>5. TypesInv'
    <2>1. wire'[e] = OnWire(e)
      BY <1>0, <1>1 DEF TypesInv
    <2>2. wire' \in [Ends -> Seq(Cells)]
      BY <1>0, <1>1, <1>4, <2>1 DEF TypesInv
    <2>3. twice' \in [Ends -> BOOLEAN]
      BY <1>0, <1>1 DEF TypesInv
    <2>4. retries' \in Nat
      BY <1>0, <1>1 DEF TypesInv
    <2> QED BY <1>0, <1>1, <2>2, <2>3, <2>4 DEF TypesInv
  <1>6. PhasesInv'
    BY <1>0, <1>1 DEF PhasesInv
  <1>7. WriterSide(e)' /\ Followed(e)
    BY <1>0, <1>1, <1>2, WriterRepeats
  <1>8. ReaderSide(e)'
    BY <1>3, ReaderIdle
  <1> QED BY <1>3, <1>4, <1>5, <1>6, <1>7, <1>8, OtherKept, Assemble

\* An end is over: by an error, the end of the connection, noise or a panic.
LEMMA EndKeeps ==
  ASSUME LinkInv, NEW e \in Ends, Reading(e) \/ e = "c",
         NEW p \in {"ended", "panic", "garbled"}, p = "ended" \/ ~Sound(e),
         phase' = [phase EXCEPT ![e] = p], need' = need \/ need' = [need EXCEPT ![e] = 0],
         UNCHANGED <<transport, method, wctx, rctx, outq, wire, twice, retries, got, used, rest, sent, delivered>>
  PROVE  LinkInv'
  <1> DEFINE o == Other(e)
  <1>0. /\ TypesInv /\ PhasesInv /\ o \in Ends /\ o # e /\ WriterSide(e) /\ HelloOK(e)
    BY OtherEnd DEF LinkInv
  <1>1. phase'[e] = p /\ phase'[o] = phase[o] /\ need'[o] = need[o]
    BY <1>0 DEF TypesInv, Counters
  <1>2. Alone(e) /\ WriterSame(e) /\ WriterSame(o) /\ SameConfig
    BY <1>1 DEF Alone, SameConfig, WriterSame, ReaderSame
  <1>3. TypesInv'
    <2>1. p \in Phases
      BY DEF Phases
    <2>2. phase' \in [Ends -> Phases]
      BY <1>0, <2>1 DEF TypesInv
    <2>3. need' \in Counters
      <3>1. need \in [Ends -> Nat] /\ 0 \in Nat
        BY <1>0 DEF TypesInv, Counters
      <3>2. CASE need' = need
        BY <3>1, <3>2 DEF Counters
      <3>3. CASE need' = [need EXCEPT ![e] = 0]
        BY <3>1, <3>3 DEF Counters
      <3> QED BY <3>2, <3>3
    <2> QED BY <1>0, <2>2, <2>3 DEF TypesInv
  <1>4. PhasesInv'
    <2>1. CASE e = "c"
      <3>1. phase'["c"] \notin {"connect", "reply"}
        BY <1>1, <2>1
      <3> QED BY <3>1 DEF PhasesInv
    <2>2. CASE e = "s"
      <3>1. Reading("s") /\ phase'["c"] = phase["c"]
        BY <1>1, <2>2 DEF Other
      <3> QED BY <1>0, <3>1 DEF PhasesInv, Reading
    <2> QED BY <2>1, <2>2 DEF Ends
  <1>5. WriterSide(e)' /\ Followed(e)
    BY <1>0, <1>1, <1>2, WriterKept
  <1>6. HelloOK(e)'
    <2>1. ~Silent(e)' /\ Over(e)' /\ phase'[e] \notin {"connect", "auth", "reply", "session"}
      BY <1>1 DEF Silent, Over
    <2>2. Encrypt(FirstContext(e), Hello(e))' = Encrypt(FirstContext(e), Hello(e))
      BY DEF Encrypt, FirstContext, Hello
    <2> QED BY <1>0, <2>1, <2>2 DEF HelloOK
  <1>7. ReaderSide(e)'
    BY <1>1, <1>2, ReaderEnds
  <1> QED BY <1>2, <1>3, <1>4, <1>5, <1>6, <1>7, OtherKept, Assemble

\* A read that brings bytes.
LEMMA GotKeeps ==
  ASSUME LinkInv, NEW e \in Ends, Reading(e),
         NEW g \in Nat, NEW r \in Nat, got[e] <= g, g + r <= Total(Incoming(e)),
         transport = "tcp" => r = 0,
         r > 0 => \E j \in 1 .. Len(Incoming(e)) : RestOf(Incoming(e), g, used[e], r, j),
         got' = [got EXCEPT ![e] = g], rest' = rest \/ rest' = [rest EXCEPT ![e] = r],
         rest'[e] = r, need' = [need EXCEPT ![e] = 0],
         UNCHANGED <<transport, method, phase, wctx, rctx, outq, wire, twice, retries, used, sent, delivered>>
  PROVE  LinkInv'
  <1> DEFINE o == Other(e)
  <1>0. /\ TypesInv /\ PhasesInv /\ o \in Ends /\ o # e /\ WriterSide(e) /\ HelloOK(e)
    BY OtherEnd DEF LinkInv
  <1>1. /\ got'[e] = g /\ need'[e] = 0
        /\ got'[o] = got[o] /\ need'[o] = need[o] /\ rest'[o] = rest[o]
    BY <1>0 DEF TypesInv, Counters
  <1>2. Alone(e) /\ WriterSame(e) /\ WriterSame(o) /\ SameConfig
    BY <1>1 DEF Alone, SameConfig, WriterSame, ReaderSame
  <1>3. TypesInv'
    <2>1. got' \in Counters /\ need' \in Counters
      BY <1>0 DEF TypesInv, Counters
    <2>2. rest' \in Counters
      <3>1. rest \in [Ends -> Nat]
        BY <1>0 DEF TypesInv, Counters
      <3>2. CASE rest' = rest
        BY <3>1, <3>2 DEF Counters
      <3>3. CASE rest' = [rest EXCEPT ![e] = r]
        BY <3>1, <3>3 DEF Counters
      <3> QED BY <3>2, <3>3
    <2> QED BY <1>0, <2>1, <2>2 DEF TypesInv
  <1>4. PhasesInv'
    BY <1>0 DEF PhasesInv
  <1>5. WriterSide(e)' /\ Followed(e)
    BY <1>0, <1>2, WriterKept
  <1>6. HelloOK(e)'
    BY <1>0, <1>2, HelloSame
  <1>7. ReaderSide(e)'
    <2>1. phase'[e] = phase[e] /\ used'[e] = used[e] /\ rctx'[e] = rctx[e] /\ delivered'[e] = delivered[e]
      OBVIOUS
    <2> QED BY <1>1, <1>2, <2>1, ReaderReads
  <1> QED BY <1>2, <1>3, <1>4, <1>5, <1>6, <1>7, OtherKept, Assemble

\* Whatever reserve leaves, a read has room for what is needed and for a header.
LEMMA RoomSize ==
  ASSUME LinkInv, NEW e \in Ends, NEW room \in Rooms(e)
  PROVE  room \in Nat /\ need[e] <= room /\ HeaderLen <= room
  <1>1. need[e] \in Nat
    BY ReaderTypes
  <1>2. MaxOf(need[e], MinRead) \in Nat /\ need[e] <= MaxOf(need[e], MinRead) /\ HeaderLen <= MaxOf(need[e], MinRead)
    BY <1>1, Numbers DEF MaxOf
  <1>3. CASE room = MaxOf(need[e], MinRead)
    BY <1>2, <1>3
  <1>4. CASE room = MaxOf(need[e], MinRead) + Slack
    BY <1>1, <1>2, <1>4, Numbers
  <1> QED BY <1>3, <1>4 DEF Rooms

\* One read over TCP or from a websocket; the rest of a message is what decrypt waits
\* for, so that only an end whose peer repeated a frame can panic.
LEMMA ReadKeeps ==
  ASSUME LinkInv, NEW e \in Ends, Read(e)
  PROVE  LinkInv'
  <1> DEFINE w == Incoming(e)
  <1>0. /\ TypesInv /\ w \in Seq(Cells) /\ Layout(w) /\ Total(w) \in Nat /\ BytesOK(e)
        /\ got[e] \in Nat /\ used[e] \in Nat /\ rest[e] \in Nat /\ need[e] \in Nat
        /\ used[e] <= got[e] /\ got[e] + rest[e] <= Total(w) /\ (transport = "tcp" => rest[e] = 0)
    BY ReaderTypes DEF BytesOK
  <1>1. /\ Reading(e) /\ need[e] > 0 /\ (ReadTcp(e) \/ ReadWs(e)) /\ need' = [need EXCEPT ![e] = 0]
        /\ UNCHANGED <<transport, method, wctx, rctx, outq, wire, twice, retries, used, sent, delivered>>
    BY DEF Read, config, contexts, writing, history
  <1>2. CASE ReadTcp(e)
    <2>0. PICK room \in Rooms(e) : \E n \in 1 .. MinOf(room, Total(w) - got[e]) :
            got' = [got EXCEPT ![e] = got[e] + n]
      BY <1>2 DEF ReadTcp
    <2>1. PICK n \in 1 .. MinOf(room, Total(w) - got[e]) :
            got' = [got EXCEPT ![e] = got[e] + n]
      BY <2>0
    <2>2. transport = "tcp" /\ phase' = phase /\ rest' = rest
      BY <1>2 DEF ReadTcp
    <2>3. room \in Nat
      BY <2>1, RoomSize
    <2>4. n \in Nat /\ n <= Total(w) - got[e]
      BY <1>0, <2>1, <2>3 DEF MinOf
    <2>5. got[e] + n \in Nat /\ got[e] <= got[e] + n /\ got[e] + n + 0 <= Total(w) /\ rest'[e] = 0
      BY <1>0, <2>2, <2>4
    <2>6. PICK g \in Nat : g = got[e] + n
      BY <2>5
    <2>7. PICK r \in Nat : r = 0
      OBVIOUS
    <2>8. got[e] <= g /\ g + r <= Total(w) /\ got' = [got EXCEPT ![e] = g]
      BY <2>1, <2>5, <2>6, <2>7
    <2>9. rest' = rest /\ rest'[e] = r /\ ~(r > 0)
      BY <2>2, <2>5, <2>7
    <2> HIDE DEF w
    <2> QED BY <1>1, <2>2, <2>7, <2>8, <2>9, GotKeeps DEF w
  <1>3. CASE ReadWs(e)
    <2>0. transport = "ws" /\ transport # "tcp"
      BY <1>3 DEF ReadWs
    <2>1. PICK room \in Rooms(e) :
            IF rest[e] > 0
            THEN IF rest[e] > room
                 THEN phase' = [phase EXCEPT ![e] = "panic"] /\ UNCHANGED <<got, rest>>
                 ELSE /\ got' = [got EXCEPT ![e] = got[e] + rest[e]]
                      /\ rest' = [rest EXCEPT ![e] = 0]
                      /\ UNCHANGED phase
            ELSE \E i \in FramesAt(e, got[e]) :
                 /\ got' = [got EXCEPT ![e] = got[e] + MinOf(w[i].f.n, room)]
                 /\ rest' = [rest EXCEPT ![e] = w[i].f.n - MinOf(w[i].f.n, room)]
                 /\ UNCHANGED phase
      BY <1>3 DEF ReadWs
    <2>2. room \in Nat /\ need[e] <= room /\ HeaderLen <= room
      BY <2>1, RoomSize
    <2>3. CASE rest[e] > 0 /\ rest[e] > room
      <3>1. phase' = [phase EXCEPT ![e] = "panic"] /\ UNCHANGED <<got, rest>>
        BY <2>1, <2>3
      <3>2. ~Sound(e)
        <4>1. SUFFICES ASSUME Sound(e) PROVE FALSE
          OBVIOUS
        <4>2. rest[e] = need[e]
          BY <1>1, <2>3, <4>1, RestFits
        <4> QED BY <1>0, <2>2, <2>3, <4>2
      <3> QED BY <1>1, <3>1, <3>2, EndKeeps
    <2>4. CASE rest[e] > 0 /\ ~(rest[e] > room)
      <3>1. got' = [got EXCEPT ![e] = got[e] + rest[e]] /\ rest' = [rest EXCEPT ![e] = 0] /\ phase' = phase
        BY <2>1, <2>4
      <3>2. got[e] + rest[e] \in Nat /\ rest'[e] = 0
        BY <1>0, <3>1 DEF TypesInv, Counters
      <3>3. PICK g \in Nat : g = got[e] + rest[e]
        BY <3>2
      <3>4. PICK r \in Nat : r = 0
        OBVIOUS
      <3>5. got[e] <= g /\ g + r <= Total(w) /\ got' = [got EXCEPT ![e] = g]
        BY <1>0, <3>1, <3>3, <3>4
      <3>6. rest' = [rest EXCEPT ![e] = r] /\ rest'[e] = r /\ ~(r > 0)
        BY <3>1, <3>2, <3>4
      <3> QED BY <1>1, <3>1, <3>4, <3>5, <3>6, GotKeeps
    <2>5. CASE ~(rest[e] > 0)
      <3>1. PICK i \in FramesAt(e, got[e]) :
              /\ got' = [got EXCEPT ![e] = got[e] + MinOf(w[i].f.n, room)]
              /\ rest' = [rest EXCEPT ![e] = w[i].f.n - MinOf(w[i].f.n, room)]
              /\ UNCHANGED phase
        BY <2>1, <2>5
      <3>2. i \in 1 .. Len(w) /\ w[i].at = got[e]
        BY <1>0 DEF FramesAt
      <3>3. w[i].f.n \in Nat /\ w[i].at + w[i].f.n <= Total(w)
        BY <1>0, <3>2, CellFacts, TotalFacts
      <3>4. PICK g \in Nat, r \in Nat :
              /\ g = got[e] + MinOf(w[i].f.n, room) /\ r = w[i].f.n - MinOf(w[i].f.n, room)
              /\ got[e] <= g /\ g + r = w[i].at + w[i].f.n /\ (r > 0 => w[i].at + HeaderLen <= g)
        <4>1. /\ got[e] + MinOf(w[i].f.n, room) \in Nat /\ w[i].f.n - MinOf(w[i].f.n, room) \in Nat
              /\ got[e] <= got[e] + MinOf(w[i].f.n, room)
              /\ (got[e] + MinOf(w[i].f.n, room)) + (w[i].f.n - MinOf(w[i].f.n, room)) = w[i].at + w[i].f.n
              /\ w[i].f.n - MinOf(w[i].f.n, room) > 0 => w[i].at + HeaderLen <= got[e] + MinOf(w[i].f.n, room)
          <5> DEFINE n == w[i].f.n
                     a == w[i].at
          <5>0. n \in Nat /\ a \in Nat /\ room \in Nat /\ a = got[e] /\ HeaderLen \in Nat /\ HeaderLen <= room
            BY <1>0, <2>2, <3>2, <3>3, Numbers
          <5> HIDE DEF n, a
          <5>1. MinOf(n, room) \in Nat /\ MinOf(n, room) <= n /\ (MinOf(n, room) = n \/ MinOf(n, room) = room)
            BY <5>0 DEF MinOf
          <5>2. PICK m \in Nat : m = MinOf(n, room)
            BY <5>1
          <5>3. /\ a + m \in Nat /\ n - m \in Nat /\ a <= a + m /\ (a + m) + (n - m) = a + n
                /\ n - m > 0 => a + HeaderLen <= a + m
            BY <5>0, <5>1, <5>2
          <5> QED BY <5>0, <5>2, <5>3 DEF n, a
        <4> QED BY <4>1
      <3>5. got' = [got EXCEPT ![e] = g] /\ rest' = [rest EXCEPT ![e] = r] /\ phase' = phase /\ rest'[e] = r
        BY <1>0, <3>1, <3>4 DEF TypesInv, Counters
      <3>6. r > 0 => \E j \in 1 .. Len(w) : RestOf(w, g, used[e], r, j)
        BY <1>0, <3>2, <3>4 DEF RestOf
      <3>7. g + r <= Total(w)
        BY <3>3, <3>4
      <3> QED BY <1>1, <2>0, <3>4, <3>5, <3>6, <3>7, GotKeeps
    <2> QED BY <2>3, <2>4, <2>5
  <1> QED BY <1>1, <1>2, <1>3

\* The reader waits for what decrypt is short of.
LEMMA DecodeMoreKeeps ==
  ASSUME LinkInv, NEW e \in Ends, DecodeMore(e)
  PROVE  LinkInv'
  <1> DEFINE o == Other(e)
             n == Decrypt(e).n
  <1>0. /\ TypesInv /\ PhasesInv /\ o \in Ends /\ o # e /\ WriterSide(e) /\ HelloOK(e)
    BY OtherEnd DEF LinkInv
  <1>1. /\ Reading(e) /\ Decrypt(e).r = "more" /\ need' = [need EXCEPT ![e] = n]
        /\ UNCHANGED <<transport, method, phase, wctx, rctx, outq, wire, twice, retries, got, used, rest, sent, delivered>>
    BY DEF DecodeMore, Decoding, config, contexts, writing, history
  <1>2. n \in Nat
    <2>1. /\ Incoming(e) \in Seq(Cells) /\ Layout(Incoming(e)) /\ rctx[e] \in Contexts
          /\ used[e] \in Nat /\ got[e] \in Nat
      BY ReaderTypes
    <2>2. Decrypt(e) = DecryptOf(Incoming(e), rctx[e], used[e], got[e])
      BY DecryptIs
    <2>3. PICK d : d = Decrypt(e)
      OBVIOUS
    <2>4. d.n \in Nat
      BY <2>1, <2>2, <2>3, DecryptFacts
    <2> QED BY <2>3, <2>4
  <1> HIDE DEF n
  <1>3. need'[e] = n /\ need'[o] = need[o]
    BY <1>0, <1>1 DEF TypesInv, Counters
  <1>4. Alone(e) /\ WriterSame(e) /\ WriterSame(o) /\ SameConfig
    BY <1>1, <1>3 DEF Alone, SameConfig, WriterSame, ReaderSame
  <1>5. TypesInv'
    <2>1. need' \in Counters
      BY <1>0, <1>1, <1>2 DEF TypesInv, Counters
    <2> QED BY <1>0, <1>1, <2>1 DEF TypesInv
  <1>6. PhasesInv'
    BY <1>0, <1>1 DEF PhasesInv
  <1>7. WriterSide(e)' /\ Followed(e)
    BY <1>0, <1>1, <1>4, WriterKept
  <1>8. HelloOK(e)'
    BY <1>0, <1>1, <1>4, HelloSame
  <1>9. ReaderSide(e)'
    BY <1>1, <1>3, <1>4, ReaderWaits DEF n
  <1> QED BY <1>4, <1>5, <1>6, <1>7, <1>8, <1>9, OtherKept, Assemble

\* The steps that end an end.
LEMMA EndingsKeep ==
  ASSUME LinkInv, ConnectFails \/ \E e \in Ends : ReadEnds(e) \/ DecodeFails(e) \/ DecodeNoise(e)
  PROVE  LinkInv'
  <1>1. CASE ConnectFails
    <2>1. /\ phase' = [phase EXCEPT !["c"] = "ended"] /\ need' = need
          /\ UNCHANGED <<transport, method, wctx, rctx, outq, wire, twice, retries, got, used, rest, sent, delivered>>
      BY <1>1 DEF ConnectFails, config, contexts, writing, reading, history
    <2>2. "c" \in Ends
      BY DEF Ends
    <2> QED BY <2>1, <2>2, EndKeeps
  <1>2. ASSUME NEW e \in Ends, ReadEnds(e) \/ DecodeFails(e) PROVE LinkInv'
    <2>1. /\ Reading(e) /\ phase' = [phase EXCEPT ![e] = "ended"] /\ need' = need
          /\ UNCHANGED <<transport, method, wctx, rctx, outq, wire, twice, retries, got, used, rest, sent, delivered>>
      BY <1>2 DEF ReadEnds, DecodeFails, Decoding, config, contexts, writing, reading, history
    <2> QED BY <2>1, EndKeeps
  <1>3. ASSUME NEW e \in Ends, DecodeNoise(e) PROVE LinkInv'
    <2>1. /\ Reading(e) /\ phase' = [phase EXCEPT ![e] = "garbled"] /\ need' = need /\ Decrypt(e).r = "noise"
          /\ UNCHANGED <<transport, method, wctx, rctx, outq, wire, twice, retries, got, used, rest, sent, delivered>>
      BY <1>3 DEF DecodeNoise, Decoding, config, contexts, writing, reading, history
    <2>2. ~Sound(e)
      <3>1. Taken(e) \in Nat
        BY ReaderTypes DEF Taken
      <3>2. PICK k \in Nat : k = Taken(e) + 1
        BY <3>1
      <3>3. Sound(e) => Decrypt(e).r = "more" \/ Decrypt(e).r = "event"
        BY <2>1, <3>2, AtFrame
      <3> QED BY <2>1, <3>3
    <2> QED BY <2>1, <2>2, EndKeeps
  <1> QED BY <1>1, <1>2, <1>3

\* The AUTH event of an end that made no frame yet.
LEMMA HelloSent ==
  ASSUME LinkInv, NEW e \in Ends, Silent(e), SameConfig,
         phase'[e] \in Phases, ~Silent(e)', phase'[e] # "session",
         wire'[e] = wire[e], twice'[e] = twice[e],
         outq'[e] = Append(outq[e], Encrypt(wctx[e], Hello(e))),
         wctx'[e] = AfterEncrypt(wctx[e], Hello(e)),
         sent'[e] = sent[e], delivered'[e] = delivered[e],
         phase'[e] \in {"connect", "auth"} => rctx'[e] = FirstContext(e),
         phase'[e] = "reply" => rctx'[e] = SessionContext /\ SameMethod
  PROVE  WriterSide(e)' /\ HelloOK(e)' /\ Followed(e)
  <1>0. /\ TypesInv /\ WriterSide(e) /\ HelloOK(e) /\ sent[e] = <<>> /\ delivered[e] = <<>>
        /\ wire[e] = <<>> /\ outq[e] = <<>> /\ wctx[e] = FirstContext(e)
    BY DEF LinkInv, HelloOK, Silent
  <1>1. Hello(e) \in Events
    <2>1. method["c"] \in Methods /\ Rand \in Nat
      BY <1>0, Numbers DEF TypesInv, Ends
    <2>2. (IF e = "c" THEN 0 ELSE Rand) \in Nat
      BY <2>1
    <2> QED BY <2>1, <2>2, AuthType DEF Hello
  <1>2. WriterSide(e)' /\ Followed(e)
    <2>1. Count(e) = 0 /\ sent'[e] = <<>>
      BY <1>0, CountType
    <2> QED BY <1>0, <1>1, <2>1, WriterSends
  <1>3. /\ FirstContext(e)' = FirstContext(e) /\ Hello(e)' = Hello(e)
        /\ SessionContext' = SessionContext /\ SameMethod' = SameMethod
    BY DEF SameConfig, FirstContext, Hello, SessionContext, SameMethod
  <1>4. Encrypt(FirstContext(e), Hello(e))' = Encrypt(FirstContext(e), Hello(e))
    BY <1>3 DEF Encrypt, BodyLen, Sealed
  <1>5. wire'[e] = <<>> /\ outq'[e] # <<>> /\ outq'[e][1] = Encrypt(FirstContext(e), Hello(e))
    BY <1>0
  <1> QED BY <1>0, <1>2, <1>3, <1>4, <1>5 DEF HelloOK

\* The connection is made and the client's AUTH event is sealed with its first context.
LEMMA ConnectKeeps ==
  ASSUME LinkInv, Connect
  PROVE  LinkInv'
  <1>0. /\ "c" \in Ends /\ "s" \in Ends /\ Other("c") = "s" /\ Other("s") = "c"
        /\ TypesInv /\ PhasesInv /\ HelloOK("c") /\ HelloOK("s")
        /\ WriterSide("c") /\ WriterSide("s") /\ ReaderSide("c") /\ ReaderSide("s")
        /\ wctx["c"] \in Contexts /\ outq["c"] \in Seq(Frames)
    BY EndTypes DEF LinkInv, Ends, Other
  <1>1. /\ phase["c"] = "connect" /\ phase' = [e \in Ends |-> "auth"]
        /\ outq' = [outq EXCEPT !["c"] = Append(outq["c"], Encrypt(wctx["c"], Hello("c")))]
        /\ wctx' = [wctx EXCEPT !["c"] = AfterEncrypt(wctx["c"], Hello("c"))]
        /\ UNCHANGED <<transport, method, rctx, wire, twice, retries, got, used, rest, need, sent, delivered>>
    BY DEF Connect, Send, Hello, config, reading, history
  <1>2. phase["s"] = "connect" /\ phase'["c"] = "auth" /\ phase'["s"] = "auth"
    BY <1>0, <1>1 DEF PhasesInv
  <1>3. Hello("c") \in Events
    <2>1. method["c"] \in Methods /\ 0 \in Nat
      BY <1>0 DEF TypesInv
    <2> QED BY <2>1, AuthType DEF Hello
  <1>4. Encrypt(wctx["c"], Hello("c")) \in Frames /\ AfterEncrypt(wctx["c"], Hello("c")) \in Contexts
    BY <1>0, <1>3, Encrypted
  <1> DEFINE f == Encrypt(wctx["c"], Hello("c"))
             ctx == AfterEncrypt(wctx["c"], Hello("c"))
  <1>5. /\ outq'["c"] = Append(outq["c"], f) /\ wctx'["c"] = ctx
        /\ outq'["s"] = outq["s"] /\ wctx'["s"] = wctx["s"]
    BY <1>0, <1>1 DEF TypesInv
  <1>6. TypesInv'
    <2> HIDE DEF f, ctx
    <2>1. Append(outq["c"], f) \in Seq(Frames) /\ ctx \in Contexts
      BY <1>0, <1>4 DEF f, ctx
    <2>2. outq' \in [Ends -> Seq(Frames)] /\ wctx' \in [Ends -> Contexts]
      BY <1>0, <1>1, <2>1 DEF TypesInv, f, ctx
    <2>3. phase' \in [Ends -> Phases]
      BY <1>1 DEF Phases
    <2> QED BY <1>0, <1>1, <2>2, <2>3 DEF TypesInv
  <1>7. PhasesInv'
    BY <1>2 DEF PhasesInv
  <1>8. SameConfig /\ WriterSame("s") /\ ReaderSame("c") /\ ReaderSame("s") /\ SamePlace("c") /\ SamePlace("s")
    BY <1>1, <1>2, <1>5 DEF SameConfig, WriterSame, ReaderSame, SamePlace
  <1>9. WriterSide("c")' /\ HelloOK("c")' /\ Followed("c")
    <2>1. Silent("c") /\ ~Silent("c")' /\ phase'["c"] \in Phases
      BY <1>1, <1>2 DEF Silent, Phases
    <2>2. rctx'["c"] = FirstContext("c")
      BY <1>0, <1>1 DEF HelloOK
    <2> QED BY <1>0, <1>1, <1>2, <1>5, <1>8, <2>1, <2>2, HelloSent
  <1>10. WriterSide("s")' /\ Followed("s")
    BY <1>0, <1>2, <1>8, WriterKept
  <1>11. HelloOK("s")'
    <2>1. /\ wire'["s"] = <<>> /\ outq'["s"] = <<>> /\ wctx'["s"] = FirstContext("s")
          /\ rctx'["s"] = FirstContext("s") /\ sent'["s"] = <<>> /\ delivered'["s"] = <<>>
      BY <1>0, <1>1, <1>2, <1>5 DEF HelloOK, Silent
    <2>2. FirstContext("s")' = FirstContext("s") /\ Silent("s")'
      BY <1>1, <1>2 DEF FirstContext, Silent
    <2> QED BY <1>2, <2>1, <2>2 DEF HelloOK
  <1>12. ReaderSide("c")' /\ ReaderSide("s")'
    BY <1>0, <1>8, <1>9, <1>10, ReaderStays
  <1> QED BY <1>0, <1>6, <1>7, <1>9, <1>10, <1>11, <1>12, Assemble

\* What every step that takes an event from the buffer does to the reader.
LEMMA Consumed ==
  ASSUME LinkInv, NEW e \in Ends, Decoding(e, "event"), Consume(e)
  PROVE  /\ used'[e] = used[e] + Decrypt(e).n /\ need'[e] = 0 /\ got' = got /\ rest' = rest
         /\ used'[Other(e)] = used[Other(e)] /\ need'[Other(e)] = need[Other(e)]
         /\ used' \in Counters /\ need' \in Counters
         /\ Decrypt(e).ev \in Events
  <1> DEFINE n == Decrypt(e).n
  <1>1. /\ Incoming(e) \in Seq(Cells) /\ Layout(Incoming(e)) /\ rctx[e] \in Contexts
        /\ used[e] \in Nat /\ got[e] \in Nat /\ TypesInv
    BY ReaderTypes
  <1>2. n \in Nat /\ Decrypt(e).ev \in Events
    <2>1. Decrypt(e) = DecryptOf(Incoming(e), rctx[e], used[e], got[e]) /\ Decrypt(e).r = "event"
      BY DecryptIs DEF Decoding
    <2>2. PICK d : d = Decrypt(e)
      OBVIOUS
    <2>3. d.n \in Nat /\ Found(Incoming(e), rctx[e], used[e], got[e], d)
      BY <1>1, <2>1, <2>2, DecryptFacts
    <2> QED BY <2>2, <2>3 DEF Found
  <1> HIDE DEF n
  <1>3. used' = [used EXCEPT ![e] = used[e] + n] /\ need' = [need EXCEPT ![e] = 0] /\ got' = got /\ rest' = rest
    BY DEF Consume, n
  <1>4. used \in [Ends -> Nat] /\ need \in [Ends -> Nat] /\ used[e] + n \in Nat /\ 0 \in Nat
    BY <1>1, <1>2 DEF TypesInv, Counters
  <1>5. used' \in Counters /\ need' \in Counters
    BY <1>3, <1>4 DEF Counters
  <1> QED BY <1>2, <1>3, <1>4, <1>5, OtherEnd DEF n

\* The server opened the AuthRequest, so the methods agree; it seals its answer with
\* its first context and reads on with that of the session.
LEMMA ServerAuthKeeps ==
  ASSUME LinkInv, ServerAuth
  PROVE  LinkInv'
  <1>0. /\ "c" \in Ends /\ "s" \in Ends /\ Other("c") = "s" /\ Other("s") = "c"
        /\ TypesInv /\ PhasesInv /\ HelloOK("s") /\ sent["s"] \in Seq(Events)
        /\ wctx["s"] \in Contexts /\ outq["s"] \in Seq(Frames)
    BY EndTypes DEF LinkInv, Ends, Other
  <1>1. phase["s"] = "auth" /\ Decoding("s", "event") /\ Consume("s") /\ Decrypt("s").r = "event" /\ Reading("s")
    BY DEF ServerAuth, Decoding
  <1>2. SameMethod /\ Decrypt("s").ev = Hello("c")
    BY <1>0, <1>1, AtHello
  <1>3. Answer(Decrypt("s").ev.auth) = Hello("s")
    BY <1>2 DEF Hello, Event, Answer
  <1>4. NewContext(Hello("s").auth.method, Hello("s").auth.rand) = SessionContext
    BY DEF Hello, Event, SessionContext
  <1>5. /\ outq' = [outq EXCEPT !["s"] = Append(outq["s"], Encrypt(wctx["s"], Hello("s")))]
        /\ wctx' = [wctx EXCEPT !["s"] = AfterEncrypt(wctx["s"], Hello("s"))]
        /\ rctx' = [rctx EXCEPT !["s"] = SessionContext]
        /\ phase' = [phase EXCEPT !["s"] = "reply"]
        /\ UNCHANGED <<transport, method, wire, twice, retries, sent, delivered>>
    BY <1>3, <1>4 DEF ServerAuth, Send, config, history
  <1>6. /\ used'["s"] = used["s"] + Decrypt("s").n /\ need'["s"] = 0 /\ got' = got /\ rest' = rest
        /\ used'["c"] = used["c"] /\ need'["c"] = need["c"] /\ used' \in Counters /\ need' \in Counters
    BY <1>0, <1>1, Consumed
  <1>7. Hello("s") \in Events /\ SessionContext \in Contexts
    <2>1. method["c"] \in Methods /\ Rand \in Nat
      BY <1>0, Numbers DEF TypesInv
    <2> QED BY <2>1, AuthType, NewContextType DEF Hello, SessionContext
  <1>8. Encrypt(wctx["s"], Hello("s")) \in Frames /\ AfterEncrypt(wctx["s"], Hello("s")) \in Contexts
    BY <1>0, <1>7, Encrypted
  <1> DEFINE f == Encrypt(wctx["s"], Hello("s"))
             ctx == AfterEncrypt(wctx["s"], Hello("s"))
  <1>9. /\ outq'["s"] = Append(outq["s"], f) /\ wctx'["s"] = ctx /\ rctx'["s"] = SessionContext
        /\ outq'["c"] = outq["c"] /\ wctx'["c"] = wctx["c"] /\ rctx'["c"] = rctx["c"]
        /\ phase'["s"] = "reply" /\ phase'["c"] = phase["c"]
    BY <1>0, <1>5 DEF TypesInv
  <1>10. TypesInv'
    <2> HIDE DEF f, ctx
    <2>1. Append(outq["s"], f) \in Seq(Frames) /\ ctx \in Contexts
      BY <1>0, <1>8 DEF f, ctx
    <2>2. outq' \in [Ends -> Seq(Frames)] /\ wctx' \in [Ends -> Contexts]
      BY <1>0, <1>5, <2>1 DEF TypesInv, f, ctx
    <2>3. rctx' \in [Ends -> Contexts]
      BY <1>0, <1>5, <1>7 DEF TypesInv
    <2>4. phase' \in [Ends -> Phases]
      BY <1>0, <1>5 DEF TypesInv, Phases
    <2> QED BY <1>0, <1>5, <1>6, <2>2, <2>3, <2>4 DEF TypesInv
  <1>11. PhasesInv'
    BY <1>0, <1>1, <1>9 DEF PhasesInv
  <1>12. Alone("s") /\ SameConfig /\ WriterSame("c")
    BY <1>0, <1>5, <1>6, <1>9 DEF Alone, SameConfig, WriterSame, ReaderSame
  <1>13. WriterSide("s")' /\ HelloOK("s")' /\ Followed("s")
    <2>1. Silent("s") /\ ~Silent("s")' /\ phase'["s"] \in Phases
      BY <1>1, <1>9 DEF Silent, Phases
    <2> QED BY <1>0, <1>2, <1>5, <1>9, <1>12, <2>1, HelloSent
  <1>14. ReaderSide("s")'
    <2>1. delivered'["s"] = <<>>
      BY <1>0, <1>1, <1>5 DEF HelloOK
    <2>2. got'["s"] = got["s"] /\ rest'["s"] = rest["s"]
      BY <1>6
    <2> QED BY <1>0, <1>1, <1>6, <1>9, <1>12, <2>1, <2>2, ReaderTakes
  <1> QED BY <1>0, <1>10, <1>11, <1>12, <1>13, <1>14, OtherKept, Assemble

\* The first frame stays where it is when only the contexts change.
LEMMA HelloTurns ==
  ASSUME NEW e \in Ends, HelloOK(e), SameConfig, phase[e] \in Phases, ~Silent(e), ~Over(e),
         wire'[e] = wire[e], outq'[e] = outq[e], phase'[e] = "session", SameMethod
  PROVE  HelloOK(e)'
  <1>1. /\ FirstContext(e)' = FirstContext(e) /\ Hello(e)' = Hello(e) /\ SameMethod' = SameMethod
    BY DEF SameConfig, FirstContext, Hello, SameMethod
  <1>2. Encrypt(FirstContext(e), Hello(e))' = Encrypt(FirstContext(e), Hello(e))
    BY <1>1 DEF Encrypt, BodyLen, Sealed
  <1>3. wire[e] # <<>> \/ outq[e] # <<>>
    BY DEF HelloOK
  <1>4. ~Silent(e)'
    BY DEF Silent
  <1> QED BY <1>1, <1>2, <1>3, <1>4 DEF HelloOK

\* The server's answer is written; what it sends from now on starts the chain of the
\* session's contexts.
LEMMA ServerReadyKeeps ==
  ASSUME LinkInv, ServerReady
  PROVE  LinkInv'
  <1>0. /\ "c" \in Ends /\ "s" \in Ends /\ Other("c") = "s" /\ Other("s") = "c"
        /\ TypesInv /\ PhasesInv /\ HelloOK("s") /\ WriterSide("s")
    BY DEF LinkInv, Ends, Other
  <1>1. /\ phase["s"] = "reply" /\ wctx' = [wctx EXCEPT !["s"] = rctx["s"]]
        /\ phase' = [phase EXCEPT !["s"] = "session"]
        /\ UNCHANGED <<transport, method, rctx, outq, wire, twice, retries, got, used, rest, need, sent, delivered>>
    BY DEF ServerReady, config, writing, reading, history
  <1>2. rctx["s"] = SessionContext /\ SameMethod /\ sent["s"] = <<>> /\ rctx["s"] \in Contexts
    BY <1>0, <1>1, EndTypes DEF HelloOK
  <1>3. /\ wctx'["s"] = SessionContext /\ wctx'["c"] = wctx["c"]
        /\ phase'["s"] = "session" /\ phase'["c"] = phase["c"]
    BY <1>0, <1>1, <1>2 DEF TypesInv
  <1>4. TypesInv'
    <2>1. wctx' \in [Ends -> Contexts]
      BY <1>0, <1>1, <1>2 DEF TypesInv
    <2>2. phase' \in [Ends -> Phases]
      BY <1>0, <1>1 DEF TypesInv, Phases
    <2> QED BY <1>0, <1>1, <2>1, <2>2 DEF TypesInv
  <1>5. PhasesInv'
    BY <1>0, <1>1, <1>3 DEF PhasesInv
  <1>6. Alone("s") /\ SameConfig /\ ReaderSame("s") /\ SamePlace("s")
    BY <1>0, <1>1, <1>3 DEF Alone, SameConfig, WriterSame, ReaderSame, SamePlace
  <1>7. ~Silent("s") /\ ~Over("s") /\ phase["s"] \in Phases
    BY <1>1 DEF Silent, Over, Phases
  <1>8. HelloOK("s")'
    BY <1>0, <1>1, <1>2, <1>3, <1>6, <1>7, HelloTurns
  <1>9. WriterSide("s")' /\ Followed("s")
    <2>1. Count("s") > 0
      BY <1>0, <1>7, CountType DEF HelloOK
    <2> QED BY <1>0, <1>1, <1>2, <1>3, <1>6, <2>1, WriterTurns
  <1>10. ReaderSide("s")'
    BY <1>0, <1>6, ReaderIdle
  <1> QED BY <1>0, <1>4, <1>5, <1>6, <1>8, <1>9, <1>10, OtherKept, Assemble

\* The client opened the AuthResponse, so the methods agree, and switches both contexts.
LEMMA ClientReadyKeeps ==
  ASSUME LinkInv, ClientReady
  PROVE  LinkInv'
  <1>0. /\ "c" \in Ends /\ "s" \in Ends /\ Other("c") = "s" /\ Other("s") = "c"
        /\ TypesInv /\ PhasesInv /\ HelloOK("c") /\ WriterSide("c")
    BY DEF LinkInv, Ends, Other
  <1>1. phase["c"] = "auth" /\ Decoding("c", "event") /\ Consume("c") /\ Decrypt("c").r = "event" /\ Reading("c")
    BY DEF ClientReady, Decoding
  <1>2. SameMethod /\ Decrypt("c").ev = Hello("s")
    BY <1>0, <1>1, AtHello
  <1>3. NewContext(method["c"], Decrypt("c").ev.auth.rand) = SessionContext
    BY <1>2 DEF Hello, Event, SessionContext
  <1>4. /\ wctx' = [wctx EXCEPT !["c"] = SessionContext] /\ rctx' = [rctx EXCEPT !["c"] = SessionContext]
        /\ phase' = [phase EXCEPT !["c"] = "session"]
        /\ UNCHANGED <<transport, method, outq, wire, twice, retries, sent, delivered>>
    BY <1>3 DEF ClientReady, config, writing, history
  <1>5. /\ used'["c"] = used["c"] + Decrypt("c").n /\ need'["c"] = 0 /\ got' = got /\ rest' = rest
        /\ used'["s"] = used["s"] /\ need'["s"] = need["s"] /\ used' \in Counters /\ need' \in Counters
    BY <1>0, <1>1, Consumed
  <1>6. SessionContext \in Contexts
    <2>1. method["c"] \in Methods /\ Rand \in Nat
      BY <1>0, Numbers DEF TypesInv
    <2> QED BY <2>1, NewContextType DEF SessionContext
  <1>7. /\ wctx'["c"] = SessionContext /\ wctx'["s"] = wctx["s"]
        /\ rctx'["c"] = SessionContext /\ rctx'["s"] = rctx["s"]
        /\ phase'["c"] = "session" /\ phase'["s"] = phase["s"]
    BY <1>0, <1>4 DEF TypesInv
  <1>8. TypesInv'
    <2>1. wctx' \in [Ends -> Contexts] /\ rctx' \in [Ends -> Contexts]
      BY <1>0, <1>4, <1>6 DEF TypesInv
    <2>2. phase' \in [Ends -> Phases]
      BY <1>0, <1>4 DEF TypesInv, Phases
    <2> QED BY <1>0, <1>4, <1>5, <2>1, <2>2 DEF TypesInv
  <1>9. PhasesInv'
    BY <1>7 DEF PhasesInv
  <1>10. Alone("c") /\ SameConfig /\ WriterSame("s")
    BY <1>0, <1>4, <1>5, <1>7 DEF Alone, SameConfig, WriterSame, ReaderSame
  <1>11. ~Silent("c") /\ ~Over("c") /\ phase["c"] \in Phases
    BY <1>1 DEF Silent, Over, Phases
  <1>12. sent["c"] = <<>> /\ delivered["c"] = <<>>
    BY <1>0, <1>1 DEF HelloOK
  <1>13. HelloOK("c")'
    BY <1>0, <1>2, <1>4, <1>7, <1>10, <1>11, HelloTurns
  <1>14. WriterSide("c")' /\ Followed("c")
    <2>1. Count("c") > 0
      BY <1>0, <1>11, CountType DEF HelloOK
    <2> QED BY <1>0, <1>4, <1>7, <1>10, <1>12, <2>1, WriterTurns
  <1>15. ReaderSide("c")'
    <2>1. delivered'["c"] = <<>> /\ got'["c"] = got["c"] /\ rest'["c"] = rest["c"]
      BY <1>4, <1>5, <1>12
    <2> QED BY <1>0, <1>1, <1>5, <1>7, <1>10, <2>1, ReaderTakes
  <1> QED BY <1>0, <1>8, <1>9, <1>10, <1>13, <1>14, <1>15, OtherKept, Assemble

\* An event is taken from the buffer; the reader stands at the next frame.
LEMMA DeliverKeeps ==
  ASSUME LinkInv, NEW e \in Ends, Deliver(e)
  PROVE  LinkInv'
  <1> DEFINE o == Other(e)
             ev == Decrypt(e).ev
             ctx == AfterDecrypt(rctx[e], ev)
  <1>0. /\ TypesInv /\ PhasesInv /\ o \in Ends /\ o # e /\ WriterSide(e) /\ HelloOK(e)
        /\ rctx[e] \in Contexts /\ delivered[e] \in Seq(Events)
    BY OtherEnd, EndTypes DEF LinkInv
  <1>1. phase[e] = "session" /\ Decoding(e, "event") /\ Consume(e) /\ Decrypt(e).r = "event" /\ Reading(e)
    BY DEF Deliver, Decoding
  <1>2. /\ rctx' = [rctx EXCEPT ![e] = ctx] /\ delivered' = [delivered EXCEPT ![e] = Append(delivered[e], ev)]
        /\ UNCHANGED <<transport, method, phase, wctx, outq, wire, twice, retries, sent>>
    BY DEF Deliver, config, writing
  <1>3. /\ used'[e] = used[e] + Decrypt(e).n /\ need'[e] = 0 /\ got' = got /\ rest' = rest
        /\ used'[o] = used[o] /\ need'[o] = need[o] /\ used' \in Counters /\ need' \in Counters
        /\ ev \in Events
    BY <1>1, Consumed
  <1>4. ctx \in Contexts
    BY <1>0, <1>3, SameMove
  <1>5. /\ rctx'[e] = ctx /\ rctx'[o] = rctx[o]
        /\ delivered'[e] = Append(delivered[e], ev) /\ delivered'[o] = delivered[o]
    BY <1>0, <1>2 DEF TypesInv
  <1>6. TypesInv'
    <2> HIDE DEF ev, ctx
    <2>1. Append(delivered[e], ev) \in Seq(Events)
      BY <1>0, <1>3
    <2>2. rctx' \in [Ends -> Contexts] /\ delivered' \in [Ends -> Seq(Events)]
      BY <1>0, <1>2, <1>4, <2>1 DEF TypesInv
    <2> QED BY <1>0, <1>2, <1>3, <2>2 DEF TypesInv
  <1>7. PhasesInv'
    BY <1>0, <1>2 DEF PhasesInv
  <1>8. Alone(e) /\ SameConfig /\ WriterSame(e) /\ WriterSame(o)
    BY <1>0, <1>2, <1>3, <1>5 DEF Alone, SameConfig, WriterSame, ReaderSame
  <1>9. WriterSide(e)' /\ Followed(e)
    BY <1>0, <1>2, <1>8, WriterKept
  <1>10. HelloOK(e)'
    BY <1>0, <1>1, <1>2, <1>8, HelloTurns DEF HelloOK, Silent, Over, Phases
  <1>11. ReaderSide(e)'
    <2>1. phase'[e] = "session" /\ got'[e] = got[e] /\ rest'[e] = rest[e]
      BY <1>1, <1>2, <1>3
    <2> QED BY <1>1, <1>3, <1>5, <1>8, <2>1, ReaderTakes
  <1> QED BY <1>6, <1>7, <1>8, <1>9, <1>10, <1>11, OtherKept, Assemble

-----------------------------------------------------------------------------
(* The theorems.                                                            *)

\* Before the connection is made nothing was written, read or sealed.
LEMMA InitLink ==
  ASSUME Init
  PROVE  LinkInv
  <1>1. /\ transport \in Transports /\ method \in [Ends -> Methods]
        /\ phase = [e \in Ends |-> "connect"]
        /\ wctx = [e \in Ends |-> NewContext(method[e], 0)] /\ rctx = [e \in Ends |-> NewContext(method[e], 0)]
        /\ outq = [e \in Ends |-> <<>>] /\ wire = [e \in Ends |-> <<>>]
        /\ twice = [e \in Ends |-> FALSE] /\ retries = 0
        /\ got = [e \in Ends |-> 0] /\ used = [e \in Ends |-> 0]
        /\ rest = [e \in Ends |-> 0] /\ need = [e \in Ends |-> 0]
        /\ sent = [e \in Ends |-> <<>>] /\ delivered = [e \in Ends |-> <<>>]
    BY DEF Init
  <1>2. TypesInv
    <2>1. \A e \in Ends : NewContext(method[e], 0) \in Contexts
      BY <1>1, NewContextType
    <2>2. wctx \in [Ends -> Contexts] /\ rctx \in [Ends -> Contexts]
      BY <1>1, <2>1
    <2>3. /\ outq \in [Ends -> Seq(Frames)] /\ wire \in [Ends -> Seq(Cells)]
          /\ sent \in [Ends -> Seq(Events)] /\ delivered \in [Ends -> Seq(Events)]
      BY <1>1
    <2>4. phase \in [Ends -> Phases]
      BY <1>1 DEF Phases
    <2>5. got \in Counters /\ used \in Counters /\ rest \in Counters /\ need \in Counters
      BY <1>1 DEF Counters
    <2>6. twice \in [Ends -> BOOLEAN] /\ retries \in Nat
      BY <1>1
    <2> QED BY <1>1, <2>2, <2>3, <2>4, <2>5, <2>6 DEF TypesInv
  <1>3. PhasesInv
    BY <1>1 DEF PhasesInv, Ends
  <1>4. ASSUME NEW e \in Ends PROVE WriterSide(e) /\ HelloOK(e) /\ ReaderSide(e)
    <2>0. Other(e) \in Ends
      BY OtherEnd
    <2>1. /\ phase[e] = "connect" /\ wire[e] = <<>> /\ outq[e] = <<>> /\ Incoming(e) = <<>>
          /\ wctx[e] = FirstContext(e) /\ rctx[e] = FirstContext(e)
          /\ sent[e] = <<>> /\ delivered[e] = <<>>
          /\ got[e] = 0 /\ used[e] = 0 /\ rest[e] = 0 /\ need[e] = 0
      BY <1>1, <2>0 DEF Incoming, FirstContext
    <2>2. Count(e) = 0
      BY <1>2, <2>1, CountType
    <2>3. WriterSide(e)
      <3>1. Layout(wire[e])
        BY <2>1 DEF Layout
      <3>2. Chain(e)
        BY <2>1, <2>2 DEF Chain
      <3> QED BY <3>1, <3>2 DEF WriterSide
    <2>4. HelloOK(e)
      BY <2>1 DEF HelloOK, Silent
    <2>5. Total(Incoming(e)) = 0 /\ StartOf(Incoming(e), 1) = 0
      BY <2>1 DEF Total, StartOf
    <2>6. BytesOK(e) /\ NeedOK(e) /\ RestOK(e)
      BY <2>1, <2>5 DEF BytesOK, NeedOK, RestOK, Reading
    <2>7. StepOK(e)
      <3>1. Taken(e) = 0 /\ Len(Incoming(e)) = 0
        BY <2>1 DEF Taken
      <3>2. InPlace(e)
        BY <2>1, <2>5, <3>1 DEF InPlace
      <3> QED BY <2>1, <3>2 DEF StepOK
    <2> QED BY <2>3, <2>4, <2>6, <2>7 DEF ReaderSide
  <1> QED BY <1>2, <1>3, <1>4 DEF LinkInv

\* Every step keeps the invariant.
LEMMA StepLink ==
  ASSUME LinkInv, [Next]_vars
  PROVE  LinkInv'
  <1>1. CASE Connect
    BY <1>1, ConnectKeeps
  <1>2. CASE ConnectFails
    BY <1>2, EndingsKeep
  <1>3. CASE Auth
    BY <1>3, ServerAuthKeeps, ServerReadyKeeps, ClientReadyKeeps DEF Auth
  <1>4. ASSUME NEW e \in Ends,
               SendEvent(e) \/ Write(e) \/ WritePending(e) \/ Read(e) \/ ReadEnds(e) \/ Decode(e)
        PROVE  LinkInv'
    <2>1. CASE SendEvent(e)
      BY <2>1, SendEventKeeps
    <2>2. CASE Write(e)
      BY <2>2, WriteKeeps
    <2>3. CASE WritePending(e)
      BY <2>3, WritePendingKeeps
    <2>4. CASE Read(e)
      BY <2>4, ReadKeeps
    <2>5. CASE ReadEnds(e) \/ DecodeFails(e) \/ DecodeNoise(e)
      BY <2>5, EndingsKeep
    <2>6. CASE DecodeMore(e)
      BY <2>6, DecodeMoreKeeps
    <2>7. CASE Deliver(e)
      BY <2>7, DeliverKeeps
    <2> QED BY <1>4, <2>1, <2>2, <2>3, <2>4, <2>5, <2>6, <2>7 DEF Decode
  <1>5. CASE UNCHANGED vars
    <2>1. UNCHANGED <<transport, method, phase, wctx, rctx, outq, wire, twice, retries,
                      got, used, rest, need, sent, delivered>>
      BY <1>5 DEF vars, config, contexts, writing, reading, history
    <2>2. TypesInv' /\ PhasesInv' /\ SameConfig
      BY <2>1 DEF LinkInv, TypesInv, PhasesInv, SameConfig
    <2>3. ASSUME NEW e \in Ends PROVE WriterSide(e)' /\ HelloOK(e)' /\ ReaderSide(e)'
      <3>1. /\ Alone(e) /\ WriterSame(e) /\ ReaderSame(e) /\ SamePlace(e)
        BY <2>1 DEF Alone, SameConfig, WriterSame, ReaderSame, SamePlace
      <3>2. TypesInv /\ WriterSide(e) /\ HelloOK(e) /\ phase'[e] = phase[e]
        BY <2>1 DEF LinkInv
      <3>3. WriterSide(e)'
        BY <2>2, <3>1, <3>2, WriterKept
      <3>4. HelloOK(e)'
        BY <2>2, <3>1, <3>2, HelloSame DEF ReaderSame
      <3>5. ReaderSide(e)'
        BY <3>1, ReaderIdle
      <3> QED BY <3>3, <3>4, <3>5
    <2> QED BY <2>2, <2>3 DEF LinkInv
  <1> QED BY <1>1, <1>2, <1>3, <1>4, <1>5 DEF Next

\* The connection is laid out as LinkInv says, whatever the pieces in which bytes
\* are read and whatever the websocket writer repeats: the frames of each end lie
\* one behind the other and form one chain of contexts, and the other end reads at
\* the start of a frame with the context this was sealed with.
THEOREM LinkSound == Spec => []LinkInv
  <1>1. Init => LinkInv
    BY InitLink
  <1>2. LinkInv /\ [Next]_vars => LinkInv'
    BY StepLink
  <1> QED BY <1>1, <1>2, PTL DEF Spec

\* Two ends with the same method stay in step for ever, through the switch of
\* contexts after the handshake and whatever the pieces in which frames arrive,
\* unless a frame was put on the connection twice; ends whose methods differ have
\* no session.
THEOREM StaysInStep == Spec => []InStep
  <1>1. LinkInv => InStep
    <2> SUFFICES ASSUME LinkInv PROVE InStep
      OBVIOUS
    <2>0. TypesInv
      BY DEF LinkInv
    <2>1. TypeOK
      <3>1. ASSUME NEW e \in Ends
            PROVE  /\ used[e] <= got[e] /\ got[e] + rest[e] <= Total(Incoming(e))
                   /\ wctx[e].m \in Methods /\ rctx[e].m \in Methods
        <4>1. BytesOK(e) /\ wctx[e] \in Contexts /\ rctx[e] \in Contexts
          BY <2>0, ReaderTypes, EndTypes
        <4> QED BY <4>1 DEF BytesOK, Contexts
      <3>2. {got, used, rest, need} \subseteq Counters
        BY <2>0 DEF TypesInv
      <3> QED BY <2>0, <3>1, <3>2 DEF TypesInv, TypeOK
    <2>2. phase["c"] = "session" => method["c"] = method["s"]
      <3>1. HelloOK("c")
        BY DEF LinkInv, Ends
      <3> QED BY <3>1 DEF HelloOK, SameMethod
    <2>3. ASSUME NEW e \in Ends, method["c"] = method["s"], ~twice[Other(e)]
          PROVE  /\ phase[e] \notin {"garbled", "panic"}
                 /\ Reading(e) /\ need[e] = 0 => Decrypt(e).r # "error"
      <3>1. Sound(e)
        BY <2>3 DEF Sound, SameMethod
      <3>2. phase[e] \notin {"garbled", "panic"}
        BY <3>1, ReaderTypes DEF StepOK
      <3>3. ASSUME Reading(e) PROVE Decrypt(e).r # "error"
        <4>1. Taken(e) \in Nat
          BY ReaderTypes DEF Taken
        <4>2. PICK k \in Nat : k = Taken(e) + 1
          BY <4>1
        <4>3. Decrypt(e).r = "more" \/ Decrypt(e).r = "event"
          BY <3>1, <3>3, <4>2, AtFrame
        <4> QED BY <4>3
      <3> QED BY <3>2, <3>3
    <2> QED BY <2>1, <2>2, <2>3 DEF InStep
  <1> QED BY <1>1, LinkSound, PTL

\* read_encrypt_event waits for the connection only while its buffer holds no
\* complete frame, also after bytes were added to the connection behind its back
\* and when a websocket writer repeated a frame.
THEOREM WaitsCorrectly == Spec => []WaitsOnlyWithoutFrame
  <1>1. LinkInv => WaitsOnlyWithoutFrame
    BY ReaderTypes DEF NeedOK, WaitsOnlyWithoutFrame
  <1> QED BY <1>1, LinkSound, PTL

-----------------------------------------------------------------------------
(* The connection implements EventLink.                                     *)

\* The abstract state of an end, as Link maps it.
EndState(e) ==
    IF Over(e) THEN "over" ELSE IF twice[Other(e)] THEN "broken"
    ELSE IF phase[e] = "session" THEN "session" ELSE "wait"
EndStates == [e \in Ends |-> EndState(e)]

\* The step of an end that enters its session, is cut off or is over.
LEMMA Enters ==
  ASSUME NEW e \in Ends, EndState(Other(e))' = EndState(Other(e)),
         sent' = sent, delivered' = delivered,
         \/ EndState(e)' = EndState(e)
         \/ EndState(e) = "wait" /\ EndState(e)' = "session"
         \/ EndState(e) \in {"wait", "session"} /\ EndState(e)' = "broken"
         \/ EndState(e) # "over" /\ EndState(e)' = "over"
  PROVE  [Link!LinkNext]_Link!lvars
  <1> DEFINE p == EndState(e)'
  <1>1. EndStates[e] = EndState(e) /\ EndStates' = [x \in Ends |-> EndState(x)']
    BY DEF EndStates
  <1>2. EndStates' = [EndStates EXCEPT ![e] = p]
    <2>1. \A x \in Ends : x # e => EndState(x)' = EndState(x)
      BY OtherEnd
    <2> QED BY <1>1, <2>1 DEF EndStates
  <1>3. CASE EndState(e)' = EndState(e)
    <2>1. EndStates' = EndStates
      BY <1>1, <1>2, <1>3 DEF EndStates
    <2> QED BY <2>1 DEF Link!lvars, EndStates, EndState
  <1>4. CASE EndState(e)' # EndState(e)
    <2>1. Link!Enter(e)
      BY <1>1, <1>2, <1>4 DEF Link!Enter, EndStates, EndState
    <2> QED BY <2>1 DEF Link!LinkNext
  <1> QED BY <1>3, <1>4

\* A step that leaves the phases and the repetitions alone moves no end.
LEMMA SameStates ==
  ASSUME phase' = phase, twice' = twice
  PROVE  (\A e \in Ends : EndState(e)' = EndState(e)) /\ EndStates' = EndStates
  <1>1. \A e \in Ends : EndState(e)' = EndState(e)
    BY DEF EndState, Over
  <1> QED BY <1>1 DEF EndStates

\* A step after which one end is in another phase and nothing was repeated.
LEMMA OneMoves ==
  ASSUME LinkInv, NEW e \in Ends, NEW p \in Phases, phase' = [phase EXCEPT ![e] = p],
         twice' = twice, sent' = sent, delivered' = delivered, ~Over(e),
         p \in {"ended", "panic", "garbled"} \/ (phase[e] \in {"auth", "reply"} /\ p \in {"reply", "session"})
  PROVE  [Link!LinkNext]_Link!lvars
  <1>1. phase \in [Ends -> Phases] /\ Other(e) \in Ends /\ Other(e) # e
    BY OtherEnd DEF LinkInv, TypesInv
  <1>2. phase'[e] = p /\ phase'[Other(e)] = phase[Other(e)]
    BY <1>1
  <1>3. EndState(Other(e))' = EndState(Other(e))
    BY <1>2 DEF EndState, Over
  <1>4. \/ EndState(e)' = EndState(e)
        \/ EndState(e) = "wait" /\ EndState(e)' = "session"
        \/ EndState(e) # "over" /\ EndState(e)' = "over"
    <2>1. CASE p \in {"ended", "panic", "garbled"}
      BY <1>2, <2>1 DEF EndState, Over
    <2>2. CASE phase[e] \in {"auth", "reply"} /\ p \in {"reply", "session"}
      BY <1>2, <2>2 DEF EndState, Over
    <2> QED BY <2>1, <2>2
  <1> QED BY <1>3, <1>4, Enters

\* The event that is delivered is the next one the other end sent.
LEMMA NextSent ==
  ASSUME LinkInv, NEW e \in Ends, phase[e] = "session", Decrypt(e).r = "event", ~twice[Other(e)]
  PROVE  /\ Len(delivered[e]) < Len(sent[Other(e)])
         /\ Decrypt(e).ev = sent[Other(e)][Len(delivered[e]) + 1]
  <1> DEFINE o == Other(e)
             n == Len(delivered[e])
  <1>0. /\ o \in Ends /\ TypesInv /\ HelloOK(e) /\ WriterSide(o) /\ Incoming(e) = wire[o]
        /\ n \in Nat /\ Len(sent[o]) \in Nat
    BY ReaderTypes, EndTypes
  <1>1. Sound(e) /\ Reading(e) /\ Taken(e) = 1 + n
    BY <1>0 DEF HelloOK, Sound, Reading, Taken
  <1>2. PICK k \in Nat : k = Taken(e) + 1
    BY <1>0, <1>1
  <1>3. k \in 1 .. Len(wire[o]) /\ Decrypt(e).ev = wire[o][k].f.ev
    BY <1>0, <1>1, <1>2, AtFrame
  <1>4. Len(wire[o]) \in Nat /\ Count(o) \in Nat /\ Len(wire[o]) <= Count(o)
    BY <1>0, CountType
  <1>5. k \in 2 .. Count(o) /\ Count(o) > 0
    BY <1>0, <1>1, <1>2, <1>3, <1>4
  <1>6. Count(o) = 1 + Len(sent[o]) /\ Frame(o, k).ev = sent[o][k - 1]
    BY <1>0, <1>5 DEF WriterSide, Chain
  <1>7. Frame(o, k) = wire[o][k].f
    BY <1>3, <1>4 DEF Frame
  <1>8. k - 1 = n + 1 /\ n < Len(sent[o])
    BY <1>0, <1>1, <1>2, <1>5, <1>6
  <1> QED BY <1>3, <1>6, <1>7, <1>8

\* An event that is sent or delivered.
LEMMA Exchanges ==
  ASSUME LinkInv, NEW e \in Ends, SendEvent(e) \/ Deliver(e)
  PROVE  Link!LinkNext
  <1>0. phase[e] = "session" /\ phase' = phase /\ twice' = twice
    BY DEF SendEvent, Deliver, writing
  <1>1. EndStates' = EndStates /\ EndStates[e] = EndState(e) /\ EndState(e) \in {"session", "broken"}
    BY <1>0, SameStates DEF EndStates, EndState, Over
  <1>2. CASE SendEvent(e)
    <2>1. (\E ev \in Messages : sent' = [sent EXCEPT ![e] = Append(@, ev)]) /\ delivered' = delivered
      BY <1>2 DEF SendEvent
    <2>2. Link!Emit(e)
      BY <1>1, <2>1 DEF Link!Emit, EndStates, EndState
    <2> QED BY <2>2 DEF Link!LinkNext
  <1>3. CASE Deliver(e)
    <2>1. /\ delivered' = [delivered EXCEPT ![e] = Append(@, Decrypt(e).ev)] /\ sent' = sent
          /\ Decrypt(e).r = "event"
      BY <1>3 DEF Deliver, Decoding
    <2>2. delivered \in [Ends -> Seq(Events)]
      BY DEF LinkInv, TypesInv
    <2>3. CASE twice[Other(e)]
      <3>1. EndState(e) = "broken"
        BY <1>0, <2>3 DEF EndState, Over
      <3>2. \A x \in Ends \ {e} : delivered'[x] = delivered[x]
        BY <2>1, <2>2
      <3>3. Link!HandAny(e)
        BY <1>1, <2>1, <3>1, <3>2 DEF Link!HandAny, EndStates, EndState
      <3> QED BY <3>3 DEF Link!LinkNext
    <2>4. CASE ~twice[Other(e)]
      <3>1. EndState(e) = "session"
        BY <1>0, <2>4 DEF EndState, Over
      <3>2. /\ Len(delivered[e]) < Len(sent[Other(e)])
            /\ Decrypt(e).ev = sent[Other(e)][Len(delivered[e]) + 1]
        BY <1>0, <2>1, <2>4, NextSent
      <3>3. delivered' = [delivered EXCEPT ![e] = Append(@, sent[Other(e)][Len(@) + 1])]
        BY <2>1, <3>2
      <3>4. Link!Hand(e)
        BY <1>1, <2>1, <3>1, <3>2, <3>3 DEF Link!Hand, EndStates, EndState
      <3> QED BY <3>4 DEF Link!LinkNext
    <2> QED BY <2>3, <2>4
  <1> QED BY <1>2, <1>3

\* A frame that is repeated cuts the other end off.
LEMMA CutOff ==
  ASSUME LinkInv, NEW e \in Ends, WritePending(e)
  PROVE  [Link!LinkNext]_Link!lvars
  <1> DEFINE o == Other(e)
  <1>0. o \in Ends /\ o # e /\ Other(o) = e /\ twice \in [Ends -> BOOLEAN]
    BY OtherEnd DEF LinkInv, TypesInv
  <1>1. phase' = phase /\ twice' = [twice EXCEPT ![e] = TRUE] /\ sent' = sent /\ delivered' = delivered
    BY DEF WritePending, history
  <1>2. twice'[e] = TRUE /\ twice'[o] = twice[o]
    BY <1>0, <1>1
  <1>3. EndState(e)' = EndState(e)
    BY <1>0, <1>1, <1>2 DEF EndState, Over
  <1>4. CASE Over(o)
    <2>1. EndState(o)' = EndState(o)
      BY <1>1, <1>4 DEF EndState, Over
    <2> QED BY <1>0, <1>1, <1>3, <2>1, Enters
  <1>5. CASE ~Over(o)
    <2>1. EndState(o)' = "broken"
      BY <1>0, <1>1, <1>2, <1>5 DEF EndState, Over
    <2>2. EndState(o) \in {"wait", "session", "broken"}
      BY <1>5 DEF EndState
    <2> QED BY <1>0, <1>1, <1>3, <2>1, <2>2, Enters
  <1> QED BY <1>4, <1>5

\* Framing, ciphers, reassembly and the handshake together are a link that hands
\* over events in order, each once and only within a session, until a websocket
\* writer repeats a frame: every step of the detailed specification is a step of
\* EventLink or changes nothing in it.
THEOREM LinkRefines == Spec => ImplementsLink
  <1>1. Init => Link!LinkInit
    <2> SUFFICES ASSUME Init PROVE Link!LinkInit
      OBVIOUS
    <2>1. ASSUME NEW e \in Ends PROVE EndState(e) = "wait"
      <3>1. phase[e] = "connect" /\ twice[Other(e)] = FALSE
        BY OtherEnd DEF Init
      <3> QED BY <3>1 DEF EndState, Over
    <2>2. EndStates = [e \in Ends |-> "wait"]
      BY <2>1 DEF EndStates
    <2>3. sent = [e \in Ends |-> <<>>] /\ delivered = [e \in Ends |-> <<>>]
      BY DEF Init
    <2> QED BY <2>2, <2>3 DEF Link!LinkInit, EndStates, EndState
  <1>2. LinkInv /\ [Next]_vars => [Link!LinkNext]_Link!lvars
    <2> SUFFICES ASSUME LinkInv, [Next]_vars PROVE [Link!LinkNext]_Link!lvars
      OBVIOUS
    <2>0. "c" \in Ends /\ "s" \in Ends
      BY DEF Ends
    <2>1. CASE phase' = phase /\ twice' = twice /\ sent' = sent /\ delivered' = delivered
      <3>1. EndStates' = EndStates
        BY <2>1, SameStates
      <3> QED BY <2>1, <3>1 DEF Link!lvars, EndStates, EndState
    <2>2. CASE Connect
      <3>1. phase' = [e \in Ends |-> "auth"] /\ twice' = twice /\ sent' = sent /\ delivered' = delivered
        BY <2>2 DEF Connect, history
      <3>2. phase["c"] = "connect" /\ phase["s"] = "connect"
        BY <2>2 DEF Connect, LinkInv, PhasesInv
      <3>3. \A e \in Ends : phase[e] = "connect" /\ phase'[e] = "auth"
        BY <3>1, <3>2 DEF Ends
      <3>4. \A e \in Ends : EndState(e)' = EndState(e)
        BY <3>1, <3>3 DEF EndState, Over
      <3> QED BY <2>0, <3>1, <3>4, OtherEnd, Enters
    <2>3. CASE ConnectFails
      <3>1. /\ phase' = [phase EXCEPT !["c"] = "ended"] /\ twice' = twice /\ sent' = sent /\ delivered' = delivered
            /\ ~Over("c") /\ "ended" \in Phases
        BY <2>3 DEF ConnectFails, writing, history, Over, Phases
      <3> QED BY <2>0, <3>1, OneMoves
    <2>4. CASE Auth
      <3>1. CASE ServerAuth
        <4>1. /\ phase' = [phase EXCEPT !["s"] = "reply"] /\ twice' = twice /\ sent' = sent /\ delivered' = delivered
              /\ ~Over("s") /\ phase["s"] = "auth" /\ "reply" \in Phases
          BY <3>1 DEF ServerAuth, history, Over, Phases
        <4> QED BY <2>0, <4>1, OneMoves
      <3>2. CASE ServerReady
        <4>1. /\ phase' = [phase EXCEPT !["s"] = "session"] /\ twice' = twice /\ sent' = sent /\ delivered' = delivered
              /\ ~Over("s") /\ phase["s"] = "reply" /\ "session" \in Phases
          BY <3>2 DEF ServerReady, writing, history, Over, Phases
        <4> QED BY <2>0, <4>1, OneMoves
      <3>3. CASE ClientReady
        <4>1. /\ phase' = [phase EXCEPT !["c"] = "session"] /\ twice' = twice /\ sent' = sent /\ delivered' = delivered
              /\ ~Over("c") /\ phase["c"] = "auth" /\ "session" \in Phases
          BY <3>3 DEF ClientReady, writing, history, Over, Phases
        <4> QED BY <2>0, <4>1, OneMoves
      <3> QED BY <2>4, <3>1, <3>2, <3>3 DEF Auth
    <2>5. ASSUME NEW e \in Ends,
                 SendEvent(e) \/ Write(e) \/ WritePending(e) \/ Read(e) \/ ReadEnds(e) \/ Decode(e)
          PROVE  [Link!LinkNext]_Link!lvars
      <3>1. CASE SendEvent(e) \/ Deliver(e)
        BY <3>1, Exchanges
      <3>2. CASE WritePending(e)
        BY <3>2, CutOff
      <3>3. CASE Write(e) \/ DecodeMore(e)
        BY <2>1, <3>3 DEF Write, DecodeMore, writing, history
      <3>4. CASE ReadEnds(e) \/ DecodeFails(e)
        <4>1. /\ phase' = [phase EXCEPT ![e] = "ended"] /\ twice' = twice /\ sent' = sent /\ delivered' = delivered
              /\ ~Over(e) /\ "ended" \in Phases
          BY <3>4 DEF ReadEnds, DecodeFails, Decoding, Reading, writing, history, Over, Phases
        <4> QED BY <4>1, OneMoves
      <3>5. CASE DecodeNoise(e)
        <4>1. /\ phase' = [phase EXCEPT ![e] = "garbled"] /\ twice' = twice /\ sent' = sent /\ delivered' = delivered
              /\ ~Over(e) /\ "garbled" \in Phases
          BY <3>5 DEF DecodeNoise, Decoding, Reading, writing, history, Over, Phases
        <4> QED BY <4>1, OneMoves
      <3>6. CASE Read(e)
        <4>1. twice' = twice /\ sent' = sent /\ delivered' = delivered /\ ~Over(e) /\ "panic" \in Phases
          BY <3>6 DEF Read, Reading, writing, history, Over, Phases
        <4>2. phase' = phase \/ phase' = [phase EXCEPT ![e] = "panic"]
          BY <3>6 DEF Read, ReadTcp, ReadWs
        <4>3. CASE phase' = phase
          BY <2>1, <4>1, <4>3
        <4>4. CASE phase' = [phase EXCEPT ![e] = "panic"]
          BY <4>1, <4>4, OneMoves
        <4> QED BY <4>2, <4>3, <4>4
      <3> QED BY <2>5, <3>1, <3>2, <3>3, <3>4, <3>5, <3>6 DEF Decode
    <2>6. CASE UNCHANGED vars
      BY <2>1, <2>6 DEF vars, writing, history
    <2> QED BY <2>2, <2>3, <2>4, <2>5, <2>6 DEF Next
  <1> QED BY <1>1, <1>2, LinkSound, PTL DEF Spec, ImplementsLink, Link!LinkSpec
=============================================================================
