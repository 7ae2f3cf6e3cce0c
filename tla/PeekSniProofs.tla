---------------------------- MODULE PeekSniProofs ----------------------------
(***************************************************************************)
(* Proofs about the parser of a TLS hello: its hand-made offsets stay      *)
(* within the record, for hellos with session ids, ciphers and extensions  *)
(* in any number and for every byte at which a record may end, and the     *)
(* name it finds is the first one of the hello.                            *)
(*                                                                         *)
(* Each round of a loop keeps the offsets within the record because it     *)
(* compared them with what is left of it (OffsetsInv); the one comparison  *)
(* that is missing, that of the session id, is harmless for a hello that   *)
(* is whole (SidInv).  That a hello consists of bytes, and where its       *)
(* session id is, needs the length of the list of extensions, which is     *)
(* found by induction over the extensions.                                 *)
(*                                                                         *)
(* That the name is the right one needs where the parser stands: at the    *)
(* first byte of an extension, or of a name of the first list that is not  *)
(* empty, until it has found one there (PlaceInv).  Where the extensions   *)
(* and the names begin is again found by induction over them.              *)
(***************************************************************************)
EXTENDS PeekSni, WellFoundedInduction, TLAPS

-----------------------------------------------------------------------------
(* Sequences put together.                                                  *)

\* Induction over the natural numbers, for a set: one without a least number
\* that is missing from it has them all.
LEMMA SetInduction ==
  ASSUME NEW S \in SUBSET Nat, 0 \in S, \A n \in S : n + 1 \in S
  PROVE  S = Nat
  <1> DEFINE R == OpToRel(<, Nat)
             T == Nat \ S
  <1>1. IsWellFoundedOn(R, Nat)
    BY NatLessThanWellFounded
  <1>2. \A y, x \in Nat : y < x => <<y, x>> \in R
    BY DEF OpToRel
  <1> HIDE DEF R
  <1>3. ASSUME T # {} PROVE FALSE
    <2>1. PICK x \in T : \A y \in T : ~(<<y, x>> \in R)
      BY <1>1, <1>3, WFMin
    <2>2. x # 0 /\ x - 1 \in Nat /\ x - 1 < x /\ x \in Nat
      BY <2>1
    <2>3. x - 1 \notin T
      BY <1>2, <2>1, <2>2
    <2>4. x - 1 + 1 \in S
      BY <2>2, <2>3
    <2> QED BY <2>1, <2>2, <2>4
  <1> QED BY <1>3

\* The function that FlattenSeq is defined with: what the first i parts make.
Joined(q, n, f) == f = [i \in 1 .. n |-> IF i = 1 THEN q[i] ELSE f[i - 1] \o q[i]]

\* The recursion of FlattenSeq has a solution for any number of parts.
LEMMA JoinedExists ==
  ASSUME NEW q, NEW N \in Nat
  PROVE  \E f : Joined(q, N, f)
  <1> DEFINE Good(n) == \E f : Joined(q, n, f)
             Fine == {n \in Nat : Good(n)}
  <1>1. Good(0)
    <2>1. Joined(q, 0, <<>>)
      BY DEF Joined
    <2> QED BY <2>1
  <1>2. ASSUME NEW n \in Nat, Good(n) PROVE Good(n + 1)
    <2>1. PICK g : Joined(q, n, g)
      BY <1>2
    <2> DEFINE h == [i \in 1 .. n + 1 |->
                       IF i = n + 1 THEN (IF i = 1 THEN q[i] ELSE g[i - 1] \o q[i]) ELSE g[i]]
    <2>2. \A i \in 1 .. n : i \in 1 .. n + 1 /\ i # n + 1 /\ h[i] = g[i]
      OBVIOUS
    <2>3. \A i \in 1 .. n : g[i] = IF i = 1 THEN q[i] ELSE g[i - 1] \o q[i]
      BY <2>1 DEF Joined
    <2>4. \A i \in 1 .. n + 1 : h[i] = IF i = 1 THEN q[i] ELSE h[i - 1] \o q[i]
      <3> TAKE i \in 1 .. n + 1
      <3>1. CASE i = n + 1
        <4>1. i # 1 => i - 1 \in 1 .. n /\ h[i - 1] = g[i - 1]
          BY <2>2, <3>1
        <4> QED BY <3>1, <4>1
      <3>2. CASE i # n + 1
        <4>1. i \in 1 .. n /\ h[i] = g[i]
          BY <2>2, <3>2
        <4>2. i # 1 => i - 1 \in 1 .. n /\ h[i - 1] = g[i - 1]
          BY <2>2, <4>1
        <4> QED BY <2>3, <4>1, <4>2
      <3> QED BY <3>1, <3>2
    <2>5. Joined(q, n + 1, h)
      BY <2>4 DEF Joined
    <2> HIDE DEF h
    <2> QED BY <2>5
  <1> HIDE DEF Good
  <1>3. Fine \in SUBSET Nat /\ 0 \in Fine /\ \A n \in Fine : n + 1 \in Fine
    BY <1>1, <1>2
  <1>4. Fine = Nat
    <2> HIDE DEF Fine
    <2> QED BY <1>3, SetInduction
  <1>5. Good(N)
    BY <1>4
  <1> QED BY <1>5 DEF Good

\* Parts of at most K elements of S, put together.
LEMMA Flattened ==
  ASSUME NEW S, NEW K \in Nat, NEW q \in Seq(Seq(S)), \A i \in 1 .. Len(q) : Len(q[i]) <= K
  PROVE  FlattenSeq(q) \in Seq(S) /\ Len(FlattenSeq(q)) <= K * Len(q)
  <1> DEFINE N == Len(q)
             flatten == CHOOSE f : Joined(q, N, f)
             Fits(n) == flatten[n + 1] \in Seq(S) /\ Len(flatten[n + 1]) <= K * (n + 1)
             Fine == {n \in Nat : n + 1 <= N => Fits(n)}
  <1>0. N \in Nat /\ \A i \in 1 .. N : q[i] \in Seq(S) /\ Len(q[i]) \in Nat /\ Len(q[i]) <= K
    OBVIOUS
  <1>1. FlattenSeq(q) = IF N = 0 THEN q ELSE flatten[N]
    BY Zenon DEF FlattenSeq, Joined
  <1> HIDE DEF N
  <1>2. Joined(q, N, flatten)
    BY <1>0, JoinedExists, Zenon
  <1> HIDE DEF flatten
  <1>3. \A i \in 1 .. N : flatten[i] = IF i = 1 THEN q[i] ELSE flatten[i - 1] \o q[i]
    BY <1>2 DEF Joined
  <1>4. 0 + 1 <= N => Fits(0)
    BY <1>0, <1>3
  <1>5. ASSUME NEW n \in Nat, n + 1 <= N => Fits(n), n + 1 + 1 <= N PROVE Fits(n + 1)
    <2>1. n + 2 \in 1 .. N /\ n + 2 # 1 /\ n + 2 - 1 = n + 1 /\ n + 1 + 1 = n + 2 /\ n + 1 <= N
      BY <1>0, <1>5
    <2>2. flatten[n + 2] = flatten[n + 1] \o q[n + 2]
      <3>1. PICK m \in 1 .. N : m = n + 2
        BY <2>1
      <3>2. m # 1 /\ m - 1 = n + 1
        BY <2>1, <3>1
      <3>3. flatten[m] = flatten[m - 1] \o q[m]
        BY <1>3, <3>2
      <3> QED BY <3>1, <3>2, <3>3
    <2>3. flatten[n + 1] \in Seq(S) /\ Len(flatten[n + 1]) <= K * (n + 1)
      BY <1>5, <2>1
    <2>4. q[n + 2] \in Seq(S) /\ Len(q[n + 2]) <= K
      BY <1>0, <2>1
    <2>5. K * (n + 2) = K * (n + 1) + K /\ K * (n + 1) \in Nat
      OBVIOUS
    <2>6. flatten[n + 2] \in Seq(S) /\ Len(flatten[n + 2]) = Len(flatten[n + 1]) + Len(q[n + 2])
      BY <2>2, <2>3, <2>4
    <2>7. Len(flatten[n + 2]) <= K * (n + 2)
      <3> DEFINE a == Len(flatten[n + 1])
                 b == Len(q[n + 2])
                 c == K * (n + 1)
      <3>1. a \in Nat /\ b \in Nat /\ a <= c /\ b <= K /\ c \in Nat
        BY <2>3, <2>4, <2>5
      <3> HIDE DEF a, b, c
      <3>2. a + b <= c + K
        BY <3>1
      <3> QED BY <2>5, <2>6, <3>2 DEF a, b, c
    <2> QED BY <2>1, <2>6, <2>7
  <1> HIDE DEF Fits
  <1>6. Fine \in SUBSET Nat /\ 0 \in Fine /\ \A n \in Fine : n + 1 \in Fine
    <2>1. 0 \in Fine
      BY <1>4
    <2>2. ASSUME NEW n \in Fine PROVE n + 1 \in Fine
      <3>1. n \in Nat /\ (n + 1 <= N => Fits(n)) /\ n + 1 \in Nat
        OBVIOUS
      <3> QED BY <1>5, <3>1
    <2> QED BY <2>1, <2>2
  <1>7. Fine = Nat
    <2> HIDE DEF Fine
    <2> QED BY <1>6, SetInduction
  <1>8. CASE N = 0
    <2>1. FlattenSeq(q) = <<>>
      BY <1>1, <1>8 DEF N
    <2>2. K * N = 0 /\ Len(<<>>) = 0
      BY <1>8
    <2> QED BY <2>1, <2>2 DEF N
  <1>9. CASE N # 0
    <2>1. N - 1 \in Fine /\ N - 1 + 1 = N
      BY <1>0, <1>7, <1>9
    <2>2. Fits(N - 1)
      BY <1>0, <2>1
    <2> QED BY <1>1, <1>9, <2>1, <2>2 DEF Fits, N
  <1> QED BY <1>8, <1>9

-----------------------------------------------------------------------------
(* The bytes of a hello.                                                    *)

Bytes == 0 .. 255

\* What fits two bytes.
Short(n) == n \in Nat /\ n < 65536

\* A number below 2^16 is two bytes.
LEMMA TwoBytes ==
  ASSUME NEW n, Short(n)
  PROVE  Two(n) \in Seq(Bytes) /\ Len(Two(n)) = 2
  <1> DEFINE a == n \div 256
             b == n % 256
  <1>1. n \div 256 \in 0 .. 255
    BY SMT DEF Short
  <1>2. n % 256 \in 0 .. 255
    BY SMT DEF Short
  <1>3. a \in Bytes /\ b \in Bytes
    BY <1>1, <1>2 DEF Bytes
  <1> HIDE DEF a, b
  <1>4. <<a, b>> \in Seq(Bytes) /\ Len(<<a, b>>) = 2
    BY <1>3, SMT
  <1> QED BY <1>4, Zenon DEF Two, a, b

\* Two sequences of bytes behind each other.
LEMMA Join ==
  ASSUME NEW p \in Seq(Bytes), NEW q \in Seq(Bytes)
  PROVE  /\ p \o q \in Seq(Bytes) /\ Len(p \o q) = Len(p) + Len(q)
         /\ Len(p) \in Nat /\ Len(q) \in Nat
         /\ \A i \in 1 .. Len(p) : (p \o q)[i] = p[i]
  OBVIOUS

\* Two sequences of limited lengths, behind each other.
LEMMA JoinShort ==
  ASSUME NEW p \in Seq(Bytes), NEW q \in Seq(Bytes), NEW m \in Nat, NEW n \in Nat,
         Len(p) <= m, Len(q) <= n
  PROVE  p \o q \in Seq(Bytes) /\ Len(p \o q) <= m + n
  <1>1. p \o q \in Seq(Bytes) /\ Len(p \o q) = Len(p) + Len(q) /\ Len(p) \in Nat /\ Len(q) \in Nat
    BY Join
  <1> QED BY <1>1

\* A length, and what it is the length of.
LEMMA WithLength ==
  ASSUME NEW b \in Seq(Bytes), NEW n, Short(n), Len(b) <= n
  PROVE  Two(Len(b)) \o b \in Seq(Bytes) /\ Len(Two(Len(b)) \o b) <= 2 + n
  <1>1. Len(b) \in Nat /\ n \in Nat
    BY DEF Short
  <1>2. Short(Len(b))
    BY <1>1, SMT DEF Short
  <1>3. Two(Len(b)) \in Seq(Bytes) /\ Len(Two(Len(b))) = 2
    BY <1>2, TwoBytes
  <1>4. PICK p \in Seq(Bytes) : p = Two(Len(b))
    BY <1>3
  <1>5. 2 \in Nat /\ Len(p) <= 2
    <2>1. Len(p) = 2
      BY <1>3, <1>4, Zenon
    <2> QED BY <2>1
  <1>6. p \o b \in Seq(Bytes) /\ Len(p \o b) <= 2 + n
    BY <1>1, <1>5, JoinShort
  <1> QED BY <1>4, <1>6

\* A run of one byte.
LEMMA Run ==
  ASSUME NEW n \in Nat, NEW b \in Bytes
  PROVE  [i \in 1 .. n |-> b] \in Seq(Bytes) /\ Len([i \in 1 .. n |-> b]) = n
  OBVIOUS

\* A name takes at most five bytes.
LEMMA NameLen ==
  ASSUME NEW n \in Names
  PROVE  NameBytes(n) \in Seq(Bytes) /\ Len(NameBytes(n)) <= 5
  <1> DEFINE t == n.type
             b == n.bytes
  <1>1. t \in Bytes
    BY DEF Names, Bytes
  <1>2. b \in Seq(Bytes) /\ Len(b) <= 2
    <2>1. b = <<7>> \/ b = <<8, 9>>
      BY DEF Names
    <2>2. 7 \in Bytes /\ 8 \in Bytes /\ 9 \in Bytes
      BY DEF Bytes
    <2>3. <<7>> \in Seq(Bytes) /\ Len(<<7>>) = 1
      BY <2>2, SMT
    <2>4. <<8, 9>> \in Seq(Bytes) /\ Len(<<8, 9>>) = 2
      BY <2>2, SMT
    <2>5. b \in Seq(Bytes) /\ (Len(b) = 1 \/ Len(b) = 2)
      BY <2>1, <2>3, <2>4, Zenon
    <2>6. 1 <= 2 /\ 2 <= 2
      OBVIOUS
    <2> HIDE DEF b
    <2> QED BY <2>5, <2>6, Zenon
  <1> HIDE DEF t, b
  <1>3. <<t>> \in Seq(Bytes) /\ Len(<<t>>) <= 1
    BY <1>1
  <1>4. Short(Len(b))
    BY <1>2, SMT DEF Short
  <1>5. Two(Len(b)) \in Seq(Bytes) /\ Len(Two(Len(b))) <= 2
    <2>1. Two(Len(b)) \in Seq(Bytes) /\ Len(Two(Len(b))) = 2
      BY <1>4, TwoBytes
    <2> QED BY <2>1
  <1>6. 1 \in Nat /\ 2 \in Nat /\ 1 + 2 = 3 /\ 3 \in Nat /\ 3 + 2 = 5
    OBVIOUS
  <1>7. <<t>> \o Two(Len(b)) \in Seq(Bytes) /\ Len(<<t>> \o Two(Len(b))) <= 3
    <2>1. <<t>> \o Two(Len(b)) \in Seq(Bytes) /\ Len(<<t>> \o Two(Len(b))) <= 1 + 2
      BY <1>3, <1>5, <1>6, JoinShort
    <2> QED BY <1>6, <2>1
  <1>8. (<<t>> \o Two(Len(b))) \o b \in Seq(Bytes) /\ Len((<<t>> \o Two(Len(b))) \o b) <= 3 + 2
    BY <1>2, <1>6, <1>7, JoinShort
  <1>9. NameBytes(n) = (<<t>> \o Two(Len(b))) \o b
    BY DEF NameBytes, t, b
  <1> QED BY <1>6, <1>8, <1>9

\* A list of at most two names takes at most twelve.
LEMMA ListLen ==
  ASSUME NEW ns \in ServerNames
  PROVE  ListBytes(ns) \in Seq(Bytes) /\ Len(ListBytes(ns)) <= 12
  <1> DEFINE q == [i \in DOMAIN ns |-> NameBytes(ns[i])]
             b == FlattenSeq(q)
  <1>1. ns \in Seq(Names) /\ Len(ns) <= 2
    <2> HIDE DEF q
    <2>1. CASE ns = <<>>
      BY <2>1
    <2>2. ASSUME NEW n \in Names, ns = <<n>> PROVE ns \in Seq(Names) /\ Len(ns) <= 2
      BY <2>2
    <2>3. ASSUME NEW n \in Names, NEW m \in Names, ns = <<n, m>> PROVE ns \in Seq(Names) /\ Len(ns) <= 2
      BY <2>3
    <2> QED BY <2>1, <2>2, <2>3 DEF ServerNames
  <1>2. q \in Seq(Seq(Bytes)) /\ Len(q) = Len(ns) /\ \A i \in 1 .. Len(q) : Len(q[i]) <= 5
    <2>1. \A i \in 1 .. Len(ns) : NameBytes(ns[i]) \in Seq(Bytes) /\ Len(NameBytes(ns[i])) <= 5
      BY <1>1, NameLen
    <2> QED BY <1>1, <2>1
  <1> HIDE DEF q
  <1>3. b \in Seq(Bytes) /\ Len(b) <= 5 * Len(q)
    <2>1. 5 \in Nat
      OBVIOUS
    <2> QED BY <1>2, <2>1, Flattened
  <1>4. Len(b) <= 10 /\ Short(10) /\ 2 + 10 = 12
    BY <1>1, <1>2, <1>3, SMT DEF Short
  <1> HIDE DEF b
  <1>5. Two(Len(b)) \o b \in Seq(Bytes) /\ Len(Two(Len(b)) \o b) <= 2 + 10
    BY <1>3, <1>4, WithLength
  <1>6. ListBytes(ns) = Two(Len(b)) \o b
    BY DEF ListBytes, b, q
  <1> QED BY <1>4, <1>5, <1>6

\* An extension takes at most sixteen.
LEMMA ExtLen ==
  ASSUME NEW x \in Exts
  PROVE  ExtBytes(x) \in Seq(Bytes) /\ Len(ExtBytes(x)) <= 16
  <1> DEFINE b == IF x.type = 0 THEN ListBytes(x.names) ELSE x.data
             t == x.type
  <1>1. b \in Seq(Bytes) /\ Len(b) <= 12 /\ (t = 0 \/ t = 1)
    <2>1. CASE x \in [type : {0}, names : ServerNames, data : {<<>>}]
      <3>1. x.type = 0 /\ x.names \in ServerNames
        BY <2>1
      <3> QED BY <3>1, ListLen
    <2>2. CASE x \in [type : {1}, names : {<<>>}, data : {<<>>, <<0, 0, 1, 5>>}]
      <3>1. x.type = 1 /\ (x.data = <<>> \/ x.data = <<0, 0, 1, 5>>)
        BY <2>2
      <3>2. 0 \in Bytes /\ 1 \in Bytes /\ 5 \in Bytes
        BY DEF Bytes
      <3>3. <<0, 0, 1, 5>> \in Seq(Bytes) /\ Len(<<0, 0, 1, 5>>) <= 12
        BY <3>2, SMT
      <3>4. <<>> \in Seq(Bytes) /\ Len(<<>>) <= 12
        OBVIOUS
      <3>5. x.data \in Seq(Bytes) /\ Len(x.data) <= 12
        BY <3>1, <3>3, <3>4, Zenon
      <3> QED BY <3>1, <3>5
    <2> QED BY <2>1, <2>2 DEF Exts
  <1> HIDE DEF b, t
  <1>2. Two(t) \in Seq(Bytes) /\ Len(Two(t)) <= 2
    <2>1. Short(t)
      BY <1>1, SMT DEF Short
    <2>2. Two(t) \in Seq(Bytes) /\ Len(Two(t)) = 2
      BY <2>1, TwoBytes
    <2> QED BY <2>2
  <1>3. Two(Len(b)) \in Seq(Bytes) /\ Len(Two(Len(b))) <= 2
    <2>1. Short(Len(b))
      BY <1>1, SMT DEF Short
    <2>2. Two(Len(b)) \in Seq(Bytes) /\ Len(Two(Len(b))) = 2
      BY <2>1, TwoBytes
    <2> QED BY <2>2
  <1>4. 2 \in Nat /\ 2 + 2 = 4 /\ 4 \in Nat /\ 12 \in Nat /\ 4 + 12 = 16
    OBVIOUS
  <1>5. Two(t) \o Two(Len(b)) \in Seq(Bytes) /\ Len(Two(t) \o Two(Len(b))) <= 4
    <2>1. Two(t) \o Two(Len(b)) \in Seq(Bytes) /\ Len(Two(t) \o Two(Len(b))) <= 2 + 2
      BY <1>2, <1>3, <1>4, JoinShort
    <2> QED BY <1>4, <2>1
  <1>6. (Two(t) \o Two(Len(b))) \o b \in Seq(Bytes) /\ Len((Two(t) \o Two(Len(b))) \o b) <= 4 + 12
    BY <1>1, <1>4, <1>5, JoinShort
  <1>7. ExtBytes(x) = (Two(t) \o Two(Len(b))) \o b
    BY DEF ExtBytes, b, t
  <1> QED BY <1>4, <1>6, <1>7

\* The extensions of a hello fit the two bytes of their length.
LEMMA ExtsLen ==
  ASSUME NEW xs \in Seq(Exts), Len(xs) <= MaxExts
  PROVE  ExtsBytes(xs) \in Seq(Bytes)
  <1> DEFINE q == [i \in DOMAIN xs |-> ExtBytes(xs[i])]
             b == FlattenSeq(q)
  <1>1. q \in Seq(Seq(Bytes)) /\ Len(q) = Len(xs) /\ \A i \in 1 .. Len(q) : Len(q[i]) <= 16
    BY ExtLen
  <1> HIDE DEF q
  <1>2. b \in Seq(Bytes) /\ Len(b) <= 16 * Len(q)
    <2>1. 16 \in Nat
      OBVIOUS
    <2> QED BY <1>1, <2>1, Flattened
  <1> HIDE DEF b
  <1>3. Short(16 * Len(q))
    <2>1. Len(q) \in Nat /\ Len(q) <= MaxExts /\ MaxExts \in Nat /\ MaxExts <= 4095
      BY <1>1, SniAssumption, SMT
    <2> QED BY <2>1, SMT DEF Short
  <1>4. Two(Len(b)) \o b \in Seq(Bytes)
    BY <1>2, <1>3, WithLength
  <1>5. ExtsBytes(xs) = Two(Len(b)) \o b
    BY DEF ExtsBytes, b, q
  <1> QED BY <1>4, <1>5

\* A hello is a sequence of bytes in which the length of the session id lies behind
\* the fixed fields and the session id behind its length.
LEMMA HelloFacts ==
  ASSUME NEW kind \in {ClientHello, 2}, NEW sid \in SidLens, NEW ciphers \in CipherLens,
         NEW xs \in Seq(Exts), Len(xs) <= MaxExts,
         NEW h, h = HelloBytes(kind, sid, ciphers, xs)
  PROVE  h \in Seq(Bytes) /\ Fixed + 1 + sid <= Len(h) /\ h[Fixed + 1] = sid
  <1> DEFINE p1 == <<kind>> \o [i \in 1 .. Fixed - 1 |-> 1]
             p2 == p1 \o <<sid>>
             p3 == p2 \o [i \in 1 .. sid |-> 3]
             p4 == p3 \o Two(ciphers)
             p5 == p4 \o [i \in 1 .. ciphers |-> 3]
             p6 == p5 \o <<1, 0>>
  <1>0. h = p6 \o ExtsBytes(xs)
    BY DEF HelloBytes
  <1>1. /\ kind \in Bytes /\ sid \in Bytes /\ ciphers \in Bytes /\ 1 \in Bytes /\ 3 \in Bytes /\ 0 \in Bytes
        /\ Fixed \in Nat /\ Fixed - 1 \in Nat /\ sid \in Nat /\ ciphers \in Nat /\ Short(ciphers)
    BY SniAssumption, SMT DEF Bytes, ClientHello, Short
  <1>2. p1 \in Seq(Bytes) /\ Len(p1) = Fixed
    <2>1. <<kind>> \in Seq(Bytes) /\ Len(<<kind>>) = 1
      BY <1>1
    <2>2. [i \in 1 .. Fixed - 1 |-> 1] \in Seq(Bytes) /\ Len([i \in 1 .. Fixed - 1 |-> 1]) = Fixed - 1
      BY <1>1, Run
    <2>3. 1 + (Fixed - 1) = Fixed
      BY <1>1
    <2>4. PICK k \in Seq(Bytes), r \in Seq(Bytes) : k = <<kind>> /\ r = [i \in 1 .. Fixed - 1 |-> 1]
      BY <2>1, <2>2
    <2>5. Len(k) = 1 /\ Len(r) = Fixed - 1 /\ p1 = k \o r
      BY <2>1, <2>2, <2>4
    <2> HIDE DEF p1
    <2>6. p1 \in Seq(Bytes) /\ Len(p1) = Len(k) + Len(r)
      BY <2>5, Join
    <2> QED BY <2>3, <2>5, <2>6
  <1> HIDE DEF p1
  <1>3. p2 \in Seq(Bytes) /\ Len(p2) = Fixed + 1 /\ p2[Fixed + 1] = sid
    BY <1>1, <1>2
  <1> HIDE DEF p2
  <1>4. p3 \in Seq(Bytes) /\ Len(p3) = Fixed + 1 + sid /\ \A i \in 1 .. Len(p2) : p3[i] = p2[i]
    <2>1. [i \in 1 .. sid |-> 3] \in Seq(Bytes) /\ Len([i \in 1 .. sid |-> 3]) = sid
      BY <1>1, Run
    <2>2. PICK r \in Seq(Bytes) : r = [i \in 1 .. sid |-> 3]
      BY <2>1
    <2>3. Len(r) = sid /\ p3 = p2 \o r
      BY <2>1, <2>2
    <2> HIDE DEF p3
    <2>4. p3 \in Seq(Bytes) /\ Len(p3) = Len(p2) + Len(r) /\ \A i \in 1 .. Len(p2) : p3[i] = p2[i]
      BY <1>3, <2>3, Join
    <2> QED BY <1>3, <2>3, <2>4
  <1> HIDE DEF p3
  <1>5. p4 \in Seq(Bytes) /\ Len(p3) <= Len(p4) /\ \A i \in 1 .. Len(p3) : p4[i] = p3[i]
    <2>1. Two(ciphers) \in Seq(Bytes)
      BY <1>1, TwoBytes
    <2> QED BY <1>4, <2>1, Join
  <1> HIDE DEF p4
  <1>6. p5 \in Seq(Bytes) /\ Len(p4) <= Len(p5) /\ \A i \in 1 .. Len(p4) : p5[i] = p4[i]
    <2>1. [i \in 1 .. ciphers |-> 3] \in Seq(Bytes)
      BY <1>1, Run
    <2>2. PICK r \in Seq(Bytes) : r = [i \in 1 .. ciphers |-> 3]
      BY <2>1
    <2>3. p5 = p4 \o r
      BY <2>2
    <2> HIDE DEF p5
    <2>4. /\ p5 \in Seq(Bytes) /\ Len(p5) = Len(p4) + Len(r) /\ Len(p4) \in Nat /\ Len(r) \in Nat
          /\ \A i \in 1 .. Len(p4) : p5[i] = p4[i]
      BY <1>5, <2>3, Join
    <2> QED BY <2>4
  <1> HIDE DEF p5
  <1>7. p6 \in Seq(Bytes) /\ Len(p5) <= Len(p6) /\ \A i \in 1 .. Len(p5) : p6[i] = p5[i]
    <2>1. <<1, 0>> \in Seq(Bytes)
      BY <1>1
    <2> QED BY <1>6, <2>1, Join
  <1> HIDE DEF p6
  <1>8. h \in Seq(Bytes) /\ Len(p6) <= Len(h) /\ \A i \in 1 .. Len(p6) : h[i] = p6[i]
    BY <1>0, <1>7, ExtsLen, Join
  <1>9. Fixed + 1 \in 1 .. Len(p2) /\ Len(p2) <= Len(p3)
    BY <1>1, <1>3, <1>4
  <1>10. Len(p3) <= Len(h) /\ h[Fixed + 1] = p2[Fixed + 1]
    <2>1. PICK j \in 1 .. Len(p2) : j = Fixed + 1
      BY <1>9
    <2>2. /\ Len(p2) \in Nat /\ Len(p3) \in Nat /\ Len(p4) \in Nat /\ Len(p5) \in Nat /\ Len(p6) \in Nat
          /\ Len(h) \in Nat
      BY <1>3, <1>4, <1>5, <1>6, <1>7, <1>8
    <2>3. /\ Len(p3) <= Len(h) /\ j \in 1 .. Len(p3) /\ j \in 1 .. Len(p4)
          /\ j \in 1 .. Len(p5) /\ j \in 1 .. Len(p6)
      BY <1>5, <1>6, <1>7, <1>8, <1>9, <2>2
    <2>4. h[j] = p6[j] /\ p6[j] = p5[j] /\ p5[j] = p4[j] /\ p4[j] = p3[j] /\ p3[j] = p2[j]
      BY <1>4, <1>5, <1>6, <1>7, <1>8, <2>3
    <2> QED BY <2>1, <2>3, <2>4
  <1> QED BY <1>3, <1>4, <1>8, <1>10

-----------------------------------------------------------------------------
(* The parser.                                                              *)

OffsetsInv ==
    /\ pc \in {"start", "ext", "name", "name_found", "error", "panic"}
    /\ data \in Seq(Bytes)
    /\ at \in Nat /\ at <= Len(data) /\ next \in Nat /\ next <= Len(data) /\ names \in Nat

\* The end of the session id.
SidEnd == Fixed + 1 + data[Fixed + 1]

SidInv ==
    /\ whole => SidEnd <= Len(data)
    /\ pc = "panic" => Fixed + 4 <= Len(data) /\ ~(SidEnd <= Len(data))

SniInv == OffsetsInv /\ SidInv

\* A byte of the record, and a number of two.
LEMMA Bytewise ==
  ASSUME OffsetsInv
  PROVE  /\ Len(data) \in Nat
         /\ \A i \in Nat : i + 1 <= Len(data) => Byte(i) \in Nat
         /\ \A i \in Nat : i + 2 <= Len(data) => Number(i) \in Nat
  <1>1. Len(data) \in Nat /\ \A j \in 1 .. Len(data) : data[j] \in Nat
    <2>1. data \in Seq(Bytes) /\ Bytes \subseteq Nat
      BY DEF OffsetsInv, Bytes
    <2>2. Len(data) \in Nat /\ \A j \in 1 .. Len(data) : data[j] \in Bytes
      BY <2>1
    <2> QED BY <2>1, <2>2
  <1>2. ASSUME NEW i \in Nat, i + 1 <= Len(data) PROVE data[i + 1] \in Nat
    BY <1>1, <1>2
  <1>3. ASSUME NEW i \in Nat, i + 2 <= Len(data) PROVE 256 * data[i + 1] + data[i + 2] \in Nat
    <2>1. data[i + 1] \in Nat /\ data[i + 2] \in Nat
      BY <1>1, <1>3
    <2> QED BY <2>1
  <1> QED BY <1>1, <1>2, <1>3 DEF Byte, Number

\* peek_sni starts with a record that holds the fixed fields.
LEMMA InitSni ==
  ASSUME Init
  PROVE  SniInv
  <1>1. PICK kind \in {ClientHello, 2}, sid \in SidLens, ciphers \in CipherLens :
          \E n \in Fixed .. Len(HelloBytes(kind, sid, ciphers, exts)) :
             /\ data = SubSeq(HelloBytes(kind, sid, ciphers, exts), 1, n)
             /\ whole = (n = Len(HelloBytes(kind, sid, ciphers, exts)) /\ kind = ClientHello)
    BY DEF Init
  <1>2. PICK h : h = HelloBytes(kind, sid, ciphers, exts)
    OBVIOUS
  <1>3. PICK n \in Fixed .. Len(h) : data = SubSeq(h, 1, n) /\ whole = (n = Len(h) /\ kind = ClientHello)
    BY <1>1, <1>2
  <1>4. exts \in Seq(Exts) /\ Len(exts) <= MaxExts
    <2>1. PICK k \in 0 .. MaxExts : exts \in [1 .. k -> Exts]
      BY DEF Init
    <2>2. k \in Nat /\ k <= MaxExts
      BY <2>1, SniAssumption
    <2> QED BY <2>1, <2>2
  <1>5. h \in Seq(Bytes) /\ Fixed + 1 + sid <= Len(h) /\ h[Fixed + 1] = sid
    BY <1>2, <1>4, HelloFacts
  <1>6. Fixed \in Nat /\ sid \in Nat /\ n \in Nat /\ n <= Len(h) /\ Len(h) \in Nat
    BY <1>3, <1>5, SniAssumption
  <1>7. data \in Seq(Bytes) /\ Len(data) = n /\ \A i \in 1 .. n : data[i] = h[i]
    BY <1>3, <1>5, <1>6
  <1>8. pc = "start" /\ at = 0 /\ next = 0 /\ names = 0
    BY DEF Init
  <1>9. OffsetsInv
    BY <1>6, <1>7, <1>8 DEF OffsetsInv
  <1>10. whole => SidEnd <= Len(data)
    <2> SUFFICES ASSUME whole PROVE SidEnd <= Len(data)
      OBVIOUS
    <2>1. n = Len(h)
      BY <1>3
    <2>2. Fixed + 1 \in 1 .. n
      BY <1>5, <1>6, <2>1
    <2>3. data[Fixed + 1] = sid
      BY <1>5, <1>7, <2>2
    <2> QED BY <1>5, <1>7, <2>1, <2>3 DEF SidEnd
  <1> QED BY <1>8, <1>9, <1>10 DEF SniInv, SidInv

\* The fields before the extensions: each offset is compared before the next is
\* computed from it, but for the session id.
LEMMA FieldsKeeps ==
  ASSUME SniInv, Fields
  PROVE  SniInv'
  <1> DEFINE sid == SkipSid(Fixed)
             comp == SkipCiphers(sid)
             ext == comp + 1 + Byte(comp)
  <1>0. /\ OffsetsInv /\ SidInv /\ UNCHANGED <<whole, data>> /\ Len(data) \in Nat /\ Fixed \in Nat
        /\ pc = "start"
    BY Bytewise, SniAssumption DEF SniInv, Fields
  <1>1. SidEnd' = SidEnd
    BY <1>0 DEF SidEnd
  <1>2. ASSUME NEW why, why \in {"error", "panic"}, Stop(why),
               why = "panic" => Fixed + 4 <= Len(data) /\ ~(SidEnd <= Len(data))
        PROVE  SniInv'
    BY <1>0, <1>1, <1>2 DEF Stop, SniInv, OffsetsInv, SidInv
  <1>3. CASE Len(data) >= Fixed + 4
    <2>1. Byte(Fixed) \in Nat /\ sid = SidEnd /\ sid \in Nat
      BY <1>0, <1>3, Bytewise DEF SkipSid, Byte, SidEnd
    <2>2. CASE sid > Len(data) /\ Stop("panic")
      <3>1. Fixed + 4 <= Len(data) /\ ~(SidEnd <= Len(data))
        BY <1>0, <1>3, <2>1, <2>2
      <3> QED BY <1>2, <2>2, <3>1
    <2>3. ASSUME ~(sid > Len(data)), ~(Left(sid) < 2), ~(Left(sid) < 3 + Number(sid)),
                 ~(Left(comp) < 1 + Byte(comp)), ~(Left(ext) < 2),
                 pc' = "ext", at' = ext + 2, UNCHANGED <<next, names, result>>
          PROVE  SniInv'
      <3> HIDE DEF sid
      <3>1. Number(sid) \in Nat
        BY <1>0, <2>1, <2>3, Bytewise DEF Left
      <3>2. comp \in Nat /\ comp + 1 <= Len(data)
        BY <1>0, <2>1, <2>3, <3>1 DEF SkipCiphers, Left
      <3>3. Byte(comp) \in Nat
        BY <1>0, <3>2, Bytewise
      <3> HIDE DEF comp
      <3>4. ext \in Nat /\ ext + 2 <= Len(data)
        BY <1>0, <2>3, <3>2, <3>3 DEF Left
      <3> HIDE DEF ext
      <3> QED BY <1>0, <1>1, <2>3, <3>4 DEF SniInv, OffsetsInv, SidInv
    <2> HIDE DEF sid, comp, ext
    <2>4. CASE Stop("error")
      BY <1>2, <2>4
    <2>5. \/ Stop("error") \/ (sid > Len(data) /\ Stop("panic"))
          \/ /\ ~(sid > Len(data)) /\ ~(Left(sid) < 2) /\ ~(Left(sid) < 3 + Number(sid))
             /\ ~(Left(comp) < 1 + Byte(comp)) /\ ~(Left(ext) < 2)
             /\ pc' = "ext" /\ at' = ext + 2 /\ UNCHANGED <<next, names, result>>
      BY <1>3 DEF Fields, sid, comp, ext
    <2> QED BY <2>2, <2>3, <2>4, <2>5
  <1>4. Len(data) < Fixed + 4 \/ Len(data) >= Fixed + 4
    BY <1>0
  <1>5. CASE Len(data) < Fixed + 4
    <2>1. ~(Len(data) >= Fixed + 4)
      BY <1>0, <1>5
    <2> QED BY <1>2, <2>1 DEF Fields
  <1> QED BY <1>3, <1>4, <1>5

\* A round of the loop over the extensions ends behind what it found in the record.
LEMMA NextExtKeeps ==
  ASSUME SniInv, NextExt
  PROVE  SniInv'
  <1> DEFINE length == Number(at + 2)
  <1>0. /\ OffsetsInv /\ SidInv /\ UNCHANGED <<whole, data>> /\ Len(data) \in Nat /\ pc = "ext"
        /\ at \in Nat /\ at <= Len(data)
    BY Bytewise DEF SniInv, NextExt, OffsetsInv
  <1>1. SidEnd' = SidEnd
    BY <1>0 DEF SidEnd
  <1>2. CASE Stop("error")
    BY <1>0, <1>1, <1>2 DEF Stop, SniInv, OffsetsInv, SidInv
  <1>3. ASSUME ~(Left(at) < 4), ExtFits(length), pc' = "ext", at' = AfterExt(length),
               UNCHANGED <<next, names, result>>
        PROVE  SniInv'
    <2>1. length \in Nat
      BY <1>0, <1>3, Bytewise DEF Left
    <2>2. at + 4 + length \in Nat /\ at + 4 + length <= Len(data)
      BY <1>0, <1>3, <2>1 DEF Left, ExtFits
    <2> QED BY <1>0, <1>1, <1>3, <2>2 DEF SniInv, OffsetsInv, SidInv, AfterExt
  <1>4. ASSUME ~(Left(at) < 4), ExtFits(length), ~(length < 2), pc' = "name", at' = at + 6,
               next' = AfterExt(length), names' = Number(at + 4), UNCHANGED result
        PROVE  SniInv'
    <2>1. length \in Nat
      BY <1>0, <1>4, Bytewise DEF Left
    <2>2. at + 4 + length \in Nat /\ at + 4 + length <= Len(data) /\ at + 6 \in Nat /\ at + 6 <= Len(data)
      BY <1>0, <1>4, <2>1 DEF Left, ExtFits
    <2>3. Number(at + 4) \in Nat
      <3>1. at + 4 \in Nat /\ at + 4 + 2 <= Len(data)
        BY <1>0, <2>2
      <3> QED BY <1>0, <3>1, Bytewise
    <2> HIDE DEF length
    <2> QED BY <1>0, <1>1, <1>4, <2>2, <2>3 DEF SniInv, OffsetsInv, SidInv, AfterExt
  <1> HIDE DEF length
  <1>5. \/ Stop("error")
        \/ /\ ~(Left(at) < 4) /\ ExtFits(length) /\ pc' = "ext" /\ at' = AfterExt(length)
           /\ UNCHANGED <<next, names, result>>
        \/ /\ ~(Left(at) < 4) /\ ExtFits(length) /\ ~(length < 2) /\ pc' = "name" /\ at' = at + 6
           /\ next' = AfterExt(length) /\ names' = Number(at + 4) /\ UNCHANGED result
    BY DEF NextExt, length
  <1> QED BY <1>2, <1>3, <1>4, <1>5

\* A round of the loop over the names, which may leave the extension and not the
\* record.
LEMMA NextNameKeeps ==
  ASSUME SniInv, NextName
  PROVE  SniInv'
  <1> DEFINE n == Number(at + 1)
  <1>0. /\ OffsetsInv /\ SidInv /\ UNCHANGED <<whole, data>> /\ Len(data) \in Nat /\ pc = "name"
        /\ at \in Nat /\ at <= Len(data) /\ names \in Nat /\ next \in Nat /\ next <= Len(data)
    BY Bytewise DEF SniInv, NextName, OffsetsInv
  <1>1. SidEnd' = SidEnd
    BY <1>0 DEF SidEnd
  <1>2. CASE Stop("error")
    BY <1>0, <1>1, <1>2 DEF Stop, SniInv, OffsetsInv, SidInv
  <1>3. CASE pc' = "ext" /\ at' = next /\ UNCHANGED <<next, names>>
    BY <1>0, <1>1, <1>3 DEF SniInv, OffsetsInv, SidInv
  <1>4. CASE pc' = "name_found" /\ UNCHANGED <<at, next, names>>
    BY <1>0, <1>1, <1>4 DEF SniInv, OffsetsInv, SidInv
  <1>5. ASSUME names # 0, ~(Left(at) < 3), ~(Left(at + 3) < n), at' = at + 3 + n, names' = names - 1,
               UNCHANGED <<pc, next>>
        PROVE  SniInv'
    <2>1. n \in Nat
      <3>1. at + 1 \in Nat /\ at + 1 + 2 <= Len(data)
        BY <1>0, <1>5 DEF Left
      <3> QED BY <1>0, <3>1, Bytewise
    <2> HIDE DEF n
    <2>2. at + 3 + n \in Nat /\ at + 3 + n <= Len(data) /\ names - 1 \in Nat
      BY <1>0, <1>5, <2>1 DEF Left
    <2> QED BY <1>0, <1>1, <1>5, <2>2 DEF SniInv, OffsetsInv, SidInv
  <1> HIDE DEF n
  <1>6. \/ Stop("error")
        \/ pc' = "ext" /\ at' = next /\ UNCHANGED <<next, names>>
        \/ pc' = "name_found" /\ UNCHANGED <<at, next, names>>
        \/ /\ names # 0 /\ ~(Left(at) < 3) /\ ~(Left(at + 3) < n) /\ at' = at + 3 + n /\ names' = names - 1
           /\ UNCHANGED <<pc, next>>
    BY DEF NextName, n
  <1> QED BY <1>2, <1>3, <1>4, <1>5, <1>6

\* No step looks behind the record, but for the session id of a hello that is cut.
THEOREM ParserStaysInside == Spec => []SniInv
  <1>1. Init => SniInv
    BY InitSni
  <1>2. SniInv /\ [Next]_vars => SniInv'
    <2> SUFFICES ASSUME SniInv, [Next]_vars PROVE SniInv'
      OBVIOUS
    <2>1. CASE Next
      BY <2>1, FieldsKeeps, NextExtKeeps, NextNameKeeps DEF Next
    <2>2. CASE UNCHANGED vars
      BY <2>2 DEF vars, SniInv, OffsetsInv, SidInv, SidEnd
    <2> QED BY <2>1, <2>2
  <1> QED BY <1>1, <1>2, PTL DEF Spec

\* peek_sni panics only on a record that ends within the session id, never on a hello
\* that is whole, and its offsets stay within the record, for hellos of any shape.
THEOREM PanicsCaused == Spec => []PanicHasCause
  <1>1. SniInv => PanicHasCause
    <2> SUFFICES ASSUME SniInv PROVE PanicHasCause
      OBVIOUS
    <2>1. OffsetsInv /\ SidInv /\ Len(data) \in Nat
      BY Bytewise DEF SniInv
    <2>2. TypeOK
      <3>1. at \in 0 .. Len(data) /\ next \in 0 .. Len(data)
        BY <2>1 DEF OffsetsInv
      <3>2. \A i \in DOMAIN data : data[i] \in Bytes
        BY <2>1 DEF OffsetsInv
      <3> QED BY <2>1, <3>1, <3>2 DEF TypeOK, OffsetsInv, Bytes
    <2>3. ASSUME pc = "panic" PROVE ~whole /\ Len(data) < SidEnd
      <3>1. ~(SidEnd <= Len(data)) /\ ~whole /\ Fixed + 4 <= Len(data) /\ Fixed \in Nat
        BY <2>1, <2>3, SniAssumption DEF SidInv
      <3>2. data[Fixed + 1] \in Nat
        BY <2>1, <3>1, Bytewise DEF Byte
      <3>3. SidEnd \in Nat
        BY <3>1, <3>2 DEF SidEnd
      <3> QED BY <2>1, <3>1, <3>3
    <2> QED BY <2>2, <2>3 DEF PanicHasCause, SidEnd
  <1> QED BY <1>1, ParserStaysInside, PTL

-----------------------------------------------------------------------------
(* Where the parts of a sequence are.                                       *)

\* b lies in s behind offset o.
Placed(s, o, b) == o + Len(b) <= Len(s) /\ \A j \in 1 .. Len(b) : s[o + j] = b[j]

\* What lies in the first of two sequences does in both together.
LEMMA PlacedLeft ==
  ASSUME NEW S, NEW p \in Seq(S), NEW q \in Seq(S), NEW b \in Seq(S), NEW o \in Nat, Placed(p, o, b)
  PROVE  Placed(p \o q, o, b)
  <1>1. Len(p) \in Nat /\ Len(q) \in Nat /\ Len(b) \in Nat /\ Len(p \o q) = Len(p) + Len(q)
    OBVIOUS
  <1>2. o + Len(b) <= Len(p) /\ \A j \in 1 .. Len(b) : p[o + j] = b[j]
    BY DEF Placed
  <1>3. \A i \in 1 .. Len(p) : (p \o q)[i] = p[i]
    OBVIOUS
  <1>4. ASSUME NEW j \in 1 .. Len(b) PROVE (p \o q)[o + j] = b[j]
    <2>1. o + j \in 1 .. Len(p)
      BY <1>1, <1>2
    <2> QED BY <1>2, <1>3, <2>1
  <1>5. o + Len(b) <= Len(p \o q)
    BY <1>1, <1>2
  <1> QED BY <1>4, <1>5 DEF Placed

\* The second of two sequences lies behind the first.
LEMMA PlacedRight ==
  ASSUME NEW S, NEW p \in Seq(S), NEW q \in Seq(S)
  PROVE  Placed(p \o q, Len(p), q)
  <1>1. Len(p) \in Nat /\ Len(q) \in Nat /\ Len(p \o q) = Len(p) + Len(q)
    OBVIOUS
  <1>2. \A j \in 1 .. Len(q) : (p \o q)[Len(p) + j] = q[j]
    OBVIOUS
  <1> QED BY <1>1, <1>2 DEF Placed

\* What lies in a part lies in the whole.
LEMMA PlacedIn ==
  ASSUME NEW S, NEW s \in Seq(S), NEW b \in Seq(S), NEW c \in Seq(S), NEW o \in Nat, NEW i \in Nat,
         Placed(s, o, b), Placed(b, i, c)
  PROVE  Placed(s, o + i, c)
  <1>1. Len(s) \in Nat /\ Len(b) \in Nat /\ Len(c) \in Nat
    OBVIOUS
  <1>2. o + Len(b) <= Len(s) /\ \A j \in 1 .. Len(b) : s[o + j] = b[j]
    BY DEF Placed
  <1>3. i + Len(c) <= Len(b) /\ \A j \in 1 .. Len(c) : b[i + j] = c[j]
    BY DEF Placed
  <1>4. ASSUME NEW j \in 1 .. Len(c) PROVE s[o + i + j] = c[j]
    <2>1. i + j \in 1 .. Len(b) /\ o + (i + j) = o + i + j
      BY <1>1, <1>3
    <2>2. s[o + (i + j)] = b[i + j]
      BY <1>2, <2>1
    <2> QED BY <1>3, <2>1, <2>2
  <1>5. o + i + Len(c) <= Len(s)
    BY <1>1, <1>2, <1>3
  <1> QED BY <1>4, <1>5 DEF Placed

\* A sequence lies in itself.
LEMMA PlacedSelf ==
  ASSUME NEW S, NEW s \in Seq(S)
  PROVE  Placed(s, 0, s)
  <1>1. Len(s) \in Nat /\ \A j \in 1 .. Len(s) : 0 + j = j
    OBVIOUS
  <1> QED BY <1>1 DEF Placed

\* FlattenSeq is the last of a row of which each element is the one before with
\* the next part behind it.
LEMMA FlattenRow ==
  ASSUME NEW q, Len(q) \in Nat
  PROVE  \E f : Joined(q, Len(q), f) /\ FlattenSeq(q) = IF Len(q) = 0 THEN q ELSE f[Len(q)]
  <1> DEFINE flatten == CHOOSE f : Joined(q, Len(q), f)
  <1>1. FlattenSeq(q) = IF Len(q) = 0 THEN q ELSE flatten[Len(q)]
    BY Zenon DEF FlattenSeq, Joined
  <1>2. Joined(q, Len(q), flatten)
    BY JoinedExists, Zenon
  <1> HIDE DEF flatten
  <1> QED BY <1>1, <1>2

\* Each element of the row begins like those before it.
LEMMA RowGrows ==
  ASSUME NEW S, NEW q \in Seq(Seq(S)), NEW f, Joined(q, Len(q), f)
  PROVE  /\ \A m \in 1 .. Len(q) : f[m] \in Seq(S)
         /\ \A m \in 2 .. Len(q) : f[m] = f[m - 1] \o q[m]
         /\ Len(q) # 0 => f[1] = q[1]
         /\ \A m \in 1 .. Len(q) : \A n \in 1 .. m : Placed(f[m], 0, f[n])
  <1> DEFINE N == Len(q)
             Fits(m) == \A n \in 1 .. m : f[n] \in Seq(S) /\ Placed(f[m], 0, f[n])
             Fine == {m \in Nat : m <= N => Fits(m)}
  <1>0. N \in Nat /\ \A i \in 1 .. N : q[i] \in Seq(S)
    OBVIOUS
  <1>1. \A i \in 1 .. N : f[i] = IF i = 1 THEN q[i] ELSE f[i - 1] \o q[i]
    BY DEF Joined
  <1> HIDE DEF N
  <1>2. ASSUME NEW m \in 2 .. N PROVE f[m] = f[m - 1] \o q[m]
    <2>1. m \in 1 .. N /\ m # 1
      BY <1>0
    <2> QED BY <1>1, <2>1
  <1>3. N # 0 => f[1] = q[1]
    BY <1>0, <1>1
  <1>4. ASSUME NEW m \in Nat, m + 1 <= N, Fits(m) PROVE Fits(m + 1)
    <2>1. f[m + 1] \in Seq(S) /\ \A n \in 1 .. m : f[n] \in Seq(S) /\ Placed(f[m + 1], 0, f[n])
      <3>1. CASE m = 0
        <4>1. f[1] \in Seq(S) /\ m + 1 = 1 /\ 1 .. m = {}
          BY <1>0, <1>3, <1>4, <3>1
        <4> QED BY <4>1
      <3>2. CASE m # 0
        <4>1. m \in 1 .. m /\ m + 1 \in 2 .. N /\ m + 1 \in 1 .. N /\ m + 1 - 1 = m
          BY <1>0, <1>4, <3>2
        <4>2. f[m + 1] = f[m] \o q[m + 1] /\ q[m + 1] \in Seq(S)
          <5>1. PICK i \in 2 .. N : i = m + 1 /\ i - 1 = m /\ i \in 1 .. N
            BY <4>1
          <5>2. f[i] = f[i - 1] \o q[i] /\ q[i] \in Seq(S)
            BY <1>0, <1>2, <5>1
          <5> QED BY <5>1, <5>2
        <4>3. f[m] \in Seq(S)
          BY <1>4, <4>1
        <4>4. f[m + 1] \in Seq(S)
          BY <4>2, <4>3
        <4>5. ASSUME NEW n \in 1 .. m PROVE f[n] \in Seq(S) /\ Placed(f[m + 1], 0, f[n])
          <5>1. f[n] \in Seq(S) /\ Placed(f[m], 0, f[n]) /\ 0 \in Nat
            BY <1>4, <4>5
          <5>2. Placed(f[m] \o q[m + 1], 0, f[n])
            BY <4>2, <4>3, <5>1, PlacedLeft
          <5> QED BY <4>2, <5>1, <5>2
        <4> QED BY <4>4, <4>5
      <3> QED BY <3>1, <3>2
    <2>2. Placed(f[m + 1], 0, f[m + 1])
      BY <2>1, PlacedSelf
    <2>3. \A n \in 1 .. m + 1 : n \in 1 .. m \/ n = m + 1
      BY <1>4
    <2> QED BY <2>1, <2>2, <2>3
  <1>5. Fits(0)
    OBVIOUS
  <1> HIDE DEF Fits
  <1>6. Fine \in SUBSET Nat /\ 0 \in Fine /\ \A m \in Fine : m + 1 \in Fine
    <2>1. ASSUME NEW m \in Fine PROVE m + 1 \in Fine
      <3>1. m \in Nat /\ m + 1 \in Nat /\ (m <= N => Fits(m)) /\ (m + 1 <= N => m <= N)
        BY <1>0
      <3> QED BY <1>4, <3>1
    <2> QED BY <1>5, <2>1
  <1>7. Fine = Nat
    <2> HIDE DEF Fine
    <2> QED BY <1>6, SetInduction
  <1>8. ASSUME NEW m \in 1 .. N PROVE f[m] \in Seq(S) /\ \A n \in 1 .. m : Placed(f[m], 0, f[n])
    <2>1. m \in Nat /\ m <= N /\ m \in 1 .. m
      BY <1>0
    <2>2. Fits(m)
      BY <1>7, <2>1
    <2> QED BY <2>1, <2>2 DEF Fits
  <1> QED BY <1>2, <1>3, <1>8 DEF N

\* Parts put together lie one behind the other.
LEMMA Offsets ==
  ASSUME NEW S, NEW q \in Seq(Seq(S)), NEW F, F = FlattenSeq(q)
  PROVE  /\ F \in Seq(S)
         /\ \E off \in [1 .. Len(q) + 1 -> Nat] :
              /\ off[1] = 0 /\ off[Len(q) + 1] = Len(F)
              /\ \A i \in 1 .. Len(q) :
                   off[i + 1] = off[i] + Len(q[i]) /\ Placed(F, off[i], q[i])
  <1> DEFINE N == Len(q)
  <1>0. N \in Nat /\ \A i \in 1 .. N : q[i] \in Seq(S)
    OBVIOUS
  <1>1. PICK f : Joined(q, N, f) /\ F = IF N = 0 THEN q ELSE f[N]
    BY <1>0, FlattenRow
  <1>2. /\ \A m \in 1 .. N : f[m] \in Seq(S)
        /\ \A m \in 2 .. N : f[m] = f[m - 1] \o q[m]
        /\ N # 0 => f[1] = q[1]
        /\ \A m \in 1 .. N : \A n \in 1 .. m : Placed(f[m], 0, f[n])
    BY <1>1, RowGrows
  <1> DEFINE off == [i \in 1 .. N + 1 |-> IF i = 1 THEN 0 ELSE Len(f[i - 1])]
  <1>3. CASE N = 0
    <2>1. F = <<>> /\ F \in Seq(S) /\ Len(F) = 0
      BY <1>1, <1>3
    <2>2. off \in [1 .. N + 1 -> Nat] /\ off[1] = 0 /\ N + 1 = 1 /\ 1 .. N = {}
      BY <1>3
    <2> HIDE DEF off, N
    <2> QED BY <2>1, <2>2 DEF N
  <1>4. CASE N # 0
    <2> HIDE DEF N
    <2>1. F = f[N] /\ N \in 1 .. N /\ F \in Seq(S)
      BY <1>0, <1>1, <1>2, <1>4
    <2>2. \A i \in 1 .. N : i + 1 \in 1 .. N + 1 /\ i + 1 # 1 /\ i + 1 - 1 = i /\ off[i + 1] = Len(f[i])
      BY <1>0
    <2>3. off \in [1 .. N + 1 -> Nat]
      <3>1. ASSUME NEW i \in 1 .. N + 1, i # 1 PROVE Len(f[i - 1]) \in Nat
        <4>1. i - 1 \in 1 .. N
          BY <1>0, <3>1
        <4> QED BY <1>2, <4>1
      <3> QED BY <3>1
    <2>4. off[1] = 0 /\ off[N + 1] = Len(F)
      BY <1>0, <2>1, <2>2
    <2>5. ASSUME NEW i \in 1 .. N PROVE off[i + 1] = off[i] + Len(q[i]) /\ Placed(F, off[i], q[i])
      <3>1. off[i + 1] = Len(f[i]) /\ f[i] \in Seq(S) /\ q[i] \in Seq(S) /\ Placed(F, 0, f[i])
        BY <1>0, <1>2, <2>1, <2>2
      <3>2. i \in 1 .. N + 1
        BY <1>0
      <3>3. Len(f[i]) = off[i] + Len(q[i]) /\ Placed(f[i], off[i], q[i]) /\ off[i] \in Nat
        <4>1. CASE i = 1
          <5>1. off[i] = 0 /\ f[i] = q[i]
            BY <1>2, <1>4, <2>4, <4>1
          <5>2. Placed(f[i], 0, q[i]) /\ Len(q[i]) \in Nat
            BY <3>1, <5>1, PlacedSelf
          <5> QED BY <5>1, <5>2
        <4>2. CASE i # 1
          <5>1. i \in 2 .. N /\ i - 1 \in 1 .. N
            BY <1>0, <4>2
          <5>2. off[i] = Len(f[i - 1])
            BY <3>2, <4>2
          <5>3. f[i] = f[i - 1] \o q[i] /\ f[i - 1] \in Seq(S)
            BY <1>2, <5>1
          <5> HIDE DEF off
          <5>4. PICK p \in Seq(S) : p = f[i - 1]
            BY <5>3
          <5>5. f[i] = p \o q[i] /\ off[i] = Len(p)
            BY <5>2, <5>3, <5>4
          <5>6. Placed(p \o q[i], Len(p), q[i]) /\ Len(p \o q[i]) = Len(p) + Len(q[i]) /\ Len(p) \in Nat
            BY <3>1, PlacedRight
          <5> QED BY <5>5, <5>6
        <4> QED BY <4>1, <4>2
      <3> HIDE DEF off
      <3>4. Placed(F, 0 + off[i], q[i])
        <4>1. 0 \in Nat
          OBVIOUS
        <4> QED BY <2>1, <3>1, <3>3, <4>1, PlacedIn
      <3>5. 0 + off[i] = off[i]
        BY <3>3
      <3> QED BY <3>1, <3>3, <3>4, <3>5
    <2> HIDE DEF off
    <2> QED BY <2>1, <2>3, <2>4, <2>5 DEF N
  <1> QED BY <1>3, <1>4

\* One part or two, put together.
LEMMA FlattenFew ==
  ASSUME NEW S, NEW q \in Seq(Seq(S))
  PROVE  /\ Len(q) = 0 => FlattenSeq(q) = <<>>
         /\ Len(q) = 1 => FlattenSeq(q) = q[1]
         /\ Len(q) = 2 => FlattenSeq(q) = q[1] \o q[2]
  <1>0. Len(q) \in Nat
    OBVIOUS
  <1>1. PICK f : Joined(q, Len(q), f) /\ FlattenSeq(q) = IF Len(q) = 0 THEN q ELSE f[Len(q)]
    BY <1>0, FlattenRow
  <1>2. /\ \A m \in 1 .. Len(q) : f[m] \in Seq(S)
        /\ \A m \in 2 .. Len(q) : f[m] = f[m - 1] \o q[m]
        /\ Len(q) # 0 => f[1] = q[1]
        /\ \A m \in 1 .. Len(q) : \A n \in 1 .. m : Placed(f[m], 0, f[n])
    BY <1>1, RowGrows
  <1>3. Len(q) = 0 => FlattenSeq(q) = <<>>
    BY <1>1
  <1>4. Len(q) = 1 => FlattenSeq(q) = q[1]
    BY <1>1, <1>2
  <1>5. ASSUME Len(q) = 2 PROVE FlattenSeq(q) = q[1] \o q[2]
    <2>1. 2 \in 2 .. Len(q) /\ 2 - 1 = 1
      BY <1>5
    <2>2. f[2] = f[1] \o q[2] /\ f[1] = q[1]
      BY <1>2, <1>5, <2>1
    <2> QED BY <1>1, <1>5, <2>2
  <1> QED BY <1>3, <1>4, <1>5

-----------------------------------------------------------------------------
(* Where the fields of names, extensions and hellos are.                    *)

\* A number that fits one byte has 0 as its high byte.
LEMMA TwoSmall ==
  ASSUME NEW n \in Bytes
  PROVE  Two(n) = <<0, n>> /\ <<0, n>> \in Seq(Bytes) /\ Len(<<0, n>>) = 2
  <1>1. n \in Nat /\ n < 256 /\ 0 \in Bytes
    BY DEF Bytes
  <1>2. n \div 256 = 0 /\ n % 256 = n
    BY <1>1, SMT
  <1> QED BY <1>1, <1>2 DEF Two

\* A number of two bytes is the number.
LEMMA TwoIs ==
  ASSUME NEW n, Short(n)
  PROVE  256 * Two(n)[1] + Two(n)[2] = n
  <1>1. n \in Nat /\ n \div 256 \in Int /\ n % 256 \in Int
    BY SMT DEF Short
  <1>3. 256 * (n \div 256) + (n % 256) = n
    BY <1>1, Z3
  <1>2. Two(n)[1] = n \div 256 /\ Two(n)[2] = n % 256
    BY DEF Two
  <1> QED BY <1>1, <1>2, <1>3

\* Small numbers are bytes.
LEMMA SmallByte ==
  ASSUME NEW n \in Nat, n <= 255
  PROVE  n \in Bytes
  BY DEF Bytes

\* The bytes of a name: one or two.
LEMMA NameBody ==
  ASSUME NEW n \in Names
  PROVE  /\ n.type \in {0, 1} /\ n.bytes \in Seq(Bytes) /\ Len(n.bytes) \in {1, 2}
         /\ <<n.type>> \in Seq(Bytes) /\ Len(<<n.type>>) = 1
  <1>1. n.type \in {0, 1} /\ (n.bytes = <<7>> \/ n.bytes = <<8, 9>>)
    BY DEF Names
  <1>2. 7 \in Bytes /\ 8 \in Bytes /\ 9 \in Bytes /\ n.type \in Bytes
    BY <1>1 DEF Bytes
  <1>3. <<7>> \in Seq(Bytes) /\ Len(<<7>>) = 1 /\ <<8, 9>> \in Seq(Bytes) /\ Len(<<8, 9>>) = 2
    BY <1>2
  <1>4. <<n.type>> \in Seq(Bytes) /\ Len(<<n.type>>) = 1
    BY <1>2
  <1>5. n.bytes \in Seq(Bytes) /\ Len(n.bytes) \in {1, 2}
    BY <1>1, <1>3, Zenon
  <1> QED BY <1>1, <1>4, <1>5

\* Three sequences one behind the other.
LEMMA ThreeParts ==
  ASSUME NEW p \in Seq(Bytes), NEW q \in Seq(Bytes), NEW r \in Seq(Bytes), NEW s, s = (p \o q) \o r
  PROVE  /\ s \in Seq(Bytes) /\ Len(s) = Len(p) + Len(q) + Len(r)
         /\ Placed(s, 0, p) /\ Placed(s, Len(p), q) /\ Placed(s, Len(p) + Len(q), r)
  <1>1. PICK h \in Seq(Bytes) : h = p \o q /\ Len(h) = Len(p) + Len(q)
    BY Join
  <1>2. s \in Seq(Bytes) /\ Len(s) = Len(h) + Len(r) /\ s = h \o r
    BY <1>1, Join
  <1>3. 0 \in Nat /\ Len(p) \in Nat /\ Placed(p, 0, p)
    BY PlacedSelf
  <1>4. Placed(p \o q, 0, p) /\ Placed(p \o q, Len(p), q)
    BY <1>3, PlacedLeft, PlacedRight
  <1>5. Placed(h \o r, 0, p) /\ Placed(h \o r, Len(p), q) /\ Placed(h \o r, Len(h), r)
    BY <1>1, <1>3, <1>4, PlacedLeft, PlacedRight
  <1> QED BY <1>1, <1>2, <1>5

\* A name has its type first, then its length and its bytes.
LEMMA NameShape ==
  ASSUME NEW n \in Names
  PROVE  /\ NameBytes(n) \in Seq(Bytes) /\ Len(NameBytes(n)) = 3 + Len(n.bytes)
         /\ Placed(NameBytes(n), 0, <<n.type>>) /\ Placed(NameBytes(n), 1, <<0, Len(n.bytes)>>)
         /\ Placed(NameBytes(n), 3, n.bytes)
  <1>1. PICK t \in Seq(Bytes), b \in Seq(Bytes) : t = <<n.type>> /\ b = n.bytes
    BY NameBody
  <1>2. Len(t) = 1 /\ Len(b) \in {1, 2} /\ Len(b) \in Bytes
    <2>1. Len(t) = 1 /\ Len(b) \in {1, 2}
      BY <1>1, NameBody
    <2>2. 1 \in Bytes /\ 2 \in Bytes
      BY DEF Bytes
    <2> QED BY <2>1, <2>2
  <1>3. PICK l \in Seq(Bytes) : l = <<0, Len(b)>> /\ Two(Len(b)) = l /\ Len(l) = 2
    BY <1>2, TwoSmall
  <1>4. PICK s : s = NameBytes(n) /\ s = (t \o l) \o b
    BY <1>1, <1>3 DEF NameBytes
  <1>5. /\ s \in Seq(Bytes) /\ Len(s) = Len(t) + Len(l) + Len(b)
        /\ Placed(s, 0, t) /\ Placed(s, Len(t), l) /\ Placed(s, Len(t) + Len(l), b)
    BY <1>4, ThreeParts
  <1>6. Len(t) + Len(l) = 3
    BY <1>2, <1>3
  <1> QED BY <1>1, <1>2, <1>3, <1>4, <1>5, <1>6

\* What takes at most ten bytes, behind its length.
LEMMA LengthShape ==
  ASSUME NEW b \in Seq(Bytes), Len(b) <= 10, NEW s, s = Two(Len(b)) \o b
  PROVE  /\ s \in Seq(Bytes) /\ Len(s) = 2 + Len(b)
         /\ Placed(s, 0, <<0, Len(b)>>) /\ Placed(s, 2, b)
  <1>0. Len(b) \in Nat /\ Len(b) <= 255
    OBVIOUS
  <1>1. Len(b) \in Bytes
    BY <1>0, SmallByte
  <1>2. PICK l \in Seq(Bytes) : l = <<0, Len(b)>> /\ Two(Len(b)) = l /\ Len(l) = 2
    BY <1>1, TwoSmall
  <1>3. s = l \o b /\ s \in Seq(Bytes) /\ Len(s) = Len(l) + Len(b)
    BY <1>2, Join
  <1>4. Placed(l, 0, l) /\ 0 \in Nat
    BY PlacedSelf
  <1>5. Placed(l \o b, 0, l) /\ Placed(l \o b, Len(l), b)
    BY <1>4, PlacedLeft, PlacedRight
  <1> QED BY <1>2, <1>3, <1>5

\* The places in a short sequence.
LEMMA FewPlaces ==
  ASSUME NEW S, NEW q \in Seq(S)
  PROVE  /\ Len(q) \in Nat /\ (Len(q) = 0 <=> q = <<>>)
         /\ Len(q) # 0 => 1 \in 1 .. Len(q) /\ q[1] \in S
         /\ Len(q) = 2 => 2 \in 1 .. Len(q) /\ q[2] \in S
         /\ \A i \in 1 .. Len(q) : q[i] \in S
  OBVIOUS

\* A list has its length first, and then its names.
ListShape(s, ns) ==
    /\ s \in Seq(Bytes) /\ 2 <= Len(s) /\ Len(s) <= 12 /\ Placed(s, 0, <<0, Len(s) - 2>>)
    /\ ns = <<>> => Len(s) = 2
    /\ Len(ns) <= Len(s) - 2
    /\ ns # <<>> => Placed(s, 2, NameBytes(ns[1]))
    /\ Len(ns) = 2 => Placed(s, 2 + Len(NameBytes(ns[1])), NameBytes(ns[2]))

\* The lists of names are of this shape.
LEMMA ListIs ==
  ASSUME NEW ns \in ServerNames
  PROVE  ListShape(ListBytes(ns), ns) /\ ns \in Seq(Names) /\ Len(ns) \in 0 .. 2
  <1> DEFINE q == [i \in DOMAIN ns |-> NameBytes(ns[i])]
  <1>1. PICK s, b : s = ListBytes(ns) /\ b = FlattenSeq(q) /\ s = Two(Len(b)) \o b
    BY DEF ListBytes
  <1>2. ns \in Seq(Names) /\ Len(ns) \in 0 .. 2
    <2> HIDE DEF q
    <2>1. CASE ns = <<>>
      BY <2>1
    <2>2. ASSUME NEW n \in Names, ns = <<n>> PROVE ns \in Seq(Names) /\ Len(ns) = 1
      BY <2>2
    <2>3. ASSUME NEW n \in Names, NEW m \in Names, ns = <<n, m>> PROVE ns \in Seq(Names) /\ Len(ns) = 2
      BY <2>3
    <2> QED BY <2>1, <2>2, <2>3 DEF ServerNames
  <1>3. ASSUME NEW i \in 1 .. Len(ns)
        PROVE  NameBytes(ns[i]) \in Seq(Bytes) /\ 4 <= Len(NameBytes(ns[i])) /\ Len(NameBytes(ns[i])) <= 5
    <2>1. ns[i] \in Names
      BY <1>2
    <2>2. NameBytes(ns[i]) \in Seq(Bytes) /\ Len(NameBytes(ns[i])) = 3 + Len(ns[i].bytes)
      BY <2>1, NameShape
    <2>3. Len(ns[i].bytes) \in {1, 2}
      BY <2>1, NameBody
    <2>4. ASSUME NEW k \in {1, 2} PROVE 4 <= 3 + k /\ 3 + k <= 5
      OBVIOUS
    <2> QED BY <2>2, <2>3, <2>4, Zenon
  <1>4. q \in Seq(Seq(Bytes)) /\ Len(q) = Len(ns) /\ \A i \in 1 .. Len(ns) : q[i] = NameBytes(ns[i])
    BY <1>2, <1>3
  <1> HIDE DEF q
  <1>5. /\ Len(q) = 0 => b = <<>>
        /\ Len(q) = 1 => b = q[1]
        /\ Len(q) = 2 => b = q[1] \o q[2]
    <2>1. /\ Len(q) = 0 => FlattenSeq(q) = <<>>
          /\ Len(q) = 1 => FlattenSeq(q) = q[1]
          /\ Len(q) = 2 => FlattenSeq(q) = q[1] \o q[2]
      BY <1>4, FlattenFew
    <2> QED BY <1>1, <2>1
  <1>6. ASSUME b \in Seq(Bytes), Len(b) <= 10
        PROVE  /\ s \in Seq(Bytes) /\ Len(s) = 2 + Len(b) /\ Placed(s, 0, <<0, Len(b)>>) /\ Placed(s, 2, b)
               /\ Len(b) \in Nat /\ Len(s) - 2 = Len(b) /\ 2 <= Len(s) /\ Len(s) <= 12
    <2>1. s \in Seq(Bytes) /\ Len(s) = 2 + Len(b) /\ Placed(s, 0, <<0, Len(b)>>) /\ Placed(s, 2, b)
      BY <1>1, <1>6, LengthShape
    <2>2. Len(b) \in Nat
      BY <1>6
    <2> QED BY <1>6, <2>1, <2>2
  <1>7. CASE Len(ns) = 0
    <2>1. b = <<>> /\ b \in Seq(Bytes) /\ Len(b) = 0 /\ ns = <<>> /\ Len(ns) <= Len(b)
      BY <1>2, <1>4, <1>5, <1>7
    <2>2. Len(b) <= 10 /\ Len(ns) # 2
      BY <1>7, <2>1
    <2>3. s \in Seq(Bytes) /\ 2 <= Len(s) /\ Len(s) <= 12 /\ Placed(s, 0, <<0, Len(s) - 2>>)
      BY <1>6, <2>1, <2>2
    <2>4. Len(ns) <= Len(s) - 2 /\ Len(s) = 2
      BY <1>6, <2>1, <2>2
    <2> QED BY <1>1, <1>2, <2>1, <2>2, <2>3, <2>4, Zenon DEF ListShape
  <1>8. CASE Len(ns) = 1
    <2>0. 1 \in 1 .. Len(ns) /\ ns # <<>> /\ Len(ns) # 2
      BY <1>2, <1>8, FewPlaces
    <2>1. b = NameBytes(ns[1]) /\ b \in Seq(Bytes) /\ 4 <= Len(b) /\ Len(b) <= 5
      BY <1>3, <1>4, <1>5, <1>8, <2>0
    <2>2. Len(b) <= 10 /\ Len(ns) <= Len(b) /\ Len(b) \in Nat
      BY <1>8, <2>1
    <2>3. s \in Seq(Bytes) /\ 2 <= Len(s) /\ Len(s) <= 12 /\ Placed(s, 0, <<0, Len(s) - 2>>)
      BY <1>6, <2>1, <2>2
    <2>4. Placed(s, 2, NameBytes(ns[1])) /\ Len(ns) <= Len(s) - 2
      BY <1>6, <2>1, <2>2
    <2> QED BY <1>1, <1>2, <2>0, <2>3, <2>4 DEF ListShape
  <1>9. CASE Len(ns) = 2
    <2>1. PICK n \in Seq(Bytes), m \in Seq(Bytes) :
            /\ n = NameBytes(ns[1]) /\ m = NameBytes(ns[2]) /\ b = n \o m /\ ns # <<>>
            /\ 4 <= Len(n) /\ Len(n) <= 5 /\ 4 <= Len(m) /\ Len(m) <= 5
      <3>1. 1 \in 1 .. Len(ns) /\ 2 \in 1 .. Len(ns) /\ ns # <<>>
        BY <1>2, <1>9, FewPlaces
      <3>2. b = q[1] \o q[2] /\ q[1] = NameBytes(ns[1]) /\ q[2] = NameBytes(ns[2])
        BY <1>4, <1>5, <1>9, <3>1
      <3> QED BY <1>3, <3>1, <3>2
    <2>2. b \in Seq(Bytes) /\ Len(b) = Len(n) + Len(m)
      BY <2>1, Join
    <2>3. Len(b) <= 10 /\ 2 <= Len(b)
      <3>1. PICK i \in Nat, j \in Nat : i = Len(n) /\ j = Len(m) /\ 4 <= i /\ i <= 5 /\ 4 <= j /\ j <= 5
        BY <2>1
      <3>2. Len(b) = i + j
        BY <2>2, <3>1
      <3>3. i + j <= 10 /\ 2 <= i + j
        BY <3>1
      <3> QED BY <3>2, <3>3
    <2>4. Placed(b, 0, n) /\ Placed(b, Len(n), m)
      <3>1. Placed(n, 0, n) /\ 0 \in Nat
        BY PlacedSelf
      <3>2. Placed(n \o m, 0, n) /\ Placed(n \o m, Len(n), m)
        BY <3>1, PlacedLeft, PlacedRight
      <3> QED BY <2>1, <3>2
    <2>5. s \in Seq(Bytes) /\ Placed(s, 2, b) /\ 2 \in Nat /\ 0 \in Nat /\ Len(n) \in Nat
      BY <1>6, <2>2, <2>3
    <2>6. Placed(s, 2 + 0, n) /\ Placed(s, 2 + Len(n), m)
      BY <2>2, <2>4, <2>5, PlacedIn
    <2>7. 2 + 0 = 2 /\ Len(ns) <= Len(b)
      BY <1>9, <2>3
    <2>8. s \in Seq(Bytes) /\ 2 <= Len(s) /\ Len(s) <= 12 /\ Placed(s, 0, <<0, Len(s) - 2>>)
      BY <1>6, <2>2, <2>3
    <2>9. /\ Len(ns) <= Len(s) - 2 /\ Placed(s, 2, NameBytes(ns[1]))
          /\ Placed(s, 2 + Len(NameBytes(ns[1])), NameBytes(ns[2]))
      BY <1>6, <2>1, <2>2, <2>3, <2>6, <2>7
    <2> QED BY <1>1, <1>2, <2>1, <2>8, <2>9 DEF ListShape
  <1>10. Len(ns) = 0 \/ Len(ns) = 1 \/ Len(ns) = 2
    BY <1>2
  <1> QED BY <1>2, <1>7, <1>8, <1>9, <1>10

\* An extension has its type and length first, and then its content.
ExtShape(b, x) ==
    /\ b \in Seq(Bytes) /\ 4 <= Len(b) /\ Len(b) <= 16
    /\ x.type \in {0, 1} /\ x.names \in Seq(Names) /\ Len(x.names) \in 0 .. 2
    /\ x.names # <<>> => x.type = 0
    /\ Placed(b, 0, <<0, x.type>>) /\ Placed(b, 2, <<0, Len(b) - 4>>)
    /\ x.type = 0 => /\ Len(b) >= 6 /\ Placed(b, 4, <<0, Len(b) - 6>>)
                     /\ Len(x.names) <= Len(b) - 6
                     /\ x.names = <<>> => Len(b) = 6
    /\ x.names # <<>> => Placed(b, 6, NameBytes(x.names[1]))
    /\ Len(x.names) = 2 => Placed(b, 6 + Len(NameBytes(x.names[1])), NameBytes(x.names[2]))

\* A type and at most twelve bytes, behind their length.
LEMMA ContentShape ==
  ASSUME NEW type \in Bytes, NEW c \in Seq(Bytes), Len(c) <= 12, NEW b, b = (Two(type) \o Two(Len(c))) \o c
  PROVE  /\ b \in Seq(Bytes) /\ Len(b) = 4 + Len(c)
         /\ Placed(b, 0, <<0, type>>) /\ Placed(b, 2, <<0, Len(c)>>) /\ Placed(b, 4, c)
  <1>1. Len(c) \in Nat /\ Len(c) <= 255
    OBVIOUS
  <1>2. Len(c) \in Bytes
    BY <1>1, SmallByte
  <1>3. PICK t \in Seq(Bytes), l \in Seq(Bytes) :
          /\ t = <<0, type>> /\ t = Two(type) /\ Len(t) = 2
          /\ l = <<0, Len(c)>> /\ l = Two(Len(c)) /\ Len(l) = 2
    BY <1>2, TwoSmall
  <1>4. b = (t \o l) \o c
    BY <1>3
  <1>5. /\ b \in Seq(Bytes) /\ Len(b) = Len(t) + Len(l) + Len(c)
        /\ Placed(b, 0, t) /\ Placed(b, Len(t), l) /\ Placed(b, Len(t) + Len(l), c)
    BY <1>4, ThreeParts
  <1>6. Len(t) + Len(l) = 4
    BY <1>3
  <1> QED BY <1>3, <1>5, <1>6

\* Extensions are of this shape.
LEMMA ExtIs ==
  ASSUME NEW x \in Exts
  PROVE  ExtShape(ExtBytes(x), x)
  <1>1. PICK b, c : /\ b = ExtBytes(x) /\ c = IF x.type = 0 THEN ListBytes(x.names) ELSE x.data
                    /\ b = (Two(x.type) \o Two(Len(c))) \o c
    BY DEF ExtBytes
  <1>2. /\ c \in Seq(Bytes) /\ Len(c) <= 12 /\ x.type \in {0, 1}
        /\ x.type = 0 => x.names \in ServerNames /\ c = ListBytes(x.names)
        /\ x.type # 0 => x.names = <<>>
    <2>1. CASE x \in [type : {0}, names : ServerNames, data : {<<>>}]
      <3>1. x.type = 0 /\ x.names \in ServerNames
        BY <2>1
      <3>2. ListShape(ListBytes(x.names), x.names)
        BY <3>1, ListIs
      <3> QED BY <1>1, <3>1, <3>2 DEF ListShape
    <2>2. CASE x \in [type : {1}, names : {<<>>}, data : {<<>>, <<0, 0, 1, 5>>}]
      <3>1. x.type = 1 /\ x.names = <<>> /\ (x.data = <<>> \/ x.data = <<0, 0, 1, 5>>)
        BY <2>2
      <3>2. 0 \in Bytes /\ 1 \in Bytes /\ 5 \in Bytes
        BY DEF Bytes
      <3>3. <<0, 0, 1, 5>> \in Seq(Bytes) /\ Len(<<0, 0, 1, 5>>) <= 12
        BY <3>2, SMT
      <3>4. <<>> \in Seq(Bytes) /\ Len(<<>>) <= 12
        OBVIOUS
      <3>5. x.data \in Seq(Bytes) /\ Len(x.data) <= 12
        BY <3>1, <3>3, <3>4, Zenon
      <3>6. c = x.data
        BY <1>1, <3>1
      <3> QED BY <3>1, <3>5, <3>6
    <2> QED BY <2>1, <2>2 DEF Exts
  <1>3. x.type \in Bytes
    <2>1. x.type \in Nat /\ x.type <= 255
      BY <1>2
    <2> QED BY <2>1, SmallByte
  <1>4. PICK d \in Seq(Bytes) : d = c /\ Len(d) <= 12 /\ b = (Two(x.type) \o Two(Len(d))) \o d
    BY <1>1, <1>2
  <1>5. /\ b \in Seq(Bytes) /\ Len(b) = 4 + Len(d)
        /\ Placed(b, 0, <<0, x.type>>) /\ Placed(b, 2, <<0, Len(d)>>) /\ Placed(b, 4, d)
    BY <1>3, <1>4, ContentShape
  <1>6. Len(b) - 4 = Len(d) /\ 4 <= Len(b) /\ Len(b) <= 16 /\ Len(d) \in Nat
    <2>1. Len(d) \in Nat /\ Len(d) <= 12
      BY <1>4
    <2> QED BY <1>5, <2>1
  <1>7. b \in Seq(Bytes) /\ Placed(b, 0, <<0, x.type>>) /\ Placed(b, 2, <<0, Len(b) - 4>>) /\ Placed(b, 4, d)
    BY <1>5, <1>6
  <1>8. CASE x.type # 0
    <2>0. x.names = <<>>
      BY <1>2, <1>8
    <2>1. x.names = <<>> /\ x.names \in Seq(Names) /\ Len(x.names) = 0 /\ Len(x.names) \in 0 .. 2
      BY <2>0
    <2>2. Len(x.names) # 2
      BY <2>1
    <2> QED BY <1>1, <1>2, <1>6, <1>7, <1>8, <2>1, <2>2, Zenon DEF ExtShape
  <1>9. CASE x.type = 0
    <2>1. ListShape(d, x.names) /\ x.names \in Seq(Names) /\ Len(x.names) \in 0 .. 2
      BY <1>2, <1>4, <1>9, ListIs
    <2>2. /\ 2 <= Len(d) /\ Placed(d, 0, <<0, Len(d) - 2>>)
          /\ x.names = <<>> => Len(d) = 2
          /\ Len(x.names) <= Len(d) - 2
          /\ x.names # <<>> => Placed(d, 2, NameBytes(x.names[1]))
          /\ Len(x.names) = 2 => Placed(d, 2 + Len(NameBytes(x.names[1])), NameBytes(x.names[2]))
      BY <2>1 DEF ListShape
    <2>3. Len(d) - 2 = Len(b) - 6 /\ Len(b) >= 6 /\ (Len(d) = 2 => Len(b) = 6)
      <3>1. \A m, k \in Nat : 2 <= m /\ k = 4 + m => m - 2 = k - 6 /\ k >= 6 /\ (m = 2 => k = 6)
        OBVIOUS
      <3>2. Len(d) \in Nat /\ 2 <= Len(d) /\ Len(b) = 4 + Len(d) /\ Len(b) \in Nat
        BY <1>5, <1>6, <2>2
      <3> QED BY <3>1, <3>2, Zenon
    <2>4. Placed(b, 4, <<0, Len(b) - 6>>)
      <3>0. Len(d) - 2 \in Nat /\ Len(d) - 2 <= 255
        BY <1>4, <1>6, <2>2
      <3>1. Len(d) - 2 \in Bytes /\ 4 \in Nat /\ 0 \in Nat /\ 4 + 0 = 4
        BY <3>0, SmallByte
      <3>2. <<0, Len(d) - 2>> \in Seq(Bytes)
        BY <3>1, TwoSmall
      <3>3. Placed(b, 4 + 0, <<0, Len(d) - 2>>)
        BY <1>7, <2>2, <3>1, <3>2, PlacedIn
      <3> QED BY <2>3, <3>1, <3>3
    <2>5. ASSUME x.names # <<>> PROVE Placed(b, 6, NameBytes(x.names[1]))
      <3>1. x.names[1] \in Names
        BY <2>1, <2>5
      <3>2. NameBytes(x.names[1]) \in Seq(Bytes) /\ 4 \in Nat /\ 2 \in Nat /\ 4 + 2 = 6
        <4>1. NameBytes(x.names[1]) \in Seq(Bytes)
          BY <3>1, NameShape
        <4> QED BY <4>1
      <3>3. Placed(b, 4 + 2, NameBytes(x.names[1]))
        BY <1>7, <2>2, <2>5, <3>2, PlacedIn
      <3> QED BY <3>2, <3>3
    <2>6. ASSUME Len(x.names) = 2 PROVE Placed(b, 6 + Len(NameBytes(x.names[1])), NameBytes(x.names[2]))
      <3>1. x.names[1] \in Names /\ x.names[2] \in Names
        BY <2>1, <2>6
      <3>2. PICK n \in Seq(Bytes), m \in Seq(Bytes) : n = NameBytes(x.names[1]) /\ m = NameBytes(x.names[2])
        BY <3>1, NameShape
      <3>3. Placed(d, 2 + Len(n), m) /\ 2 + Len(n) \in Nat /\ 4 \in Nat /\ 4 + (2 + Len(n)) = 6 + Len(n)
        BY <2>2, <2>6, <3>2
      <3>4. Placed(b, 4 + (2 + Len(n)), m)
        BY <1>7, <3>3, PlacedIn
      <3> QED BY <3>2, <3>3, <3>4
    <2> QED BY <1>1, <1>6, <1>7, <1>9, <2>1, <2>2, <2>3, <2>4, <2>5, <2>6 DEF ExtShape
  <1> QED BY <1>8, <1>9

\* The second of two sequences behind the first.
LEMMA Behind ==
  ASSUME NEW p \in Seq(Bytes), NEW q \in Seq(Bytes), NEW r, r = p \o q
  PROVE  /\ r \in Seq(Bytes) /\ Len(r) = Len(p) + Len(q) /\ Len(p) \in Nat /\ Len(q) \in Nat
         /\ Placed(r, 0, p) /\ Placed(r, Len(p), q)
  <1>1. 0 \in Nat /\ Placed(p, 0, p)
    BY PlacedSelf
  <1>2. Placed(p \o q, 0, p) /\ Placed(p \o q, Len(p), q)
    BY <1>1, PlacedLeft, PlacedRight
  <1>3. p \o q \in Seq(Bytes) /\ Len(p \o q) = Len(p) + Len(q) /\ Len(p) \in Nat /\ Len(q) \in Nat
    BY Join
  <1> QED BY <1>2, <1>3

\* What lies in the beginning of a sequence.
LEMMA InBeginning ==
  ASSUME NEW s \in Seq(Bytes), NEW b \in Seq(Bytes), NEW c \in Seq(Bytes), NEW i \in Nat,
         Placed(s, 0, b), Placed(b, i, c)
  PROVE  Placed(s, i, c)
  <1>1. 0 \in Nat /\ 0 + i = i
    OBVIOUS
  <1>2. Placed(s, 0 + i, c)
    BY <1>1, PlacedIn
  <1> QED BY <1>1, <1>2

\* The extensions one behind the other, without the length before them.
ExtsBody(xs) == FlattenSeq([i \in DOMAIN xs |-> ExtBytes(xs[i])])

\* The extensions are bytes, and fit the two bytes of their length.
LEMMA BodyShort ==
  ASSUME NEW xs \in Seq(Exts), Len(xs) <= MaxExts
  PROVE  ExtsBody(xs) \in Seq(Bytes) /\ Short(Len(ExtsBody(xs)))
  <1> DEFINE q == [i \in DOMAIN xs |-> ExtBytes(xs[i])]
             b == FlattenSeq(q)
  <1>1. q \in Seq(Seq(Bytes)) /\ Len(q) = Len(xs) /\ \A i \in 1 .. Len(q) : Len(q[i]) <= 16
    BY ExtLen
  <1> HIDE DEF q
  <1>2. b \in Seq(Bytes) /\ Len(b) <= 16 * Len(q)
    <2>1. 16 \in Nat
      OBVIOUS
    <2> QED BY <1>1, <2>1, Flattened
  <1> HIDE DEF b
  <1>3. Len(q) \in Nat /\ Len(q) <= MaxExts /\ MaxExts \in Nat /\ MaxExts <= 4095 /\ Len(b) \in Nat
    BY <1>1, <1>2, SniAssumption, SMT
  <1>4. Short(Len(b))
    BY <1>2, <1>3, SMT DEF Short
  <1> QED BY <1>2, <1>4 DEF ExtsBody, b, q

\* Where the ciphers of a hello end.
HelloComp(sid, ciphers) == Fixed + 1 + sid + 2 + ciphers

\* The fields of the hello h, whose methods of compression are at comp and whose
\* extensions are the bytes body.
HelloParts(h, kind, sid, ciphers, comp, body) ==
    /\ h \in Seq(Bytes) /\ comp \in Nat /\ Len(h) = comp + 4 + Len(body)
    /\ Placed(h, 0, <<kind>>) /\ Placed(h, Fixed, <<sid>>)
    /\ Placed(h, Fixed + 1 + sid, <<0, ciphers>>) /\ Placed(h, comp, <<1, 0>>)
    /\ Placed(h, comp + 2, Two(Len(body))) /\ Placed(h, comp + 4, body)

\* Where the fields of a hello are.
LEMMA HelloShape ==
  ASSUME NEW kind \in {ClientHello, 2}, NEW sid \in SidLens, NEW ciphers \in CipherLens,
         NEW xs \in Seq(Exts), Len(xs) <= MaxExts,
         NEW h, h = HelloBytes(kind, sid, ciphers, xs),
         NEW comp, comp = HelloComp(sid, ciphers)
  PROVE  HelloParts(h, kind, sid, ciphers, comp, ExtsBody(xs))
  <1>1. /\ kind \in Bytes /\ sid \in Bytes /\ ciphers \in Bytes /\ 1 \in Bytes /\ 3 \in Bytes /\ 0 \in Bytes
        /\ Fixed \in Nat /\ Fixed - 1 \in Nat /\ sid \in Nat /\ ciphers \in Nat /\ comp \in Nat
    BY SniAssumption, SMT DEF Bytes, ClientHello, HelloComp
  <1>2. PICK k \in Seq(Bytes), rf \in Seq(Bytes), si \in Seq(Bytes), rs \in Seq(Bytes) :
          /\ k = <<kind>> /\ Len(k) = 1 /\ rf = [i \in 1 .. Fixed - 1 |-> 1] /\ Len(rf) = Fixed - 1
          /\ si = <<sid>> /\ Len(si) = 1 /\ rs = [i \in 1 .. sid |-> 3] /\ Len(rs) = sid
    <2>1. <<kind>> \in Seq(Bytes) /\ Len(<<kind>>) = 1 /\ <<sid>> \in Seq(Bytes) /\ Len(<<sid>>) = 1
      BY <1>1
    <2>2. /\ [i \in 1 .. Fixed - 1 |-> 1] \in Seq(Bytes) /\ Len([i \in 1 .. Fixed - 1 |-> 1]) = Fixed - 1
          /\ [i \in 1 .. sid |-> 3] \in Seq(Bytes) /\ Len([i \in 1 .. sid |-> 3]) = sid
      BY <1>1, Run
    <2> QED BY <2>1, <2>2
  <1>3. PICK ci \in Seq(Bytes), rc \in Seq(Bytes), co \in Seq(Bytes), le \in Seq(Bytes), bo \in Seq(Bytes) :
          /\ ci = <<0, ciphers>> /\ ci = Two(ciphers) /\ Len(ci) = 2
          /\ rc = [i \in 1 .. ciphers |-> 3] /\ Len(rc) = ciphers
          /\ co = <<1, 0>> /\ Len(co) = 2
          /\ bo = ExtsBody(xs) /\ le = Two(Len(bo)) /\ Len(le) = 2
    <2>1. Two(ciphers) = <<0, ciphers>> /\ <<0, ciphers>> \in Seq(Bytes) /\ Len(<<0, ciphers>>) = 2
      BY <1>1, TwoSmall
    <2>2. [i \in 1 .. ciphers |-> 3] \in Seq(Bytes) /\ Len([i \in 1 .. ciphers |-> 3]) = ciphers
      BY <1>1, Run
    <2>3. <<1, 0>> \in Seq(Bytes) /\ Len(<<1, 0>>) = 2
      BY <1>1
    <2>4. ExtsBody(xs) \in Seq(Bytes) /\ Short(Len(ExtsBody(xs)))
      BY BodyShort
    <2>5. Two(Len(ExtsBody(xs))) \in Seq(Bytes) /\ Len(Two(Len(ExtsBody(xs)))) = 2
      BY <2>4, TwoBytes
    <2> QED BY <2>1, <2>2, <2>3, <2>4, <2>5
  <1>4. h = (((((((k \o rf) \o si) \o rs) \o ci) \o rc) \o co) \o (le \o bo))
    BY <1>2, <1>3 DEF HelloBytes, ExtsBytes, ExtsBody
  <1>5. PICK p1 \in Seq(Bytes) : p1 = k \o rf /\ Len(p1) = Fixed /\ Placed(p1, 0, k)
    <2>1. PICK p : p = k \o rf
      OBVIOUS
    <2>2. p \in Seq(Bytes) /\ Len(p) = Len(k) + Len(rf) /\ Placed(p, 0, k)
      BY <2>1, Behind
    <2>3. 1 + (Fixed - 1) = Fixed
      BY <1>1
    <2> QED BY <1>2, <2>1, <2>2, <2>3
  <1>6. PICK p2 \in Seq(Bytes) : p2 = p1 \o si /\ Len(p2) = Fixed + 1 /\ Placed(p2, 0, p1) /\ Placed(p2, Fixed, si)
    <2>1. Len(p1) = Fixed /\ Len(si) = 1
      BY <1>2, <1>5
    <2>2. PICK p : p = p1 \o si
      OBVIOUS
    <2>3. /\ p \in Seq(Bytes) /\ Len(p) = Len(p1) + Len(si)
          /\ Placed(p, 0, p1) /\ Placed(p, Len(p1), si)
      BY <2>2, Behind
    <2> QED BY <2>1, <2>2, <2>3
  <1>7. PICK p3 \in Seq(Bytes) : p3 = p2 \o rs /\ Len(p3) = Fixed + 1 + sid /\ Placed(p3, 0, p2)
    <2>1. Len(p2) = Fixed + 1 /\ Len(rs) = sid
      BY <1>2, <1>6
    <2>2. PICK p : p = p2 \o rs
      OBVIOUS
    <2>3. p \in Seq(Bytes) /\ Len(p) = Len(p2) + Len(rs) /\ Placed(p, 0, p2)
      BY <2>2, Behind
    <2> QED BY <2>1, <2>2, <2>3
  <1>8. PICK p4 \in Seq(Bytes) : /\ p4 = p3 \o ci /\ Len(p4) = Fixed + 1 + sid + 2
                                 /\ Placed(p4, 0, p3) /\ Placed(p4, Fixed + 1 + sid, ci)
    <2>1. Len(p3) = Fixed + 1 + sid /\ Len(ci) = 2
      BY <1>3, <1>7
    <2>2. PICK p : p = p3 \o ci
      OBVIOUS
    <2>3. /\ p \in Seq(Bytes) /\ Len(p) = Len(p3) + Len(ci)
          /\ Placed(p, 0, p3) /\ Placed(p, Len(p3), ci)
      BY <2>2, Behind
    <2> QED BY <2>1, <2>2, <2>3
  <1>9. PICK p5 \in Seq(Bytes) : p5 = p4 \o rc /\ Len(p5) = comp /\ Placed(p5, 0, p4)
    <2>1. PICK p : p = p4 \o rc
      OBVIOUS
    <2>2. p \in Seq(Bytes) /\ Len(p) = Len(p4) + Len(rc) /\ Placed(p, 0, p4)
      BY <2>1, Behind
    <2> QED BY <1>3, <1>8, <2>1, <2>2 DEF HelloComp
  <1>10. PICK p6 \in Seq(Bytes) : p6 = p5 \o co /\ Len(p6) = comp + 2 /\ Placed(p6, 0, p5) /\ Placed(p6, comp, co)
    <2>1. Len(p5) = comp /\ Len(co) = 2
      BY <1>3, <1>9
    <2>2. PICK p : p = p5 \o co
      OBVIOUS
    <2>3. /\ p \in Seq(Bytes) /\ Len(p) = Len(p5) + Len(co)
          /\ Placed(p, 0, p5) /\ Placed(p, Len(p5), co)
      BY <2>2, Behind
    <2> QED BY <2>1, <2>2, <2>3
  <1>11. PICK p7 \in Seq(Bytes) :
           /\ p7 = le \o bo /\ Len(p7) = 2 + Len(bo) /\ Placed(p7, 0, le) /\ Placed(p7, 2, bo) /\ Len(bo) \in Nat
    <2>1. Len(bo) \in Nat
      OBVIOUS
    <2>2. Len(le) = 2
      BY <1>3
    <2>3. PICK p : p = le \o bo
      OBVIOUS
    <2>4. /\ p \in Seq(Bytes) /\ Len(p) = Len(le) + Len(bo)
          /\ Placed(p, 0, le) /\ Placed(p, Len(le), bo)
      BY <2>3, Behind
    <2> QED BY <2>1, <2>2, <2>3, <2>4
  <1>12. h \in Seq(Bytes) /\ Len(h) = comp + 2 + (2 + Len(bo)) /\ Placed(h, 0, p6) /\ Placed(h, comp + 2, p7)
    <2>1. h = p6 \o p7
      BY <1>4, <1>5, <1>6, <1>7, <1>8, <1>9, <1>10, <1>11
    <2>2. h \in Seq(Bytes) /\ Len(h) = Len(p6) + Len(p7) /\ Placed(h, 0, p6) /\ Placed(h, Len(p6), p7)
      BY <2>1, Behind
    <2> QED BY <1>10, <1>11, <2>2
  <1>13. Placed(h, comp + 2, le) /\ Placed(h, comp + 4, bo)
    <2>1. comp + 2 \in Nat /\ 0 \in Nat /\ 2 \in Nat /\ comp + 2 + 0 = comp + 2 /\ comp + 2 + 2 = comp + 4
      <3>1. \A c \in Nat : c + 2 \in Nat /\ 0 \in Nat /\ 2 \in Nat /\ c + 2 + 0 = c + 2 /\ c + 2 + 2 = c + 4
        OBVIOUS
      <3>2. comp \in Nat
        BY <1>1
      <3> QED BY <3>1, <3>2, Zenon
    <2>2. Placed(h, comp + 2 + 0, le) /\ Placed(h, comp + 2 + 2, bo)
      BY <1>11, <1>12, <2>1, PlacedIn
    <2> QED BY <2>1, <2>2
  <1>14. 0 \in Nat /\ Fixed + 1 + sid \in Nat
    BY <1>1
  <1>15. Placed(h, comp, co) /\ Placed(h, 0, p5)
    BY <1>1, <1>10, <1>12, <1>14, InBeginning
  <1>16. Placed(h, 0, p4)
    BY <1>9, <1>12, <1>14, <1>15, InBeginning
  <1>17. Placed(h, Fixed + 1 + sid, ci) /\ Placed(h, 0, p3)
    <2>1. Placed(p4, 0, p3) /\ Placed(p4, Fixed + 1 + sid, ci)
      BY <1>8
    <2>2. h \in Seq(Bytes)
      BY <1>12
    <2>3. Placed(h, 0, p3)
      BY <1>14, <1>16, <2>1, <2>2, InBeginning
    <2>4. Placed(h, Fixed + 1 + sid, ci)
      BY <1>14, <1>16, <2>1, <2>2, InBeginning
    <2> QED BY <2>3, <2>4
  <1>18. Placed(h, 0, p2)
    BY <1>7, <1>12, <1>14, <1>17, InBeginning
  <1>19. Placed(h, Fixed, si) /\ Placed(h, 0, p1)
    BY <1>1, <1>6, <1>12, <1>14, <1>18, InBeginning
  <1>20. Placed(h, 0, k)
    BY <1>5, <1>12, <1>14, <1>19, InBeginning
  <1>21. Len(h) = comp + 4 + Len(bo)
    BY <1>1, <1>11, <1>12
  <1>22. /\ Placed(h, 0, <<kind>>) /\ Placed(h, Fixed, <<sid>>)
         /\ Placed(h, Fixed + 1 + sid, <<0, ciphers>>) /\ Placed(h, comp, <<1, 0>>)
    BY <1>2, <1>3, <1>15, <1>17, <1>19, <1>20
  <1>23. /\ Len(h) = comp + 4 + Len(ExtsBody(xs)) /\ Placed(h, comp + 2, Two(Len(ExtsBody(xs))))
         /\ Placed(h, comp + 4, ExtsBody(xs))
    BY <1>3, <1>13, <1>21
  <1> QED BY <1>1, <1>12, <1>22, <1>23 DEF HelloParts

-----------------------------------------------------------------------------
(* What the parser finds: it stands at the first byte of an extension or of  *)
(* a name until it has passed the first list of names that is not empty.     *)

\* b is behind offset o of the record, as far as the record goes.
Holds(o, b) == \A j \in 1 .. Len(b) : o + j <= Len(data) => data[o + j] = b[j]

\* off has the offsets of the extensions, and the end of the last.
ExtsInv(off) ==
    /\ data \in Seq(Bytes) /\ exts \in Seq(Exts) /\ off \in [1 .. Len(exts) + 1 -> Nat]
    /\ \A i \in 1 .. Len(exts) :
          /\ off[i + 1] = off[i] + Len(ExtBytes(exts[i])) /\ off[i + 1] <= off[Len(exts) + 1]
          /\ Holds(off[i], ExtBytes(exts[i]))
    /\ Len(data) <= off[Len(exts) + 1] /\ (whole => Len(data) = off[Len(exts) + 1])

\* The fields before the extensions.
FieldsInv(off, sid, ciphers) ==
    /\ Holds(Fixed, <<sid>>) /\ Holds(Fixed + 1 + sid, <<0, ciphers>>)
    /\ Holds(HelloComp(sid, ciphers), <<1, 0>>)
    /\ off[1] = HelloComp(sid, ciphers) + 4
    /\ whole => /\ data[1] = ClientHello
                /\ Number(HelloComp(sid, ciphers) + 2) = Len(data) - off[1]
                /\ off[1] <= Len(data)

Layout(off) == ExtsInv(off) /\ \E sid \in Nat, ciphers \in CipherLens : FieldsInv(off, sid, ciphers)

\* t is the first extension with names, or the end of all.
FirstList(t) ==
    /\ t \in 1 .. Len(exts) + 1
    /\ \A i \in 1 .. t - 1 : exts[i].names = <<>>
    /\ t <= Len(exts) => exts[t].names # <<>>

\* If there are names in it, a host name is among them.
HasHost(t) == t <= Len(exts) => \E k \in 1 .. Len(exts[t].names) : exts[t].names[k].type = 0

\* The k-th name is the first host name of ns.
FirstHost(ns, k) == ns[k].type = 0 /\ \A j \in 1 .. k - 1 : ns[j].type # 0

\* The parser is at the k-th of the names of the list at o, and has rounds left
\* for all of them from there on.
AtName(o, ns, k) ==
    /\ at = o + 6 + (IF k = 1 THEN 0 ELSE Len(NameBytes(ns[1])))
    /\ k = 2 => ns[1].type # 0
    /\ names + k > Len(ns)

\* The parser is within the names of extension i.
InNames(off, t, i) ==
    /\ i <= Len(exts) /\ exts[i].type = 0 /\ next = off[i + 1]
    /\ i < t => names = 0
    /\ i = t => \E k \in 1 .. Len(exts[t].names) : AtName(off[t], exts[t].names, k)

\* A cipher suite is two bytes.
SuitesWhole == \A c \in CipherLens : c % 2 = 0

Place(off, t) ==
    /\ pc = "ext" => \E i \in 1 .. t : at = off[i]
    /\ pc = "name" => \E i \in 1 .. t : InNames(off, t, i)
    /\ pc = "name_found" =>
          t <= Len(exts) /\ \E k \in 1 .. Len(exts[t].names) :
              FirstHost(exts[t].names, k) /\ result = exts[t].names[k].bytes
    /\ whole /\ t <= Len(exts) /\ SuitesWhole => pc # "error"

PlaceInv == \E off : Layout(off) /\ \A t : FirstList(t) /\ HasHost(t) => Place(off, t)

\* What lies in the whole hello is in the record, as far as this goes.
LEMMA HoldsCut ==
  ASSUME NEW h \in Seq(Bytes), NEW n \in Nat, n <= Len(h), data = SubSeq(h, 1, n),
         NEW o \in Nat, NEW b \in Seq(Bytes), Placed(h, o, b)
  PROVE  Holds(o, b)
  <1>1. data \in Seq(Bytes) /\ Len(data) = n /\ \A i \in 1 .. n : data[i] = h[i]
    OBVIOUS
  <1>2. \A j \in 1 .. Len(b) : h[o + j] = b[j]
    BY DEF Placed
  <1>3. ASSUME NEW j \in 1 .. Len(b), o + j <= Len(data) PROVE data[o + j] = b[j]
    <2>1. o + j \in 1 .. n
      BY <1>1, <1>3
    <2> QED BY <1>1, <1>2, <2>1
  <1> QED BY <1>3 DEF Holds

\* What lies in a part of the record.
LEMMA HoldsIn ==
  ASSUME NEW b \in Seq(Bytes), NEW c \in Seq(Bytes), NEW o \in Nat, NEW i \in Nat, Holds(o, b), Placed(b, i, c),
         Len(data) \in Nat
  PROVE  Holds(o + i, c)
  <1>1. Len(b) \in Nat /\ Len(c) \in Nat
    OBVIOUS
  <1>2. i + Len(c) <= Len(b) /\ \A j \in 1 .. Len(c) : b[i + j] = c[j]
    BY DEF Placed
  <1>3. ASSUME NEW j \in 1 .. Len(c), o + i + j <= Len(data) PROVE data[o + i + j] = c[j]
    <2>1. i + j \in 1 .. Len(b) /\ o + (i + j) = o + i + j
      BY <1>1, <1>2
    <2>2. PICK k \in 1 .. Len(b) : k = i + j
      BY <2>1
    <2>3. o + k = o + i + j
      BY <2>1, <2>2
    <2>4. data[o + k] = b[k]
      BY <1>3, <2>3 DEF Holds
    <2> QED BY <1>2, <2>2, <2>3, <2>4
  <1> QED BY <1>3 DEF Holds

\* A byte that is read, and a number.
LEMMA ReadByte ==
  ASSUME NEW o \in Nat, NEW v, Holds(o, <<v>>), o + 1 <= Len(data)
  PROVE  Byte(o) = v
  <1>1. Len(<<v>>) = 1 /\ <<v>>[1] = v /\ 1 \in 1 .. 1
    OBVIOUS
  <1>2. data[o + 1] = <<v>>[1]
    BY <1>1, Zenon DEF Holds
  <1> QED BY <1>1, <1>2 DEF Byte

\* A number that is read.
LEMMA ReadNumber ==
  ASSUME NEW o \in Nat, NEW u, NEW v, Holds(o, <<u, v>>), o + 2 <= Len(data), Len(data) \in Nat
  PROVE  Number(o) = 256 * u + v
  <1>1. Len(<<u, v>>) = 2 /\ <<u, v>>[1] = u /\ <<u, v>>[2] = v /\ 1 \in 1 .. 2 /\ 2 \in 1 .. 2 /\ o + 1 <= Len(data)
    OBVIOUS
  <1>2. data[o + 1] = u /\ data[o + 2] = v
    BY <1>1, Zenon DEF Holds
  <1> QED BY <1>2 DEF Number

\* A number below 256 that is read.
LEMMA ReadSmall ==
  ASSUME NEW o \in Nat, NEW v \in Nat, Holds(o, <<0, v>>), o + 2 <= Len(data), Len(data) \in Nat
  PROVE  Number(o) = v
  <1>1. Number(o) = 256 * 0 + v
    BY ReadNumber
  <1> QED BY <1>1

\* A name that is read.
LEMMA ReadName ==
  ASSUME NEW n \in Names, NEW o \in Nat, Holds(o, NameBytes(n)), data \in Seq(Bytes)
  PROVE  /\ o + 3 <= Len(data) => Byte(o) = n.type /\ Number(o + 1) = Len(n.bytes)
         /\ o + 3 + Len(n.bytes) <= Len(data) => SubSeq(data, o + 4, o + 3 + Len(n.bytes)) = n.bytes
  <1>1. PICK b \in Seq(Bytes), s \in Seq(Bytes), t \in Seq(Bytes), l \in Seq(Bytes) :
          /\ b = NameBytes(n) /\ s = n.bytes /\ t = <<n.type>> /\ l = <<0, Len(s)>>
          /\ Placed(b, 0, t) /\ Placed(b, 1, l) /\ Placed(b, 3, s)
    <2>1. Len(n.bytes) \in {1, 2} /\ n.bytes \in Seq(Bytes) /\ <<n.type>> \in Seq(Bytes)
      BY NameBody
    <2>2. Len(n.bytes) \in Nat /\ Len(n.bytes) <= 255
      <3>1. \A k \in {1, 2} : k \in Nat /\ k <= 255
        OBVIOUS
      <3> QED BY <2>1, <3>1, Zenon
    <2>3. <<0, Len(n.bytes)>> \in Seq(Bytes)
      BY <2>2, SmallByte, TwoSmall
    <2>4. /\ NameBytes(n) \in Seq(Bytes)
          /\ Placed(NameBytes(n), 0, <<n.type>>) /\ Placed(NameBytes(n), 1, <<0, Len(n.bytes)>>)
          /\ Placed(NameBytes(n), 3, n.bytes)
      BY NameShape
    <2> QED BY <2>1, <2>3, <2>4
  <1>2. Len(data) \in Nat /\ Len(s) \in Nat /\ 0 \in Nat /\ 1 \in Nat /\ 3 \in Nat /\ o + 0 = o /\ o + 1 \in Nat
    OBVIOUS
  <1>3. Holds(o + 0, t) /\ Holds(o + 1, l) /\ Holds(o + 3, s)
    BY <1>1, <1>2, HoldsIn
  <1>4. ASSUME o + 3 <= Len(data) PROVE Byte(o) = n.type /\ Number(o + 1) = Len(n.bytes)
    <2>1. o + 1 <= Len(data) /\ o + 1 + 2 <= Len(data)
      BY <1>2, <1>4
    <2>2. Byte(o) = n.type
      BY <1>1, <1>2, <1>3, <2>1, ReadByte
    <2>3. Number(o + 1) = Len(s)
      BY <1>1, <1>2, <1>3, <2>1, ReadSmall
    <2> QED BY <1>1, <2>2, <2>3
  <1>5. ASSUME o + 3 + Len(s) <= Len(data) PROVE SubSeq(data, o + 4, o + 3 + Len(s)) = s
    <2> DEFINE r == SubSeq(data, o + 4, o + 3 + Len(s))
    <2>1. r \in Seq(Bytes) /\ Len(r) = Len(s) /\ \A j \in 1 .. Len(s) : r[j] = data[o + 3 + j]
      BY <1>2, <1>5
    <2> HIDE DEF r
    <2>2. ASSUME NEW j \in 1 .. Len(s) PROVE r[j] = s[j]
      <3>1. o + 3 + j <= Len(data)
        BY <1>2, <1>5
      <3>2. data[o + 3 + j] = s[j]
        BY <1>3, <3>1 DEF Holds
      <3> QED BY <2>1, <3>2
    <2>3. r = s
      BY <2>1, <2>2
    <2> QED BY <2>3 DEF r
  <1> QED BY <1>1, <1>4, <1>5

\* A part that ends within a whole does so when both begin further on.
LEMMA Shifted ==
  ASSUME NEW c \in Nat, NEW x \in Nat, NEW l \in Nat, NEW f \in Nat, x + l <= f
  PROVE  c + (x + l) = c + x + l /\ c + (x + l) <= c + f
  OBVIOUS

\* The parser starts before a record in which the parts of a hello lie behind each
\* other.
LEMMA InitPlace ==
  ASSUME Init
  PROVE  PlaceInv
  <1>1. PICK kind \in {ClientHello, 2}, sid \in SidLens, ciphers \in CipherLens :
          \E n \in Fixed .. Len(HelloBytes(kind, sid, ciphers, exts)) :
             /\ data = SubSeq(HelloBytes(kind, sid, ciphers, exts), 1, n)
             /\ whole = (n = Len(HelloBytes(kind, sid, ciphers, exts)) /\ kind = ClientHello)
    BY DEF Init
  <1>2. PICK h : h = HelloBytes(kind, sid, ciphers, exts)
    OBVIOUS
  <1>3. PICK n \in Fixed .. Len(h) : data = SubSeq(h, 1, n) /\ whole = (n = Len(h) /\ kind = ClientHello)
    BY <1>1, <1>2
  <1>4. exts \in Seq(Exts) /\ Len(exts) <= MaxExts /\ Len(exts) \in Nat
    <2>1. PICK k \in 0 .. MaxExts : exts \in [1 .. k -> Exts]
      BY DEF Init
    <2>2. k \in Nat /\ k <= MaxExts
      BY <2>1, SniAssumption
    <2> QED BY <2>1, <2>2
  <1>5. PICK comp : comp = HelloComp(sid, ciphers)
    OBVIOUS
  <1>6. PICK F : F = ExtsBody(exts) /\ F \in Seq(Bytes) /\ Short(Len(F))
    BY <1>4, BodyShort
  <1>7. /\ h \in Seq(Bytes) /\ comp \in Nat /\ Len(h) = comp + 4 + Len(F)
        /\ Placed(h, 0, <<kind>>) /\ Placed(h, Fixed, <<sid>>)
        /\ Placed(h, Fixed + 1 + sid, <<0, ciphers>>) /\ Placed(h, comp, <<1, 0>>)
        /\ Placed(h, comp + 2, Two(Len(F))) /\ Placed(h, comp + 4, F)
    <2>1. exts \in Seq(Exts) /\ Len(exts) <= MaxExts
      BY <1>4
    <2>2. HelloParts(h, kind, sid, ciphers, comp, ExtsBody(exts))
      BY <1>2, <1>5, <2>1, HelloShape, Zenon
    <2>3. HelloParts(h, kind, sid, ciphers, comp, F)
      BY <1>6, <2>2
    <2> QED BY <2>3 DEF HelloParts
  <1>8. /\ Fixed \in Nat /\ sid \in Nat /\ sid <= 255 /\ ciphers \in Nat /\ ciphers <= 255 /\ n \in Nat
        /\ n <= Len(h) /\ Len(h) \in Nat /\ Len(F) \in Nat /\ comp + 4 \in Nat
    BY <1>3, <1>6, <1>7, SniAssumption
  <1>9. data \in Seq(Bytes) /\ Len(data) = n /\ \A i \in 1 .. n : data[i] = h[i]
    BY <1>3, <1>7, <1>8
  <1>10. ASSUME NEW o \in Nat, NEW b \in Seq(Bytes), Placed(h, o, b) PROVE Holds(o, b)
    BY <1>3, <1>7, <1>8, <1>10, HoldsCut
  <1> DEFINE q == [i \in DOMAIN exts |-> ExtBytes(exts[i])]
  <1>11. q \in Seq(Seq(Bytes)) /\ Len(q) = Len(exts) /\ \A i \in 1 .. Len(exts) : q[i] = ExtBytes(exts[i])
    <2>1. DOMAIN exts = 1 .. Len(exts) /\ \A i \in 1 .. Len(exts) : exts[i] \in Exts
      BY <1>4
    <2>2. \A i \in 1 .. Len(exts) : ExtBytes(exts[i]) \in Seq(Bytes)
      BY <2>1, ExtLen
    <2> QED BY <1>4, <2>1, <2>2
  <1>12. F = FlattenSeq(q)
    BY <1>6 DEF ExtsBody
  <1> HIDE DEF q
  <1>13. PICK rel \in [1 .. Len(q) + 1 -> Nat] :
           /\ rel[1] = 0 /\ rel[Len(q) + 1] = Len(F)
           /\ \A i \in 1 .. Len(q) : rel[i + 1] = rel[i] + Len(q[i]) /\ Placed(F, rel[i], q[i])
    BY <1>11, <1>12, Offsets
  <1> DEFINE off == [i \in 1 .. Len(exts) + 1 |-> comp + 4 + rel[i]]
  <1>14. /\ off \in [1 .. Len(exts) + 1 -> Nat] /\ off[1] = comp + 4 /\ off[Len(exts) + 1] = Len(h)
         /\ \A i \in 1 .. Len(exts) + 1 : off[i] = comp + 4 + rel[i] /\ rel[i] \in Nat
    <2>1. 1 \in 1 .. Len(exts) + 1 /\ Len(exts) + 1 \in 1 .. Len(exts) + 1
      BY <1>4
    <2>2. \A i \in 1 .. Len(exts) + 1 : rel[i] \in Nat
      BY <1>11, <1>13
    <2>3. rel[1] = 0 /\ rel[Len(exts) + 1] = Len(F)
      BY <1>11, <1>13
    <2>4. comp + 4 + 0 = comp + 4
      BY <1>8
    <2>5. \A i \in 1 .. Len(exts) + 1 : off[i] = comp + 4 + rel[i] /\ comp + 4 + rel[i] \in Nat
      BY <1>8, <2>2
    <2>6. off \in [1 .. Len(exts) + 1 -> Nat]
      BY <2>5
    <2> HIDE DEF off
    <2> QED BY <1>7, <2>1, <2>2, <2>3, <2>4, <2>5, <2>6
  <1> HIDE DEF off
  <1>15. ASSUME NEW i \in 1 .. Len(exts)
         PROVE  /\ off[i + 1] = off[i] + Len(ExtBytes(exts[i])) /\ off[i + 1] <= off[Len(exts) + 1]
                /\ Holds(off[i], ExtBytes(exts[i]))
    <2>1. i \in 1 .. Len(exts) + 1 /\ i + 1 \in 1 .. Len(exts) + 1 /\ i \in 1 .. Len(q)
      BY <1>4, <1>11
    <2>2. PICK b \in Seq(Bytes) : b = ExtBytes(exts[i]) /\ b = q[i] /\ Len(b) \in Nat
      BY <1>4, <1>11, ExtLen
    <2>3. rel[i + 1] = rel[i] + Len(b) /\ Placed(F, rel[i], b)
      BY <1>13, <2>1, <2>2
    <2>4. rel[i] \in Nat /\ off[i] = comp + 4 + rel[i] /\ off[i + 1] = comp + 4 + rel[i + 1]
      BY <1>14, <2>1
    <2>5. rel[i] + Len(b) <= Len(F)
      BY <2>3 DEF Placed
    <2>6. off[i + 1] = off[i] + Len(b) /\ off[i + 1] <= Len(h)
      <3>1. PICK c \in Nat, x \in Nat, l \in Nat, f \in Nat :
              c = comp + 4 /\ x = rel[i] /\ l = Len(b) /\ f = Len(F)
        BY <1>8, <2>2, <2>4
      <3>2. x + l <= f
        BY <2>5, <3>1
      <3>3. c + (x + l) = c + x + l /\ c + (x + l) <= c + f
        BY <3>2, Shifted
      <3>4. off[i] = c + x /\ off[i + 1] = c + (x + l) /\ Len(h) = c + f
        BY <1>7, <2>3, <2>4, <3>1
      <3>5. off[i + 1] = off[i] + l /\ off[i + 1] <= Len(h)
        BY <3>3, <3>4
      <3> QED BY <3>1, <3>5
    <2>7. Placed(h, comp + 4 + rel[i], b)
      BY <1>6, <1>7, <1>8, <2>3, <2>4, PlacedIn
    <2>8. Holds(off[i], b)
      <3>1. off[i] \in Nat
        BY <1>14, <2>1
      <3>2. Placed(h, off[i], b)
        BY <2>4, <2>7
      <3> QED BY <1>10, <3>1, <3>2
    <2> QED BY <1>14, <2>2, <2>6, <2>8
  <1>16. ExtsInv(off)
    <2>1. Len(data) <= off[Len(exts) + 1] /\ (whole => Len(data) = off[Len(exts) + 1])
      <3>1. Len(data) = n
        BY <1>9
      <3>2. off[Len(exts) + 1] = Len(h)
        BY <1>14
      <3>3. whole => n = Len(h)
        BY <1>3
      <3>4. n <= Len(h)
        BY <1>8
      <3> QED BY <3>1, <3>2, <3>3, <3>4
    <2> QED BY <1>4, <1>9, <1>14, <1>15, <2>1 DEF ExtsInv
  <1>17. FieldsInv(off, sid, ciphers)
    <2>1. 0 \in Bytes /\ 1 \in Bytes /\ sid \in Bytes /\ kind \in Bytes /\ ciphers \in Bytes
      BY <1>8, SmallByte DEF ClientHello, Bytes
    <2>2. /\ <<sid>> \in Seq(Bytes) /\ <<0, ciphers>> \in Seq(Bytes) /\ <<1, 0>> \in Seq(Bytes)
          /\ <<kind>> \in Seq(Bytes) /\ Two(Len(F)) \in Seq(Bytes) /\ Len(Two(Len(F))) = 2
      <3>1. Two(Len(F)) \in Seq(Bytes) /\ Len(Two(Len(F))) = 2
        BY <1>6, TwoBytes
      <3> QED BY <2>1, <3>1
    <2>3. Fixed + 1 + sid \in Nat /\ 0 \in Nat /\ comp + 2 \in Nat
      <3>1. \A c \in Nat : c + 2 \in Nat
        OBVIOUS
      <3>2. Fixed + 1 + sid \in Nat
        BY <1>8
      <3> QED BY <1>7, <3>1, <3>2
    <2>4. Holds(Fixed, <<sid>>) /\ Holds(Fixed + 1 + sid, <<0, ciphers>>) /\ Holds(comp, <<1, 0>>)
      BY <1>7, <1>8, <1>10, <2>2, <2>3
    <2>5. ASSUME whole
          PROVE  data[1] = ClientHello /\ Number(comp + 2) = Len(data) - off[1] /\ off[1] <= Len(data)
      <3>1. n = Len(h) /\ kind = ClientHello
        BY <1>3, <2>5
      <3>2. Len(data) = comp + 4 + Len(F) /\ Len(data) \in Nat /\ off[1] = comp + 4
        BY <1>7, <1>9, <1>14, <3>1
      <3>3. off[1] <= Len(data) /\ Len(data) - off[1] = Len(F) /\ comp + 2 + 2 <= Len(data) /\ 0 + 1 <= Len(data)
        <4>1. \A c, f \in Nat : /\ c + 4 <= c + 4 + f /\ c + 4 + f - (c + 4) = f /\ c + 2 + 2 <= c + 4 + f
                                /\ 0 + 1 <= c + 4 + f
          OBVIOUS
        <4> QED BY <1>7, <1>8, <3>2, <4>1
      <3>4. Holds(0, <<kind>>) /\ Holds(comp + 2, Two(Len(F)))
        BY <1>7, <1>10, <2>2, <2>3
      <3>5. Byte(0) = kind
        BY <2>3, <3>3, <3>4, ReadByte
      <3>6. data[1] = ClientHello
        BY <3>1, <3>5 DEF Byte
      <3>7. Two(Len(F)) = <<Len(F) \div 256, Len(F) % 256>>
        BY DEF Two
      <3>8. Number(comp + 2) = 256 * (Len(F) \div 256) + (Len(F) % 256)
        BY <2>3, <3>2, <3>3, <3>4, <3>7, ReadNumber
      <3>9. 256 * (Len(F) \div 256) + (Len(F) % 256) = Len(F)
        <4>1. 256 * Two(Len(F))[1] + Two(Len(F))[2] = Len(F)
          BY <1>6, TwoIs
        <4> QED BY <4>1 DEF Two
      <3> QED BY <3>3, <3>6, <3>8, <3>9
    <2> QED BY <1>5, <1>14, <2>4, <2>5 DEF FieldsInv
  <1>18. pc = "start"
    BY DEF Init
  <1>19. \A t : Place(off, t)
    BY <1>18 DEF Place
  <1> QED BY <1>8, <1>16, <1>17, <1>19 DEF PlaceInv, Layout

\* What the parser reads of extension x, of m bytes behind offset o, and where it
\* ends.
Readable(x, o, m, end) ==
    /\ ExtShape(ExtBytes(x), x) /\ o \in Nat /\ m \in Nat /\ 4 <= m /\ end = o + m
    /\ o + 4 <= Len(data) => Number(o) = x.type /\ Number(o + 2) = m - 4
    /\ x.type = 0 => 6 <= m
    /\ x.type = 0 /\ o + 6 <= Len(data) => Number(o + 4) = m - 6
    /\ whole => o + m <= Len(data)
    /\ x.names # <<>> => Holds(o + 6, NameBytes(x.names[1]))
    /\ Len(x.names) = 2 => Holds(o + 6 + Len(NameBytes(x.names[1])), NameBytes(x.names[2]))

\* Each extension is read as it was written.
LEMMA ExtRead ==
  ASSUME NEW off, ExtsInv(off), NEW i \in 1 .. Len(exts),
         NEW o, NEW m, NEW x, o = off[i], x = exts[i], m = Len(ExtBytes(x))
  PROVE  Readable(x, o, m, off[i + 1])
  <1>1. /\ x \in Exts /\ o \in Nat /\ Len(data) \in Nat /\ off[i + 1] = o + m
        /\ Holds(o, ExtBytes(x)) /\ (whole => Len(data) = off[Len(exts) + 1])
        /\ off[i + 1] <= off[Len(exts) + 1]
    <2>1. exts \in Seq(Exts) /\ data \in Seq(Bytes) /\ off \in [1 .. Len(exts) + 1 -> Nat]
      BY DEF ExtsInv
    <2>2. Len(exts) \in Nat /\ Len(data) \in Nat /\ exts[i] \in Exts
      BY <2>1
    <2>3. i \in 1 .. Len(exts) + 1
      BY <2>2
    <2>4. off[i] \in Nat
      BY <2>1, <2>3
    <2>5. /\ off[i + 1] = off[i] + Len(ExtBytes(exts[i])) /\ off[i + 1] <= off[Len(exts) + 1]
          /\ Holds(off[i], ExtBytes(exts[i]))
      BY Zenon DEF ExtsInv
    <2>6. whole => Len(data) = off[Len(exts) + 1]
      BY DEF ExtsInv
    <2> QED BY <2>2, <2>4, <2>5, <2>6, Zenon
  <1>2. ExtShape(ExtBytes(x), x)
    BY <1>1, ExtIs
  <1>3. PICK b \in Seq(Bytes) : b = ExtBytes(x) /\ Len(b) = m
    BY <1>2 DEF ExtShape
  <1>4. /\ m \in Nat /\ 4 <= m /\ m <= 16 /\ x.type \in {0, 1} /\ x.names \in Seq(Names) /\ Len(x.names) \in 0 .. 2
        /\ Placed(b, 0, <<0, x.type>>) /\ Placed(b, 2, <<0, m - 4>>)
        /\ x.type = 0 => 6 <= m /\ Placed(b, 4, <<0, m - 6>>)
        /\ x.names # <<>> => Placed(b, 6, NameBytes(x.names[1]))
        /\ Len(x.names) = 2 => Placed(b, 6 + Len(NameBytes(x.names[1])), NameBytes(x.names[2]))
    <2>1. Len(b) \in Nat
      OBVIOUS
    <2> QED BY <1>2, <1>3, <2>1 DEF ExtShape
  <1>5. m - 4 \in Nat /\ m - 4 <= 255 /\ (6 <= m => m - 6 \in Nat /\ m - 6 <= 255) /\ x.type \in Nat /\ x.type <= 255
    <2>1. m \in Nat /\ 4 <= m /\ m <= 16
      BY <1>4
    <2>2. x.type \in {0, 1}
      BY <1>4
    <2>3. m - 4 \in Nat /\ m - 4 <= 255 /\ (6 <= m => m - 6 \in Nat /\ m - 6 <= 255)
      BY <2>1
    <2>4. x.type \in Nat /\ x.type <= 255
      BY <2>2
    <2> QED BY <2>3, <2>4
  <1>6. 0 \in Nat /\ 2 \in Nat /\ 4 \in Nat /\ 6 \in Nat /\ o + 0 = o /\ o + 2 \in Nat /\ o + 4 \in Nat
    <2>1. o \in Nat
      BY <1>1
    <2> QED BY <2>1
  <1>7. ASSUME NEW k \in Nat, NEW v \in Nat, v <= 255, Placed(b, k, <<0, v>>), o + k + 2 <= Len(data)
        PROVE  Number(o + k) = v
    <2>1. <<0, v>> \in Seq(Bytes)
      BY <1>7, SmallByte, TwoSmall
    <2>2. Holds(o + k, <<0, v>>)
      BY <1>1, <1>3, <1>7, <2>1, HoldsIn
    <2>3. o + k \in Nat
      <3>1. o \in Nat
        BY <1>1
      <3> QED BY <3>1
    <2> QED BY <1>1, <1>7, <2>2, <2>3, ReadSmall
  <1>8. ASSUME o + 4 <= Len(data) PROVE Number(o) = x.type /\ Number(o + 2) = m - 4
    <2>1. o + 0 + 2 <= Len(data) /\ o + 2 + 2 <= Len(data)
      <3>1. PICK n \in Nat : n = Len(data)
        BY <1>1
      <3>2. o \in Nat /\ o + 4 <= n
        BY <1>1, <1>8, <3>1
      <3>3. o + 0 + 2 <= n /\ o + 2 + 2 <= n
        BY <3>2
      <3> QED BY <3>1, <3>3
    <2>2. Number(o + 0) = x.type
      BY <1>4, <1>5, <1>6, <1>7, <2>1
    <2>3. Number(o + 2) = m - 4
      BY <1>4, <1>5, <1>6, <1>7, <2>1
    <2> QED BY <1>6, <2>2, <2>3
  <1>9. ASSUME x.type = 0, o + 6 <= Len(data) PROVE Number(o + 4) = m - 6
    <2>1. o + 4 + 2 <= Len(data)
      BY <1>1, <1>9
    <2> QED BY <1>4, <1>5, <1>6, <1>7, <1>9, <2>1
  <1>10. ASSUME x.names # <<>> PROVE Holds(o + 6, NameBytes(x.names[1]))
    <2>1. x.names[1] \in Names
      BY <1>4, <1>10, FewPlaces
    <2>2. NameBytes(x.names[1]) \in Seq(Bytes)
      BY <2>1, NameShape
    <2> QED BY <1>1, <1>3, <1>4, <1>6, <1>10, <2>2, HoldsIn
  <1>11. ASSUME Len(x.names) = 2 PROVE Holds(o + 6 + Len(NameBytes(x.names[1])), NameBytes(x.names[2]))
    <2>1. x.names[1] \in Names /\ x.names[2] \in Names
      BY <1>4, <1>11, FewPlaces
    <2>2. PICK c \in Seq(Bytes), d \in Seq(Bytes) : c = NameBytes(x.names[1]) /\ d = NameBytes(x.names[2])
      BY <2>1, NameShape
    <2>3. Placed(b, 6 + Len(c), d) /\ 6 + Len(c) \in Nat /\ o + (6 + Len(c)) = o + 6 + Len(c)
      <3>1. Len(c) \in Nat
        OBVIOUS
      <3>2. \A k, l \in Nat : 6 + l \in Nat /\ k + (6 + l) = k + 6 + l
        OBVIOUS
      <3> QED BY <1>1, <1>4, <1>11, <2>2, <3>1, <3>2
    <2>4. Holds(o + (6 + Len(c)), d)
      BY <1>1, <1>3, <2>3, HoldsIn
    <2> QED BY <2>2, <2>3, <2>4
  <1>12. whole => o + m <= Len(data)
    BY <1>1
  <1> QED BY <1>1, <1>2, <1>4, <1>8, <1>9, <1>10, <1>11, <1>12 DEF Readable

\* Where the parser may go.
LEMMA PlaceAfter ==
  ASSUME NEW off, NEW t, UNCHANGED <<exts, whole, data>>,
         \/ pc' = "panic"
         \/ pc' = "error" /\ ~(whole /\ t <= Len(exts) /\ SuitesWhole)
         \/ pc' = "ext" /\ \E i \in 1 .. t : at' = off[i]
         \/ pc' = "name" /\ \E i \in 1 .. t : InNames(off, t, i)'
         \/ /\ pc' = "name_found" /\ t <= Len(exts)
            /\ \E k \in 1 .. Len(exts[t].names) :
                  FirstHost(exts[t].names, k) /\ result' = exts[t].names[k].bytes
  PROVE  Place(off, t)'
  <1>1. exts' = exts /\ whole' = whole
    OBVIOUS
  <1>2. CASE pc' = "panic"
    BY <1>2 DEF Place
  <1>3. CASE pc' = "error" /\ ~(whole /\ t <= Len(exts) /\ SuitesWhole)
    BY <1>1, <1>3 DEF Place
  <1>4. CASE pc' = "ext" /\ \E i \in 1 .. t : at' = off[i]
    BY <1>4 DEF Place
  <1>5. CASE pc' = "name" /\ \E i \in 1 .. t : InNames(off, t, i)'
    BY <1>5 DEF Place
  <1>6. CASE /\ pc' = "name_found" /\ t <= Len(exts)
             /\ \E k \in 1 .. Len(exts[t].names) :
                   FirstHost(exts[t].names, k) /\ result' = exts[t].names[k].bytes
    BY <1>1, <1>6 DEF Place, FirstHost
  <1> QED BY <1>2, <1>3, <1>4, <1>5, <1>6

\* The fields are read as they were written, and those of a whole hello with an
\* extension are accepted.
LEMMA FieldsPlace ==
  ASSUME SniInv, NEW off, Layout(off), NEW t, FirstList(t), Fields
  PROVE  Place(off, t)'
  <1>0. /\ OffsetsInv /\ UNCHANGED <<exts, whole, data>> /\ Len(data) \in Nat /\ Fixed \in Nat
        /\ ExtsInv(off)
    BY Bytewise, SniAssumption DEF SniInv, Fields, Layout
  <1>1. PICK sid \in Nat, ciphers \in CipherLens : FieldsInv(off, sid, ciphers)
    BY DEF Layout
  <1>2. PICK s \in Nat, comp \in Nat : /\ s = Fixed + 1 + sid /\ comp = s + 2 + ciphers
                                      /\ comp = HelloComp(sid, ciphers) /\ ciphers \in Nat /\ ciphers <= 255
    BY <1>0, SniAssumption DEF HelloComp
  <1>3. /\ Holds(Fixed, <<sid>>) /\ Holds(s, <<0, ciphers>>) /\ Holds(comp, <<1, 0>>) /\ off[1] = comp + 4
        /\ whole => data[1] = ClientHello /\ Number(comp + 2) = Len(data) - off[1] /\ off[1] <= Len(data)
    BY <1>1, <1>2 DEF FieldsInv
  <1>4. Fixed + 4 <= Len(data) => SkipSid(Fixed) = s
    <2>1. Fixed + 4 <= Len(data) => Fixed + 1 <= Len(data)
      BY <1>0
    <2>2. Fixed + 4 <= Len(data) => Byte(Fixed) = sid
      BY <1>0, <1>3, <2>1, ReadByte
    <2> QED BY <1>0, <1>2, <2>2 DEF SkipSid
  <1>5. s + 2 <= Len(data) => Number(s) = ciphers /\ SkipCiphers(s) = comp
    <2>1. s + 2 <= Len(data) => Number(s) = ciphers
      BY <1>0, <1>2, <1>3, ReadSmall
    <2> QED BY <1>2, <2>1 DEF SkipCiphers
  <1>6. comp + 1 <= Len(data) => Byte(comp) = 1 /\ comp + 1 + Byte(comp) = comp + 2 /\ comp + 1 + Byte(comp) + 2 = off[1]
    <2>1. ASSUME comp + 1 <= Len(data) PROVE Byte(comp) = 1
      <3>1. Len(<<1, 0>>) = 2 /\ <<1, 0>>[1] = 1 /\ 1 \in 1 .. 2
        OBVIOUS
      <3>2. data[comp + 1] = <<1, 0>>[1]
        BY <1>3, <2>1, <3>1, Zenon DEF Holds
      <3> QED BY <3>1, <3>2 DEF Byte
    <2>2. \A c \in Nat : c + 1 + 1 = c + 2 /\ c + 1 + 1 + 2 = c + 4
      OBVIOUS
    <2> QED BY <1>2, <1>3, <2>1, <2>2
  <1>7. 1 \in 1 .. t
    BY DEF FirstList, ExtsInv
  <1> DEFINE S == SkipSid(Fixed)
             C == SkipCiphers(S)
             E == C + 1 + Byte(C)
  <1>8. ASSUME whole, t <= Len(exts), SuitesWhole PROVE pc' = "ext"
    <2>1. off[1] <= Len(data) /\ comp + 4 <= Len(data)
      BY <1>3, <1>8
    <2>2. /\ Fixed + 4 <= Len(data) /\ s + 2 <= Len(data) /\ comp + 1 <= Len(data)
          /\ s <= Len(data) /\ 2 <= Len(data) - s /\ 3 + ciphers <= Len(data) - s
          /\ 1 + 1 <= Len(data) - comp /\ 2 <= Len(data) - (comp + 2)
      <3> HIDE DEF S, C, E
      <3>1. \A f, d, l, c \in Nat :
              f + 1 + d + 2 + c + 4 <= l =>
                /\ f + 4 <= l /\ f + 1 + d + 2 <= l /\ f + 1 + d <= l /\ 2 <= l - (f + 1 + d)
                /\ 3 + c <= l - (f + 1 + d)
        OBVIOUS
      <3>2. \A k, l \in Nat : k + 4 <= l => k + 1 <= l /\ 1 + 1 <= l - k /\ 2 <= l - (k + 2)
        OBVIOUS
      <3>3. Fixed + 1 + sid + 2 + ciphers + 4 <= Len(data)
        BY <1>2, <2>1
      <3>4. /\ Fixed + 4 <= Len(data) /\ s + 2 <= Len(data) /\ s <= Len(data) /\ 2 <= Len(data) - s
            /\ 3 + ciphers <= Len(data) - s
        BY <1>0, <1>2, <3>1, <3>3
      <3>5. comp + 1 <= Len(data) /\ 1 + 1 <= Len(data) - comp /\ 2 <= Len(data) - (comp + 2)
        BY <1>0, <1>2, <2>1, <3>2
      <3> QED BY <3>4, <3>5
    <2>3. S = s /\ C = comp /\ E = comp + 2 /\ Number(S) = ciphers /\ Byte(C) = 1
      <3>1. S = s
        BY <1>4, <2>2
      <3>2. C = comp /\ Number(S) = ciphers
        BY <1>5, <2>2, <3>1
      <3> QED BY <1>6, <2>2, <3>1, <3>2
    <2>4. Number(E) = Len(data) - off[1] /\ E + 2 = off[1] /\ Number(E) # 0 /\ Number(E) \in Nat
      <3>1. Number(E) = Len(data) - off[1] /\ E + 2 = off[1]
        BY <1>3, <1>6, <1>8, <2>2, <2>3
      <3>2. Len(data) = off[Len(exts) + 1] /\ 1 \in 1 .. Len(exts)
        BY <1>0, <1>8 DEF ExtsInv, FirstList
      <3>3. off[1 + 1] <= off[Len(exts) + 1]
        BY <1>0, <3>2, Zenon DEF ExtsInv
      <3>4. PICK m, x : x = exts[1] /\ m = Len(ExtBytes(x))
        OBVIOUS
      <3>5. off[1] \in Nat /\ m \in Nat /\ 4 <= m /\ off[1 + 1] = off[1] + m
        <4>1. Readable(x, off[1], m, off[1 + 1])
          BY <1>0, <3>2, <3>4, ExtRead
        <4> QED BY <4>1 DEF Readable
      <3>6. \A k, l, n \in Nat : 4 <= l /\ k + l <= n => n - k # 0 /\ n - k \in Nat
        OBVIOUS
      <3>7. Len(data) - off[1] # 0 /\ Len(data) - off[1] \in Nat
        BY <1>0, <3>2, <3>3, <3>5, <3>6
      <3> QED BY <3>1, <3>7
    <2>5. ~(S > Len(data)) /\ ~(Left(S) < 2) /\ ~(Left(S) < 3 + Number(S))
      <3>1. Left(S) = Len(data) - s
        BY <2>3 DEF Left
      <3> HIDE DEF S, C, E
      <3> QED BY <1>0, <1>2, <2>2, <2>3, <3>1
    <2>6. ~(Number(S) % 2 = 1)
      <3>1. ciphers % 2 = 0
        BY <1>8 DEF SuitesWhole
      <3> HIDE DEF S, C, E
      <3> QED BY <2>3, <3>1
    <2>7. ~(Left(C) < 1 + Byte(C)) /\ ~(Left(E) < 2)
      <3>1. Left(C) = Len(data) - comp /\ Left(E) = Len(data) - (comp + 2)
        BY <2>3 DEF Left
      <3> HIDE DEF S, C, E
      <3> QED BY <1>0, <1>2, <2>2, <2>3, <3>1
    <2>8. ~(Left(E + 2) < Number(E))
      <3>1. Left(E + 2) = Number(E)
        BY <2>4 DEF Left
      <3> HIDE DEF S, C, E
      <3> QED BY <2>4, <3>1
    <2>9. data[1] = ClientHello /\ ~(Len(data) < Fixed + 4)
      BY <1>0, <1>3, <1>8, <2>2
    <2> HIDE DEF S, C, E
    <2> QED BY <2>4, <2>5, <2>6, <2>7, <2>8, <2>9 DEF Fields, S, C, E
  <1>9. ASSUME Fixed + 4 <= Len(data), ~(S > Len(data)), ~(Left(S) < 2), ~(Left(S) < 3 + Number(S)), at' = E + 2
        PROVE  at' = off[1]
    <2>1. S = s
      BY <1>4, <1>9
    <2> HIDE DEF S
    <2>2. s + 2 <= Len(data)
      BY <1>0, <1>2, <1>9, <2>1 DEF Left
    <2>3. Number(S) = ciphers /\ C = comp
      BY <1>5, <2>1, <2>2
    <2> HIDE DEF C
    <2>4. comp + 1 <= Len(data)
      BY <1>0, <1>2, <1>9, <2>1, <2>3 DEF Left
    <2> QED BY <1>6, <1>9, <2>3, <2>4
  <1> HIDE DEF S, C, E
  <1>10. \/ Stop("error") \/ Stop("panic")
         \/ /\ Len(data) >= Fixed + 4 /\ ~(S > Len(data)) /\ ~(Left(S) < 2) /\ ~(Left(S) < 3 + Number(S))
            /\ pc' = "ext" /\ at' = E + 2
    BY DEF Fields, S, C, E
  <1>11. CASE Stop("error")
    <2>1. pc' = "error"
      BY <1>11 DEF Stop
    <2>2. ~(whole /\ t <= Len(exts) /\ SuitesWhole)
      BY <1>8, <2>1
    <2> QED BY <1>0, <2>1, <2>2, PlaceAfter
  <1>12. CASE Stop("panic")
    BY <1>0, <1>12, PlaceAfter DEF Stop
  <1>13. CASE /\ Len(data) >= Fixed + 4 /\ ~(S > Len(data)) /\ ~(Left(S) < 2) /\ ~(Left(S) < 3 + Number(S))
              /\ pc' = "ext" /\ at' = E + 2
    <2>1. Fixed + 4 <= Len(data)
      BY <1>0, <1>13
    <2>2. pc' = "ext" /\ at' = off[1]
      BY <1>9, <1>13, <2>1
    <2> QED BY <1>0, <1>7, <2>2, PlaceAfter
  <1> QED BY <1>10, <1>11, <1>12, <1>13

\* A round of the loop over the extensions goes from one to the next, or to the
\* names of a list.
LEMMA ExtPlace ==
  ASSUME SniInv, NEW off, Layout(off), NEW t, FirstList(t), Place(off, t), NextExt
  PROVE  Place(off, t)'
  <1>0. /\ OffsetsInv /\ UNCHANGED <<exts, whole, data>> /\ exts' = exts /\ Len(data) \in Nat /\ pc = "ext"
        /\ ExtsInv(off) /\ Len(exts) \in Nat /\ t \in Nat /\ t <= Len(exts) + 1 /\ at \in Nat /\ at <= Len(data)
    <2>1. /\ OffsetsInv /\ UNCHANGED <<exts, whole, data>> /\ Len(data) \in Nat /\ pc = "ext" /\ ExtsInv(off)
      BY Bytewise DEF SniInv, NextExt, Layout
    <2>2. Len(exts) \in Nat
      BY <2>1 DEF ExtsInv
    <2>3. t \in 1 .. Len(exts) + 1
      BY DEF FirstList
    <2> QED BY <2>1, <2>2, <2>3 DEF OffsetsInv
  <1>1. PICK i \in 1 .. t : at = off[i]
    BY <1>0 DEF Place
  <1>2. i \in Nat /\ 1 <= i /\ i <= t
    BY <1>0
  <1>3. CASE ~(i <= Len(exts))
    <2>1. i = Len(exts) + 1 /\ ~(t <= Len(exts))
      BY <1>0, <1>2, <1>3
    <2>2. Len(data) <= at
      BY <1>0, <1>1, <2>1 DEF ExtsInv
    <2>3. Left(at) < 4
      BY <1>0, <2>2 DEF Left
    <2>4. pc' = "error"
      BY <2>3 DEF NextExt, Stop
    <2> QED BY <1>0, <2>1, <2>4, PlaceAfter
  <1>4. CASE i <= Len(exts)
    <2>0. i \in 1 .. Len(exts)
      BY <1>0, <1>2, <1>4
    <2>1. PICK x, m : x = exts[i] /\ m = Len(ExtBytes(x))
      OBVIOUS
    <2>2. /\ ExtShape(ExtBytes(x), x) /\ m \in Nat /\ 4 <= m /\ off[i + 1] = at + m
          /\ at + 4 <= Len(data) => Number(at) = x.type /\ Number(at + 2) = m - 4
          /\ x.type = 0 => 6 <= m
          /\ x.type = 0 /\ at + 6 <= Len(data) => Number(at + 4) = m - 6
          /\ whole => at + m <= Len(data)
      <3>1. Readable(x, off[i], m, off[i + 1])
        BY <1>0, <2>0, <2>1, ExtRead
      <3> QED BY <1>1, <3>1 DEF Readable
    <2>3. CASE Left(at) < 4
      <3>1. ~whole
        BY <1>0, <2>2, <2>3 DEF Left
      <3>2. pc' = "error"
        BY <2>3 DEF NextExt, Stop
      <3> QED BY <1>0, <3>1, <3>2, PlaceAfter
    <2>4. CASE ~(Left(at) < 4)
      <3>1. at + 4 <= Len(data)
        BY <1>0, <2>4 DEF Left
      <3>2. Number(at) = x.type /\ Number(at + 2) = m - 4
        BY <2>2, <3>1
      <3>3. ExtFits(m - 4) <=> at + m <= Len(data)
        BY <1>0, <2>2 DEF ExtFits, Left
      <3>4. AfterExt(m - 4) = off[i + 1]
        <4>1. \A a, l \in Nat : a + 4 + (l - 4) = a + l
          OBVIOUS
        <4> QED BY <1>0, <2>2, <4>1 DEF AfterExt
      <3>5. CASE ~ExtFits(m - 4)
        <4>1. ~whole
          BY <2>2, <3>3, <3>5
        <4>2. pc' = "error"
          BY <2>4, <3>2, <3>5 DEF NextExt, Stop
        <4> QED BY <1>0, <4>1, <4>2, PlaceAfter
      <3>6. CASE ExtFits(m - 4) /\ x.type # 0
        <4>1. pc' = "ext" /\ at' = off[i + 1]
          BY <2>4, <3>2, <3>4, <3>6 DEF NextExt
        <4>2. i # t
          BY <1>4, <2>1, <2>2, <3>6 DEF ExtShape, FirstList
        <4>3. i + 1 \in 1 .. t
          BY <1>0, <1>2, <4>2
        <4> QED BY <1>0, <4>1, <4>3, PlaceAfter
      <3>7. CASE ExtFits(m - 4) /\ x.type = 0
        <4>1. 6 <= m /\ at + m <= Len(data) /\ at + 6 <= Len(data) /\ ~(m - 4 < 2)
          BY <1>0, <2>2, <3>3, <3>7
        <4>2. Number(at + 4) = m - 6
          BY <2>2, <3>7, <4>1
        <4>3. pc' = "name" /\ at' = at + 6 /\ next' = off[i + 1] /\ names' = m - 6
          BY <2>4, <3>2, <3>4, <3>7, <4>1, <4>2 DEF NextExt
        <4>4. i < t => names' = 0
          <5>1. i < t => i \in 1 .. t - 1
            BY <1>0, <1>2
          <5>2. i < t => x.names = <<>>
            BY <2>1, <5>1 DEF FirstList
          <5>3. x.names = <<>> => m = 6
            BY <2>1, <2>2, <3>7 DEF ExtShape
          <5>4. m = 6 => m - 6 = 0
            OBVIOUS
          <5> QED BY <4>3, <5>2, <5>3, <5>4
        <4>5. ASSUME i = t PROVE \E k \in 1 .. Len(exts[t].names) : AtName(off[t], exts[t].names, k)'
          <5>1. exts[t].names # <<>> /\ x = exts[t]
            BY <1>4, <2>1, <4>5 DEF FirstList
          <5>2. x.names \in Seq(Names) /\ Len(x.names) <= m - 6
            BY <2>1, <2>2, <3>7 DEF ExtShape
          <5>3. 1 \in 1 .. Len(x.names) /\ Len(x.names) \in Nat
            BY <5>1, <5>2, FewPlaces
          <5>4. at' = off[t] + 6 + 0 /\ names' + 1 > Len(x.names)
            <6>1. \A a, b, c \in Nat : 6 <= b /\ c <= b - 6 => a + 6 = a + 6 + 0 /\ b - 6 + 1 > c
              OBVIOUS
            <6>2. at = off[t]
              BY <1>1, <4>5
            <6>3. at + 6 = at + 6 + 0 /\ m - 6 + 1 > Len(x.names)
              BY <1>0, <2>2, <4>1, <5>2, <5>3, <6>1
            <6> QED BY <4>3, <6>2, <6>3
          <5>5. AtName(off[t], exts[t].names, 1)'
            BY <1>0, <5>1, <5>4 DEF AtName
          <5> QED BY <5>1, <5>3, <5>5
        <4>6. InNames(off, t, i)'
          BY <1>0, <1>4, <2>1, <3>7, <4>3, <4>4, <4>5 DEF InNames
        <4> QED BY <1>0, <4>3, <4>6, PlaceAfter
      <3> QED BY <3>5, <3>6, <3>7
    <2> QED BY <2>3, <2>4
  <1> QED BY <1>3, <1>4

\* A round of the loop over the names takes the first host name of the first list
\* with names, and of an empty list there is none.
LEMMA NamePlace ==
  ASSUME SniInv, NEW off, Layout(off), NEW t, FirstList(t), HasHost(t), Place(off, t), NextName
  PROVE  Place(off, t)'
  <1>0. /\ OffsetsInv /\ UNCHANGED <<exts, whole, data>> /\ exts' = exts /\ data \in Seq(Bytes) /\ Len(data) \in Nat
        /\ pc = "name" /\ ExtsInv(off) /\ Len(exts) \in Nat /\ t \in Nat /\ names \in Nat
    <2>1. /\ OffsetsInv /\ UNCHANGED <<exts, whole, data>> /\ Len(data) \in Nat /\ pc = "name" /\ ExtsInv(off)
      BY Bytewise DEF SniInv, NextName, Layout
    <2>2. Len(exts) \in Nat
      BY <2>1 DEF ExtsInv
    <2>3. t \in 1 .. Len(exts) + 1
      BY DEF FirstList
    <2> QED BY <2>1, <2>2, <2>3 DEF OffsetsInv
  <1>1. PICK i \in 1 .. t : InNames(off, t, i)
    BY <1>0 DEF Place
  <1>2. i \in Nat /\ 1 <= i /\ i <= t /\ i <= Len(exts) /\ next = off[i + 1]
    BY <1>0, <1>1 DEF InNames
  <1>3. CASE i < t
    <2>1. names = 0
      BY <1>1, <1>3 DEF InNames
    <2>2. pc' = "ext" /\ at' = off[i + 1]
      BY <1>2, <2>1 DEF NextName
    <2>3. i + 1 \in 1 .. t
      BY <1>0, <1>2, <1>3
    <2> QED BY <1>0, <2>2, <2>3, PlaceAfter
  <1>4. CASE i = t
    <2>0. t <= Len(exts) /\ t \in 1 .. Len(exts)
      BY <1>0, <1>2, <1>4
    <2>1. PICK x, m, o, ns : x = exts[t] /\ m = Len(ExtBytes(x)) /\ o = off[t] /\ ns = x.names
      OBVIOUS
    <2>2. /\ ExtShape(ExtBytes(x), x) /\ o \in Nat /\ m \in Nat
          /\ whole => o + m <= Len(data)
          /\ ns # <<>> => Holds(o + 6, NameBytes(ns[1]))
          /\ Len(ns) = 2 => Holds(o + 6 + Len(NameBytes(ns[1])), NameBytes(ns[2]))
      <3>1. Readable(x, o, m, off[t + 1])
        BY <1>0, <2>0, <2>1, ExtRead
      <3> QED BY <2>1, <3>1 DEF Readable
    <2>3. PICK k \in 1 .. Len(ns) : AtName(o, ns, k)
      BY <1>1, <1>4, <2>1 DEF InNames
    <2>4. ns \in Seq(Names) /\ Len(ns) \in Nat /\ Len(ns) <= 2 /\ ns # <<>>
      <3>1. ns \in Seq(Names) /\ Len(ns) \in 0 .. 2
        BY <2>1, <2>2 DEF ExtShape
      <3>2. ns # <<>>
        BY <2>0, <2>1 DEF FirstList
      <3>3. \A j \in 0 .. 2 : j \in Nat /\ j <= 2
        OBVIOUS
      <3> QED BY <3>1, <3>2, <3>3, Zenon
    <2>5. (k = 1 \/ (k = 2 /\ Len(ns) = 2)) /\ names # 0
      <3>1. names + k > Len(ns)
        BY <2>3 DEF AtName
      <3>2. \A a, b \in Nat : \A j \in 1 .. a :
              a <= 2 /\ b + j > a => (j = 1 \/ (j = 2 /\ a = 2)) /\ b # 0
        OBVIOUS
      <3> QED BY <1>0, <2>3, <2>4, <3>1, <3>2, Zenon
    <2>6. PICK n \in Names : n = ns[k]
      BY <2>3, <2>4, FewPlaces
    <2>7. PICK l \in Nat : l = Len(n.bytes)
      <3>1. n.bytes \in Seq(Bytes)
        BY <2>6, NameBody
      <3> QED BY <3>1
    <2>8. Len(NameBytes(n)) = 3 + l
      BY <2>6, <2>7, NameShape
    <2>9. Holds(at, NameBytes(n)) /\ at \in Nat /\ (whole => at + 3 + l <= Len(data))
      <3>1. CASE k = 1
        <4>1. at = o + 6 + 0
          BY <2>3, <3>1 DEF AtName
        <4>2. at = o + 6 /\ at \in Nat
          BY <2>2, <4>1
        <4>3. Placed(ExtBytes(x), 6, NameBytes(n))
          BY <2>1, <2>2, <2>4, <2>6, <3>1 DEF ExtShape
        <4>4. 6 + (3 + l) <= m
          BY <2>1, <2>8, <4>3 DEF Placed
        <4>5. \A a, b, c, d \in Nat : 6 + (3 + b) <= c /\ a + c <= d => a + 6 + 3 + b <= d
          OBVIOUS
        <4>6. whole => at + 3 + l <= Len(data)
          BY <1>0, <2>2, <4>2, <4>4, <4>5
        <4> QED BY <2>2, <2>4, <2>6, <3>1, <4>2, <4>6
      <3>2. CASE k = 2 /\ Len(ns) = 2
        <4>1. PICK p : p = Len(NameBytes(ns[1])) /\ p \in Nat
          <5>1. ns[1] \in Names
            BY <2>4, <3>2, FewPlaces
          <5>2. NameBytes(ns[1]) \in Seq(Bytes)
            BY <5>1, NameShape
          <5> QED BY <5>2
        <4>2. at = o + 6 + p /\ at \in Nat
          <5>1. at = o + 6 + p
            BY <2>3, <3>2, <4>1 DEF AtName
          <5> QED BY <2>2, <4>1, <5>1
        <4>3. Placed(ExtBytes(x), 6 + p, NameBytes(n))
          BY <2>1, <2>2, <2>6, <3>2, <4>1 DEF ExtShape
        <4>4. 6 + p + (3 + l) <= m
          BY <2>1, <2>8, <4>3 DEF Placed
        <4>5. \A a, b, c, d, e \in Nat : 6 + e + (3 + b) <= c /\ a + c <= d => a + 6 + e + 3 + b <= d
          OBVIOUS
        <4>6. whole => at + 3 + l <= Len(data)
          BY <1>0, <2>2, <4>1, <4>2, <4>4, <4>5
        <4> QED BY <2>2, <2>6, <3>2, <4>1, <4>2, <4>6
      <3> QED BY <2>5, <3>1, <3>2
    <2>10. /\ at + 3 <= Len(data) => Byte(at) = n.type /\ Number(at + 1) = l
           /\ at + 3 + l <= Len(data) => SubSeq(data, at + 4, at + 3 + l) = n.bytes
      BY <1>0, <2>7, <2>9, ReadName
    <2>11. CASE Left(at) < 3
      <3>1. ~whole
        BY <1>0, <2>9, <2>11 DEF Left
      <3>2. pc' = "error"
        BY <2>5, <2>11 DEF NextName, Stop
      <3> QED BY <1>0, <3>1, <3>2, PlaceAfter
    <2>12. CASE ~(Left(at) < 3)
      <3>1. at + 3 <= Len(data)
        BY <1>0, <2>9, <2>12 DEF Left
      <3>2. Byte(at) = n.type /\ Number(at + 1) = l
        BY <2>10, <3>1
      <3>3. CASE Left(at + 3) < l
        <4>1. ~whole
          BY <1>0, <2>9, <3>3 DEF Left
        <4>2. pc' = "error"
          BY <2>5, <2>12, <3>2, <3>3 DEF NextName, Stop
        <4> QED BY <1>0, <4>1, <4>2, PlaceAfter
      <3>4. CASE ~(Left(at + 3) < l) /\ n.type = 0
        <4>1. at + 3 + l <= Len(data)
          BY <1>0, <2>9, <3>4 DEF Left
        <4>2. IsHostName(at)
          BY <3>2, <3>4 DEF IsHostName
        <4>3. pc' = "name_found" /\ result' = SubSeq(data, at + 4, at + 3 + l)
          BY <2>5, <2>12, <3>2, <3>4, <4>2 DEF NextName
        <4>4. result' = n.bytes
          BY <2>10, <4>1, <4>3
        <4>5. FirstHost(ns, k)
          <5>1. k = 2 => ns[1].type # 0
            BY <2>3 DEF AtName
          <5>2. \A j \in 1 .. k - 1 : k = 2 /\ j = 1
            BY <2>5
          <5> QED BY <2>6, <3>4, <5>1, <5>2 DEF FirstHost
        <4> QED BY <1>0, <2>0, <2>1, <2>3, <2>6, <4>3, <4>4, <4>5, PlaceAfter
      <3>5. CASE ~(Left(at + 3) < l) /\ n.type # 0
        <4>1. ~IsHostName(at)
          BY <3>2, <3>5 DEF IsHostName
        <4>2. at' = at + 3 + l /\ names' = names - 1 /\ pc' = "name" /\ next' = next
          BY <1>0, <2>5, <2>12, <3>2, <3>5, <4>1 DEF NextName
        <4>3. PICK h \in 1 .. Len(ns) : ns[h].type = 0
          BY <2>0, <2>1 DEF HasHost
        <4>4. h # k
          BY <2>6, <3>5, <4>3
        <4>5. k = 1 /\ Len(ns) = 2
          <5>1. k = 2 => ns[1].type # 0
            BY <2>3 DEF AtName
          <5>2. h = 1 \/ (h = 2 /\ Len(ns) = 2)
            <6>1. \A a \in Nat : \A j \in 1 .. a : a <= 2 => (j = 1 \/ (j = 2 /\ a = 2))
              OBVIOUS
            <6> QED BY <2>4, <4>3, <6>1, Zenon
          <5>3. k # 2
            BY <4>3, <4>4, <5>1, <5>2, Zenon
          <5> QED BY <2>5, <4>4, <5>2, <5>3, Zenon
        <4>6. at = o + 6 + 0 /\ names + 1 > Len(ns)
          BY <2>3, <4>5 DEF AtName
        <4>7. at' = o + 6 + Len(NameBytes(ns[1]))
          <5>1. \A a, b \in Nat : a + 6 + 0 + 3 + b = a + 6 + (3 + b)
            OBVIOUS
          <5> QED BY <2>2, <2>6, <2>8, <4>2, <4>5, <4>6, <5>1
        <4>8. names' + 2 > Len(ns)
          BY <1>0, <2>4, <4>2, <4>6
        <4>9. ns[1].type # 0
          BY <2>6, <3>5, <4>5
        <4>10. AtName(off[t], exts[t].names, 2)'
          BY <1>0, <2>1, <4>7, <4>8, <4>9 DEF AtName
        <4>11. 2 \in 1 .. Len(exts[t].names)
          BY <2>1, <4>5
        <4>12. InNames(off, t, t)'
          <5>1. exts[t].type = 0 /\ next' = off[t + 1]
            BY <1>1, <1>2, <1>4, <4>2 DEF InNames
          <5>2. ~(t < t)
            BY <1>0
          <5> QED BY <1>0, <2>0, <4>10, <4>11, <5>1, <5>2 DEF InNames
        <4> QED BY <1>0, <1>1, <1>4, <4>2, <4>12, PlaceAfter
      <3> QED BY <3>3, <3>4, <3>5
    <2> QED BY <2>11, <2>12
  <1>5. i < t \/ i = t
    BY <1>0, <1>2
  <1> QED BY <1>3, <1>4, <1>5

\* The layout depends on the hello alone, which no step changes.
LEMMA HoldsStays ==
  ASSUME NEW o, NEW b, Holds(o, b), data' = data
  PROVE  Holds(o, b)'
  BY DEF Holds

LEMMA ExtsStay ==
  ASSUME NEW off, ExtsInv(off), exts' = exts, whole' = whole, data' = data
  PROVE  ExtsInv(off)'
  <1>1. /\ data' \in Seq(Bytes) /\ exts' \in Seq(Exts)
        /\ off \in [1 .. Len(exts') + 1 -> Nat]
    BY DEF ExtsInv
  <1>2. /\ Len(data') <= off[Len(exts') + 1]
        /\ whole' => Len(data') = off[Len(exts') + 1]
    BY DEF ExtsInv
  <1>3. ASSUME NEW i \in 1 .. Len(exts')
        PROVE  /\ off[i + 1] = off[i] + Len(ExtBytes(exts'[i]))
               /\ off[i + 1] <= off[Len(exts') + 1]
               /\ Holds(off[i], ExtBytes(exts[i]))'
    <2>1. i \in 1 .. Len(exts)
      BY <1>3
    <2>2. /\ off[i + 1] = off[i] + Len(ExtBytes(exts[i]))
          /\ off[i + 1] <= off[Len(exts) + 1]
          /\ Holds(off[i], ExtBytes(exts[i]))
      BY <2>1 DEF ExtsInv
    <2> DEFINE b == ExtBytes(exts[i])
    <2>3. \A j \in 1 .. Len(b) : off[i] + j <= Len(data) => data[off[i] + j] = b[j]
      BY <2>2 DEF Holds
    <2>4. b' = b
      OBVIOUS
    <2> HIDE DEF b
    <2>5. Holds(off[i], b)'
      BY <2>3, <2>4 DEF Holds
    <2>6. Holds(off[i], ExtBytes(exts[i]))'
      BY <2>5 DEF b
    <2> QED BY <2>2, <2>6
  <1> QED BY <1>1, <1>2, <1>3 DEF ExtsInv

LEMMA FieldsStay ==
  ASSUME NEW off, NEW sid, NEW ciphers, FieldsInv(off, sid, ciphers),
         whole' = whole, data' = data
  PROVE  FieldsInv(off, sid, ciphers)'
  <1>1. /\ Holds(Fixed, <<sid>>)' /\ Holds(Fixed + 1 + sid, <<0, ciphers>>)'
        /\ Holds(HelloComp(sid, ciphers), <<1, 0>>)'
    BY HoldsStays DEF FieldsInv
  <1>2. off[1] = HelloComp(sid, ciphers) + 4
    BY DEF FieldsInv
  <1>3. \A n : Number(n)' = Number(n)
    BY DEF Number
  <1>4. ASSUME whole'
        PROVE  /\ data'[1] = ClientHello
               /\ Number(HelloComp(sid, ciphers) + 2)' = Len(data') - off[1]
               /\ off[1] <= Len(data')
    BY <1>3, <1>4 DEF FieldsInv
  <1> QED BY <1>1, <1>2, <1>4 DEF FieldsInv

LEMMA LayoutStays ==
  ASSUME NEW off, Layout(off), UNCHANGED <<exts, whole, data>>
  PROVE  Layout(off)'
  <1>1. exts' = exts /\ whole' = whole /\ data' = data
    OBVIOUS
  <1>2. ExtsInv(off)'
    BY <1>1, ExtsStay DEF Layout
  <1>3. PICK sid \in Nat, ciphers \in CipherLens : FieldsInv(off, sid, ciphers)
    BY DEF Layout
  <1>4. FieldsInv(off, sid, ciphers)'
    BY <1>1, <1>3, FieldsStay
  <1> QED BY <1>2, <1>3, <1>4 DEF Layout

\* The parser stands at an extension or a name of the hello until it has passed the
\* first list with names, and finds the first host name of that list.
THEOREM ParserKeepsPlace == Spec => []PlaceInv
  <1>1. Init => SniInv /\ PlaceInv
    BY InitSni, InitPlace
  <1>2. SniInv /\ PlaceInv /\ [Next]_vars => PlaceInv'
    <2> SUFFICES ASSUME SniInv, PlaceInv, [Next]_vars PROVE PlaceInv'
      OBVIOUS
    <2>1. PICK off : Layout(off) /\ \A t : FirstList(t) /\ HasHost(t) => Place(off, t)
      BY DEF PlaceInv
    <2>2. UNCHANGED <<exts, whole, data>>
      BY DEF Next, Fields, NextExt, NextName, vars
    <2>3. Layout(off)'
      BY <2>1, <2>2, LayoutStays
    <2>4. ASSUME NEW t, FirstList(t)', HasHost(t)' PROVE Place(off, t)'
      <3>1. FirstList(t) /\ HasHost(t)
        BY <2>2, <2>4 DEF FirstList, HasHost
      <3>2. Place(off, t)
        BY <2>1, <3>1
      <3>3. CASE Next
        BY <2>1, <3>1, <3>2, <3>3, FieldsPlace, ExtPlace, NamePlace DEF Next
      <3>4. CASE UNCHANGED vars
        BY <3>2, <3>4 DEF vars, Place, InNames, AtName, FirstHost
      <3> QED BY <3>3, <3>4
    <2> QED BY <2>3, <2>4 DEF PlaceInv
  <1> QED BY <1>1, <1>2, ParserStaysInside, PTL DEF Spec

\* There is a first extension with names, or the end.
LEMMA FirstListExists ==
  ASSUME exts \in Seq(Exts)
  PROVE  \E t : FirstList(t)
  <1> DEFINE R == OpToRel(<, Nat)
             T == {t \in 1 .. Len(exts) + 1 : t <= Len(exts) => exts[t].names # <<>>}
  <1>1. Len(exts) \in Nat
    OBVIOUS
  <1>2. IsWellFoundedOn(R, Nat)
    BY NatLessThanWellFounded
  <1>3. \A y, x \in Nat : y < x => <<y, x>> \in R
    BY DEF OpToRel
  <1> HIDE DEF R
  <1>4. Len(exts) + 1 \in T /\ T \subseteq Nat
    BY <1>1
  <1>5. PICK t \in T : \A y \in T : ~(<<y, t>> \in R)
    <2> HIDE DEF T
    <2> QED BY <1>2, <1>4, WFMin
  <1>6. ASSUME NEW i \in 1 .. t - 1 PROVE exts[i].names = <<>>
    <2>1. i \in Nat /\ t \in Nat /\ i < t /\ i \in 1 .. Len(exts) + 1
      BY <1>1, <1>4, <1>5
    <2>2. i \notin T
      BY <1>3, <1>5, <2>1
    <2> QED BY <2>1, <2>2
  <1> QED BY <1>5, <1>6 DEF FirstList

\* The names of the first list with names are the first of all.
LEMMA NamesFirst ==
  ASSUME exts \in Seq(Exts), NEW t, FirstList(t), t <= Len(exts), NEW k \in 1 .. Len(exts[t].names)
  PROVE  k \in DOMAIN AllNames /\ \A j \in 1 .. k : AllNames[j] = exts[t].names[j]
  <1> DEFINE q == [i \in DOMAIN exts |-> exts[i].names]
  <1>1. /\ Len(exts) \in Nat /\ DOMAIN exts = 1 .. Len(exts) /\ t \in 1 .. Len(exts) /\ t \in Nat
        /\ \A i \in 1 .. Len(exts) : exts[i].names \in Seq(Names)
    <2>1. Len(exts) \in Nat /\ DOMAIN exts = 1 .. Len(exts) /\ t \in 1 .. Len(exts) + 1
      BY DEF FirstList
    <2>2. t \in 1 .. Len(exts) /\ t \in Nat
      BY <2>1
    <2>3. ASSUME NEW i \in 1 .. Len(exts) PROVE exts[i].names \in Seq(Names)
      <3>1. exts[i] \in Exts
        OBVIOUS
      <3>2. ExtShape(ExtBytes(exts[i]), exts[i])
        BY <3>1, ExtIs
      <3> QED BY <3>2 DEF ExtShape
    <2> QED BY <2>1, <2>2, <2>3
  <1>2. q \in Seq(Seq(Names)) /\ Len(q) = Len(exts) /\ \A i \in 1 .. Len(exts) : q[i] = exts[i].names
    BY <1>1
  <1>3. AllNames = FlattenSeq(q)
    BY DEF AllNames
  <1> HIDE DEF q
  <1>4. PICK F : F = AllNames
    OBVIOUS
  <1>5. /\ F \in Seq(Names)
        /\ \E off \in [1 .. Len(q) + 1 -> Nat] :
             /\ off[1] = 0 /\ off[Len(q) + 1] = Len(F)
             /\ \A i \in 1 .. Len(q) :
                  off[i + 1] = off[i] + Len(q[i]) /\ Placed(F, off[i], q[i])
    BY <1>2, <1>3, <1>4, Offsets
  <1>6. PICK off \in [1 .. Len(q) + 1 -> Nat] :
          /\ off[1] = 0
          /\ \A i \in 1 .. Len(q) : off[i + 1] = off[i] + Len(q[i]) /\ Placed(F, off[i], q[i])
    BY <1>5
  <1> DEFINE Fine == {j \in Nat : j + 1 <= t => off[j + 1] = 0}
  <1>7. 0 \in Fine
    BY <1>6
  <1>8. ASSUME NEW j \in Fine PROVE j + 1 \in Fine
    <2>1. j \in Nat /\ (j + 1 <= t => off[j + 1] = 0)
      OBVIOUS
    <2>2. ASSUME j + 1 + 1 <= t PROVE off[j + 1 + 1] = 0
      <3>1. j + 1 <= t /\ j + 1 \in 1 .. t - 1 /\ j + 1 \in 1 .. Len(exts)
        BY <1>1, <2>1, <2>2
      <3>2. off[j + 1] = 0
        BY <2>1, <3>1
      <3>3. PICK i \in 1 .. Len(exts) : i = j + 1 /\ i \in 1 .. t - 1
        BY <3>1
      <3>4. exts[i].names = <<>>
        BY <3>3 DEF FirstList
      <3>5. q[i] = <<>>
        BY <1>2, <3>4
      <3>6. off[i + 1] = off[i] + Len(<<>>)
        BY <1>2, <1>6, <3>5
      <3> QED BY <3>2, <3>3, <3>6
    <2> QED BY <2>1, <2>2
  <1>9. Fine = Nat
    <2>1. Fine \in SUBSET Nat
      OBVIOUS
    <2> HIDE DEF Fine
    <2> QED BY <1>7, <1>8, <2>1, SetInduction
  <1>10. off[t] = 0
    <2>1. t - 1 \in Fine /\ t - 1 + 1 = t /\ t - 1 \in Nat
      <3>1. t - 1 \in Nat /\ t - 1 + 1 = t
        BY <1>1
      <3> QED BY <1>9, <3>1
    <2>2. t <= t
      BY <1>1
    <2> QED BY <2>1, <2>2
  <1>11. Placed(F, 0, exts[t].names)
    BY <1>1, <1>2, <1>6, <1>10
  <1>12. Len(F) \in Nat /\ DOMAIN F = 1 .. Len(F) /\ Len(exts[t].names) \in Nat
    BY <1>1, <1>5
  <1>13. Len(exts[t].names) <= Len(F) /\ \A j \in 1 .. Len(exts[t].names) : F[j] = exts[t].names[j]
    <2>1. 0 + Len(exts[t].names) = Len(exts[t].names) /\ \A j \in 1 .. Len(exts[t].names) : 0 + j = j
      BY <1>12
    <2> QED BY <1>11, <2>1 DEF Placed
  <1>14. k \in 1 .. Len(F) /\ \A j \in 1 .. k : j \in 1 .. Len(exts[t].names)
    BY <1>12, <1>13
  <1> QED BY <1>4, <1>12, <1>13, <1>14

\* What peek_sni finds is the first host name of the hello, unless a list without
\* one comes before it, for every number of extensions and wherever the record ends;
\* and in a hello that is whole, a host name that is first in the first list is
\* found.
THEOREM NameFoundIsFirst == SuitesWhole => (Spec => []FoundIsFirst)
  <1> SUFFICES ASSUME SuitesWhole PROVE Spec => []FoundIsFirst
    OBVIOUS
  <1>1. PlaceInv => FoundIsFirst
    <2> SUFFICES ASSUME PlaceInv PROVE FoundIsFirst
      OBVIOUS
    <2>1. PICK off : Layout(off) /\ \A t : FirstList(t) /\ HasHost(t) => Place(off, t)
      BY DEF PlaceInv
    <2>2. exts \in Seq(Exts) /\ Len(exts) \in Nat /\ DOMAIN exts = 1 .. Len(exts)
      BY <2>1 DEF Layout, ExtsInv
    <2>3. ASSUME NEW i \in 1 .. Len(exts)
          PROVE  /\ exts[i].names \in Seq(Names) /\ exts[i].type \in {0, 1}
                 /\ exts[i].names # <<>> => exts[i].type = 0
      <3>1. exts[i] \in Exts
        BY <2>2
      <3>2. ExtShape(ExtBytes(exts[i]), exts[i])
        BY <3>1, ExtIs
      <3> QED BY <3>2 DEF ExtShape
    <2>4. ASSUME pc = "name_found",
                 ~(\E i \in DOMAIN exts : HasOtherNames(exts[i]) /\ exts[i].names # <<>>)
          PROVE  \E k \in DOMAIN AllNames : FirstHostName(k) /\ result = AllNames[k].bytes
      <3>1. PICK t : FirstList(t)
        BY <2>2, FirstListExists
      <3>2. HasHost(t)
        <4> SUFFICES ASSUME t <= Len(exts) PROVE \E k \in 1 .. Len(exts[t].names) : exts[t].names[k].type = 0
          BY DEF HasHost
        <4>1. t \in 1 .. Len(exts) /\ exts[t].names # <<>>
          BY <2>2, <3>1 DEF FirstList
        <4>2. ~HasOtherNames(exts[t]) /\ exts[t].type = 0 /\ exts[t].names \in Seq(Names)
          BY <2>2, <2>3, <2>4, <4>1
        <4>3. DOMAIN exts[t].names = 1 .. Len(exts[t].names)
          BY <4>2
        <4> QED BY <4>2, <4>3 DEF HasOtherNames
      <3>3. Place(off, t)
        BY <2>1, <3>1, <3>2
      <3>4. PICK k \in 1 .. Len(exts[t].names) :
              FirstHost(exts[t].names, k) /\ result = exts[t].names[k].bytes /\ t <= Len(exts)
        BY <2>4, <3>3 DEF Place
      <3>5. k \in DOMAIN AllNames /\ \A j \in 1 .. k : AllNames[j] = exts[t].names[j]
        BY <2>2, <3>1, <3>4, NamesFirst
      <3>6. k \in 1 .. k /\ \A j \in 1 .. k - 1 : j \in 1 .. k
        BY <3>4
      <3>7. FirstHostName(k) /\ result = AllNames[k].bytes
        BY <3>4, <3>5, <3>6 DEF FirstHostName, FirstHost
      <3> QED BY <3>5, <3>7
    <2>5. ASSUME whole, NEW i \in DOMAIN exts, exts[i].type = 0, exts[i].names # <<>>,
                 exts[i].names[1].type = 0, \A j \in 1 .. i - 1 : exts[j].type # 0
          PROVE  pc # "error"
      <3>1. i \in 1 .. Len(exts) /\ i \in Nat /\ i <= Len(exts) /\ i \in 1 .. Len(exts) + 1
        BY <2>2
      <3>2. FirstList(i)
        <4>1. ASSUME NEW j \in 1 .. i - 1 PROVE exts[j].names = <<>>
          <5>1. j \in 1 .. Len(exts)
            BY <2>2, <3>1
          <5> QED BY <2>3, <2>5, <5>1
        <4> QED BY <2>5, <3>1, <4>1 DEF FirstList
      <3>3. HasHost(i)
        <4>1. exts[i].names \in Seq(Names)
          BY <2>3, <3>1
        <4>2. 1 \in 1 .. Len(exts[i].names)
          BY <2>5, <4>1, FewPlaces
        <4> QED BY <2>5, <4>2 DEF HasHost
      <3>4. Place(off, i)
        BY <2>1, <3>2, <3>3
      <3> QED BY <2>5, <3>1, <3>4 DEF Place
    <2> QED BY <2>4, <2>5 DEF FoundIsFirst
  <1> QED BY <1>1, ParserKeepsPlace, PTL
==============================================================================
