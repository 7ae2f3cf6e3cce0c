----------------------- MODULE ChannelSessionsProofs -----------------------
(***************************************************************************)
(* Proofs about ChannelSessions for any number of sessions, any            *)
(* conns_per_host and any modulus of the cursor.  TableInv is shown to be  *)
(* inductive: types; IdsInv, by which ids of one source never repeat; and  *)
(* Balance, by which the entries of each id are as many as the sessions    *)
(* with it that run.  A session of one listener may erase the entry of     *)
(* another's that has the same id, so that only the count, and not the     *)
(* entry, is kept per id.                                                  *)
(***************************************************************************)
EXTENDS ChannelSessions, FiniteSetTheorems, TLAPS

-----------------------------------------------------------------------------
(* The least element of a set of numbers.                                   *)

\* A set of numbers that is not empty has a least element.
LEMMA LeastExists ==
  ASSUME NEW S, S \subseteq Nat, S # {}
  PROVE  \E i \in S : \A j \in S : i <= j
  <1>1. IsWellFoundedOn(OpToRel(<, Nat), Nat)
    BY NatLessThanWellFounded
  <1>2. PICK i \in S : \A j \in S : ~(<<j, i>> \in OpToRel(<, Nat))
    BY <1>1, WFMin
  <1>3. ASSUME NEW j \in S PROVE i <= j
    <2>1. i \in Nat /\ j \in Nat
      BY <1>3
    <2>2. ~(j < i)
      BY <1>2, <2>1 DEF OpToRel
    <2> QED BY <2>1, <2>2
  <1> QED BY <1>3

\* First, by which store, lookup and erase choose a slot, is the least index.
LEMMA FirstIsLeast ==
  ASSUME NEW S, S \subseteq Nat \ {0}
  PROVE  /\ S = {} => First(S) = 0
         /\ S # {} => First(S) \in S /\ First(S) # 0 /\ \A j \in S : First(S) <= j
  <1>1. CASE S = {}
    BY <1>1 DEF First
  <1>2. CASE S # {}
    <2>1. \E i \in S : \A j \in S : i <= j
      BY <1>2, LeastExists
    <2>2. First(S) = CHOOSE i \in S : \A j \in S : i <= j
      BY <1>2 DEF First
    <2> QED BY <1>2, <2>1, <2>2
  <1> QED BY <1>1, <1>2

-----------------------------------------------------------------------------
(* The entries of a list that are in a set of sessions.                     *)

\* The places of a list whose entry is in C, and how many they are.
At(q, C) == {i \in 1..Len(q) : q[i] \in C}
Count(q, C) == Cardinality(At(q, C))

\* A list has finitely many entries in a set.
LEMMA AtFinite ==
  ASSUME NEW T, NEW q \in Seq(T), NEW C
  PROVE  IsFiniteSet(At(q, C)) /\ Count(q, C) \in Nat
  <1>1. IsFiniteSet(1..Len(q))
    BY FS_Interval
  <1>2. At(q, C) \in SUBSET (1..Len(q))
    BY DEF At
  <1>3. IsFiniteSet(At(q, C))
    BY <1>1, <1>2, FS_Subset
  <1> QED BY <1>3, FS_CardinalityType DEF Count

\* A count that is not 0 has an entry behind it.
LEMMA NoneAt ==
  ASSUME NEW T, NEW q \in Seq(T), NEW C, Count(q, C) # 0
  PROVE  \E i \in 1..Len(q) : q[i] \in C
  <1>1. At(q, C) # {}
    BY FS_EmptySet DEF Count
  <1> QED BY <1>1 DEF At

\* What push of a session does to the count.
LEMMA CountAppend ==
  ASSUME NEW T, NEW q \in Seq(T), NEW x \in T, NEW C
  PROVE  Count(Append(q, x), C) = IF x \in C THEN Count(q, C) + 1 ELSE Count(q, C)
  <1>1. /\ Len(Append(q, x)) = Len(q) + 1 /\ Len(q) \in Nat
        /\ \A i \in 1..Len(q) : Append(q, x)[i] = q[i]
        /\ Append(q, x)[Len(q) + 1] = x
    OBVIOUS
  <1>2. IsFiniteSet(At(q, C))
    BY AtFinite
  <1>3. Len(q) + 1 \notin At(q, C)
    BY <1>1 DEF At
  <1>4. CASE x \in C
    <2>1. At(Append(q, x), C) = At(q, C) \cup {Len(q) + 1}
      BY <1>1, <1>4 DEF At
    <2> QED BY <1>2, <1>3, <1>4, <2>1, FS_AddElement DEF Count
  <1>5. CASE x \notin C
    <2>1. At(Append(q, x), C) = At(q, C)
      BY <1>1, <1>5 DEF At
    <2> QED BY <1>5, <2>1 DEF Count
  <1> QED BY <1>4, <1>5

\* What an assignment to one slot does to the count.
LEMMA CountExcept ==
  ASSUME NEW T, NEW q \in Seq(T), NEW x \in T, NEW C, NEW k \in 1..Len(q),
         NEW r \in Seq(T), Len(r) = Len(q), r[k] = x,
         \A i \in 1..Len(q) : i # k => r[i] = q[i]
  PROVE  Count(r, C) = Count(q, C) - (IF q[k] \in C THEN 1 ELSE 0) + (IF x \in C THEN 1 ELSE 0)
  <1>2. IsFiniteSet(At(q, C)) /\ Cardinality(At(q, C)) \in Nat
    BY AtFinite DEF Count
  <1> DEFINE rest == At(q, C) \ {k}
  <1>3. /\ IsFiniteSet(rest) /\ k \notin rest
        /\ Cardinality(rest) = Count(q, C) - (IF q[k] \in C THEN 1 ELSE 0)
    <2>1. k \in At(q, C) <=> q[k] \in C
      BY DEF At
    <2> QED BY <1>2, <2>1, FS_RemoveElement DEF Count
  <1>4. Cardinality(rest) \in Nat
    BY <1>3, FS_CardinalityType
  <1>5. CASE x \in C
    <2>1. At(r, C) = rest \cup {k}
      BY <1>5 DEF At
    <2>2. Count(r, C) = Cardinality(rest) + 1
      <3> HIDE DEF rest
      <3> QED BY <1>3, <2>1, FS_AddElement DEF Count
    <2> HIDE DEF rest
    <2> QED BY <1>3, <1>5, <2>2
  <1>6. CASE x \notin C
    <2>1. At(r, C) = rest
      BY <1>6 DEF At
    <2>2. Count(r, C) = Cardinality(rest)
      BY <2>1 DEF Count
    <2> HIDE DEF rest
    <2> QED BY <1>3, <1>4, <1>6, <2>2
  <1> QED BY <1>5, <1>6

\* A one-to-one correspondence keeps the number of elements.
LEMMA SameNumber ==
  ASSUME NEW S, NEW T, IsFiniteSet(S), NEW f \in [S -> T],
         \A a, b \in S : a # b => f[a] # f[b],
         \A t \in T : \E a \in S : f[a] = t
  PROVE  IsFiniteSet(T) /\ Cardinality(T) = Cardinality(S)
  <1>1. f \in Bijection(S, T)
    BY DEF Bijection, Injection, Surjection, IsInjective
  <1>2. ExistsBijection(S, T)
    BY <1>1 DEF ExistsBijection
  <1> QED BY <1>2, FS_Bijection

\* The count of two lists is the sum of theirs.
LEMMA CountConcat ==
  ASSUME NEW T, NEW p \in Seq(T), NEW q \in Seq(T), NEW C
  PROVE  Count(p \o q, C) = Count(p, C) + Count(q, C)
  <1>1. /\ Len(p \o q) = Len(p) + Len(q) /\ Len(p) \in Nat /\ Len(q) \in Nat
        /\ \A i \in 1..Len(p) : (p \o q)[i] = p[i]
        /\ \A i \in 1..Len(q) : (p \o q)[Len(p) + i] = q[i]
    OBVIOUS
  <1> DEFINE f == [i \in At(q, C) |-> Len(p) + i]
             B == {Len(p) + i : i \in At(q, C)}
  <1>2. IsFiniteSet(At(p, C)) /\ IsFiniteSet(At(q, C)) /\ At(q, C) \subseteq 1..Len(q)
    BY AtFinite DEF At
  <1>3. IsFiniteSet(B) /\ Cardinality(B) = Cardinality(At(q, C))
    <2>1. f \in [At(q, C) -> B]
      OBVIOUS
    <2>2. \A a, b \in At(q, C) : a # b => f[a] # f[b]
      BY <1>1, <1>2
    <2>3. \A t \in B : \E a \in At(q, C) : f[a] = t
      OBVIOUS
    <2> HIDE DEF f, B
    <2> QED BY <1>2, <2>1, <2>2, <2>3, SameNumber
  <1>4. At(p \o q, C) = At(p, C) \cup B
    <2>1. ASSUME NEW i \in At(p \o q, C) PROVE i \in At(p, C) \cup B
      <3>1. i \in 1..(Len(p) + Len(q)) /\ (p \o q)[i] \in C
        BY <1>1, <2>1 DEF At
      <3>2. CASE i <= Len(p)
        BY <1>1, <3>1, <3>2 DEF At
      <3>3. CASE i > Len(p)
        <4>1. i - Len(p) \in 1..Len(q) /\ Len(p) + (i - Len(p)) = i
          BY <1>1, <3>1, <3>3
        <4>2. i - Len(p) \in At(q, C)
          BY <1>1, <3>1, <4>1 DEF At
        <4> QED BY <4>1, <4>2
      <3> QED BY <1>1, <3>1, <3>2, <3>3
    <2>2. ASSUME NEW i \in At(p, C) PROVE i \in At(p \o q, C)
      BY <1>1, <2>2 DEF At
    <2>3. ASSUME NEW i \in At(q, C) PROVE Len(p) + i \in At(p \o q, C)
      BY <1>1, <2>3 DEF At
    <2> QED BY <2>1, <2>2, <2>3
  <1>5. At(p, C) \cap B = {}
    BY <1>1, <1>2 DEF At
  <1> HIDE DEF B, f
  <1>6. Cardinality(At(p, C) \cap B) = 0
    BY <1>5, FS_EmptySet
  <1>7. Cardinality(At(p, C) \cup B) = Cardinality(At(p, C)) + Cardinality(B) - 0
    BY <1>2, <1>3, <1>6, FS_Union
  <1>8. Cardinality(At(p, C)) \in Nat /\ Cardinality(B) \in Nat
    BY <1>2, <1>3, FS_CardinalityType
  <1> QED BY <1>3, <1>4, <1>7, <1>8 DEF Count

\* What is left of a list when its k-th element is removed.
LEMMA RemoveAt ==
  ASSUME NEW T, NEW q \in Seq(T), NEW k \in 1..Len(q)
  PROVE  LET r == SubSeq(q, 1, k - 1) \o SubSeq(q, k + 1, Len(q))
         IN /\ r \in Seq(T) /\ Len(r) = Len(q) - 1
            /\ \A i \in 1..(k - 1) : r[i] = q[i]
            /\ \A i \in k..(Len(q) - 1) : r[i] = q[i + 1]
  <1> DEFINE a == SubSeq(q, 1, k - 1)
             b == SubSeq(q, k + 1, Len(q))
             r == a \o b
  <1>1. /\ a \in Seq(T) /\ Len(a) = k - 1 /\ \A i \in 1..(k - 1) : a[i] = q[i]
        /\ b \in Seq(T) /\ Len(b) = Len(q) - k /\ \A i \in 1..(Len(q) - k) : b[i] = q[k + i]
        /\ Len(q) \in Nat
    OBVIOUS
  <1> HIDE DEF a, b
  <1>2. /\ r \in Seq(T) /\ Len(r) = Len(a) + Len(b)
        /\ \A i \in 1..Len(a) : r[i] = a[i]
        /\ \A i \in 1..Len(b) : r[Len(a) + i] = b[i]
    <2>1. a \in Seq(T) /\ b \in Seq(T)
      BY <1>1
    <2> QED BY ONLY <2>1
  <1> HIDE DEF r
  <1>3. r \in Seq(T) /\ Len(r) = Len(q) - 1
    BY <1>1, <1>2
  <1>4. \A i \in 1..(k - 1) : r[i] = q[i]
    BY <1>1, <1>2
  <1>5. ASSUME NEW i \in k..(Len(q) - 1) PROVE r[i] = q[i + 1]
    <2>1. i - (k - 1) \in 1..(Len(q) - k)
      BY <1>1
    <2>2. Len(a) + (i - (k - 1)) = i /\ k + (i - (k - 1)) = i + 1
      BY <1>1
    <2>3. r[Len(a) + (i - (k - 1))] = b[i - (k - 1)]
      BY <1>1, <1>2, <2>1
    <2>4. b[i - (k - 1)] = q[k + (i - (k - 1))]
      BY <1>1, <2>1
    <2> QED BY <2>2, <2>3, <2>4
  <1> QED BY <1>3, <1>4, <1>5 DEF r, a, b

\* r is q without its k-th element.
Without(q, k, r) ==
    /\ Len(r) = Len(q) - 1
    /\ \A i \in 1..(k - 1) : r[i] = q[i]
    /\ \A i \in k..(Len(q) - 1) : r[i] = q[i + 1]

\* What the removal of one element does to the count.
LEMMA CountRemove ==
  ASSUME NEW T, NEW q \in Seq(T), NEW k \in 1..Len(q), NEW C,
         NEW r \in Seq(T), Without(q, k, r)
  PROVE  Count(r, C) = Count(q, C) - (IF q[k] \in C THEN 1 ELSE 0)
  <1>1. /\ Len(q) \in Nat /\ Len(r) = Len(q) - 1
        /\ \A i \in 1..(k - 1) : r[i] = q[i]
        /\ \A i \in k..(Len(q) - 1) : r[i] = q[i + 1]
    BY DEF Without
  <1> DEFINE f == [i \in At(r, C) |-> IF i < k THEN i ELSE i + 1]
             S == At(q, C) \ {k}
  <1>2. IsFiniteSet(At(r, C)) /\ IsFiniteSet(At(q, C)) /\ Cardinality(At(q, C)) \in Nat
    BY AtFinite DEF Count
  <1>3. Cardinality(S) = Count(q, C) - (IF q[k] \in C THEN 1 ELSE 0)
    <2>1. k \in At(q, C) <=> q[k] \in C
      BY DEF At
    <2>2. Cardinality(At(q, C) \ {k}) =
            IF k \in At(q, C) THEN Cardinality(At(q, C)) - 1 ELSE Cardinality(At(q, C))
      BY <1>2, FS_RemoveElement
    <2> QED BY <1>2, <2>1, <2>2 DEF Count
  <1>4. f \in [At(r, C) -> S]
    BY <1>1 DEF At
  <1>5. \A x, y \in At(r, C) : x # y => f[x] # f[y]
    BY <1>1 DEF At
  <1>6. ASSUME NEW t \in S PROVE \E x \in At(r, C) : f[x] = t
    <2>1. t \in 1..Len(q) /\ t # k /\ q[t] \in C
      BY <1>6 DEF At
    <2>2. CASE t < k
      <3>1. t \in At(r, C)
        BY <1>1, <2>1, <2>2 DEF At
      <3> QED BY <2>2, <3>1
    <2>3. CASE t > k
      <3>1. t - 1 \in k..(Len(q) - 1) /\ t - 1 \in 1..Len(r) /\ (t - 1) + 1 = t /\ ~(t - 1 < k)
        BY <1>1, <2>1, <2>3
      <3>2. t - 1 \in At(r, C)
        BY <1>1, <2>1, <3>1 DEF At
      <3> QED BY <3>1, <3>2
    <2> QED BY <2>1, <2>2, <2>3
  <1> HIDE DEF f, S
  <1>7. Cardinality(S) = Cardinality(At(r, C))
    BY <1>2, <1>4, <1>5, <1>6, SameNumber
  <1> QED BY <1>3, <1>7 DEF Count

-----------------------------------------------------------------------------
(* Types, ids and entries.                                                  *)

\* Sessions are numbered as they start; the ids of a source are below its seed
\* and differ; entries are sessions that started.
IdsInv ==
    /\ \E c \in 0..MaxSessions : Started = 1..c
    /\ \A n \in Started : id[n] < seed[src[n]]
    /\ \A n, m \in Started : n # m /\ src[n] = src[m] => id[n] # id[m]
    /\ \A i \in 1..Len(slots) : slots[i] # 0 => slots[i] \in Started
    /\ \A i \in 1..Len(retired) : retired[i] \in Started

\* The sessions with id v, and their entries against those that run.
Class(v) == {m \in Started : id[m] = v}
Balance ==
    \A v \in Nat :
        Count(slots, Class(v)) + Count(retired, Class(v)) = Cardinality(Class(v) \cap Running)

\* There are finitely many sessions, and 0 (None) is none of them.
LEMMA SessionsFinite ==
  /\ IsFiniteSet(Sessions) /\ Sessions \subseteq Nat \ {0} /\ 0 \notin Sessions
  /\ \A S \in SUBSET Sessions : IsFiniteSet(S) /\ Cardinality(S) \in Nat
  <1>1. MaxSessions \in Nat
    BY PoolAssumption
  <1>2. IsFiniteSet(Sessions)
    BY <1>1, FS_Interval DEF Sessions
  <1>3. ASSUME NEW S \in SUBSET Sessions PROVE IsFiniteSet(S) /\ Cardinality(S) \in Nat
    BY <1>2, <1>3, FS_Subset, FS_CardinalityType
  <1>4. Sessions \subseteq Nat \ {0} /\ 0 \notin Sessions
    BY <1>1 DEF Sessions
  <1> QED BY <1>2, <1>3, <1>4

\* get_channel_session_size is a number.
LEMMA SizeType ==
  ASSUME TypeOK
  PROVE  get_channel_session_size \in Nat
  <1>1. IsFiniteSet(1..Len(slots))
    BY FS_Interval DEF TypeOK
  <1>2. {i \in 1..Len(slots) : slots[i] # 0} \in SUBSET (1..Len(slots))
    OBVIOUS
  <1>3. IsFiniteSet({i \in 1..Len(slots) : slots[i] # 0})
    BY <1>1, <1>2, FS_Subset
  <1> QED BY <1>3, FS_CardinalityType DEF get_channel_session_size

\* What Start does.
LEMMA StartEffect ==
  ASSUME TypeOK, IdsInv, NEW s \in Sources, NEW k \in Nat, Start(s, k)
  PROVE  \E c \in 0..MaxSessions :
           /\ Started = 1..c /\ c + k <= MaxSessions /\ Started' = 1..(c + k)
           /\ src' = [n \in Sessions |-> IF n \in (c + 1)..(c + k) THEN s ELSE src[n]]
           /\ conn' = [n \in Sessions |-> IF n \in (c + 1)..(c + k) THEN "connecting" ELSE conn[n]]
           /\ id' = [n \in Sessions |-> IF n \in (c + 1)..(c + k) THEN seed[s] + n - (c + 1) ELSE id[n]]
           /\ seed' = [seed EXCEPT ![s] = @ + k]
  <1>1. PICK c \in 0..MaxSessions : Started = 1..c
    BY DEF IdsInv
  <1>2. Cardinality(Started) = c /\ MaxSessions \in Nat /\ c \in Nat
    <2>1. MaxSessions \in Nat /\ c \in Nat
      BY PoolAssumption
    <2> QED BY <1>1, <2>1, FS_Interval
  <1>3. c + 1 + k - 1 = c + k
    BY <1>2
  <1>4. /\ c + k <= MaxSessions
        /\ src' = [n \in Sessions |-> IF n \in (c + 1)..(c + k) THEN s ELSE src[n]]
        /\ conn' = [n \in Sessions |-> IF n \in (c + 1)..(c + k) THEN "connecting" ELSE conn[n]]
        /\ id' = [n \in Sessions |-> IF n \in (c + 1)..(c + k) THEN seed[s] + n - (c + 1) ELSE id[n]]
        /\ seed' = [seed EXCEPT ![s] = @ + k]
    BY <1>2, <1>3 DEF Start
  <1>5. Started' = 1..(c + k)
    <2>1. \A n \in Sessions : conn[n] # "none" <=> n \in 1..c
      BY <1>1 DEF Started
    <2>2. \A n \in Sessions : conn'[n] # "none" <=> (n \in (c + 1)..(c + k) \/ n \in 1..c)
      BY <1>4, <2>1
    <2>3. \A n \in Sessions : conn'[n] # "none" <=> n \in 1..(c + k)
      BY <1>2, <2>2 DEF Sessions
    <2>4. 1..(c + k) \subseteq Sessions
      BY <1>2, <1>4 DEF Sessions
    <2> QED BY <2>3, <2>4 DEF Started
  <1> QED BY <1>1, <1>4, <1>5

\* New sessions keep the types of what describes a session.
LEMMA StartTypes ==
  ASSUME TypeOK, IdsInv, NEW s \in Sources, NEW k \in Nat, Start(s, k)
  PROVE  /\ seed' \in [Sources' -> Nat] /\ id' \in [Sessions -> Nat]
         /\ src' \in [Sessions -> Sources'] /\ conn' \in [Sessions -> ConnStates]
         /\ Sources' = Sources
  <1>1. PICK c \in 0..MaxSessions :
           /\ Started = 1..c /\ c + k <= MaxSessions /\ Started' = 1..(c + k)
           /\ src' = [n \in Sessions |-> IF n \in (c + 1)..(c + k) THEN s ELSE src[n]]
           /\ conn' = [n \in Sessions |-> IF n \in (c + 1)..(c + k) THEN "connecting" ELSE conn[n]]
           /\ id' = [n \in Sessions |-> IF n \in (c + 1)..(c + k) THEN seed[s] + n - (c + 1) ELSE id[n]]
           /\ seed' = [seed EXCEPT ![s] = @ + k]
    BY StartEffect
  <1>2. Sources' = Sources
    BY <1>1 DEF Sources
  <1>3. seed \in [Sources -> Nat] /\ id \in [Sessions -> Nat] /\ c \in Nat
    BY PoolAssumption DEF TypeOK
  <1>4. seed' \in [Sources -> Nat]
    BY <1>1, <1>3
  <1>5. id' \in [Sessions -> Nat]
    BY <1>1, <1>3, PoolAssumption DEF Sessions
  <1>6. src' \in [Sessions -> Sources] /\ conn' \in [Sessions -> ConnStates]
    BY <1>1 DEF TypeOK, ConnStates
  <1> QED BY <1>2, <1>4, <1>5, <1>6

-----------------------------------------------------------------------------
(* What the operations do to the table.                                     *)

\* A function on 1..n is a sequence of length n.
LEMMA Listing ==
  ASSUME NEW T, NEW n \in Nat, NEW f \in [1..n -> T]
  PROVE  f \in Seq(T) /\ Len(f) = n
  OBVIOUS

\* One slot changes.
Becomes(i, n) ==
    /\ slots' \in Seq(Sessions \cup {0}) /\ Len(slots') = Len(slots) /\ slots'[i] = n
    /\ \A j \in 1..Len(slots) : j # i => slots'[j] = slots[j]

\* One entry of the retired goes.
Leaves(j) ==
    retired' \in Seq(Sessions) /\ Without(retired, j, retired')

\* An assignment to one slot, written out.
LEMMA SlotChanges ==
  ASSUME TypeOK, NEW i \in 1..Len(slots), NEW n \in Sessions \cup {0},
         slots' = [slots EXCEPT ![i] = n]
  PROVE  Becomes(i, n)
  BY DEF TypeOK, Becomes

\* store_mux_session appends a slot or fills a free one.
LEMMA StoreEffect ==
  ASSUME TypeOK, NEW n \in Sessions, store_mux_session(n)
  PROVE  \/ slots' = Append(slots, n)
         \/ \E i \in 1..Len(slots) : slots[i] = 0 /\ Becomes(i, n)
  <1> DEFINE S == {i \in 1..Len(slots) : slots[i] = 0}
  <1>1. S \subseteq Nat \ {0}
    BY DEF TypeOK
  <1>2. slots' = IF First(S) = 0 THEN Append(slots, n) ELSE [slots EXCEPT ![First(S)] = n]
    BY DEF store_mux_session
  <1>3. First(S) # 0 => First(S) \in S
    <2> HIDE DEF S
    <2> QED BY <1>1, FirstIsLeast
  <1>4. CASE First(S) # 0
    <2>1. First(S) \in 1..Len(slots) /\ slots[First(S)] = 0
      BY <1>3, <1>4
    <2>2. Becomes(First(S), n)
      BY <1>2, <1>4, <2>1, SlotChanges
    <2> QED BY <2>1, <2>2
  <1> QED BY <1>2, <1>4

\* erase_mux_session clears one slot with the id, or removes one retired entry with
\* it, or does nothing when the table has none.
LEMMA EraseEffect ==
  ASSUME TypeOK, NEW v, erase_mux_session(v)
  PROVE  \/ \E i \in 1..Len(slots) :
              /\ slots[i] # 0 /\ id[slots[i]] = v
              /\ Becomes(i, 0) /\ retired' = retired
         \/ \E j \in 1..Len(retired) :
              /\ id[retired[j]] = v /\ slots' = slots /\ Leaves(j)
         \/ /\ \A i \in 1..Len(slots) : slots[i] # 0 => id[slots[i]] # v
            /\ \A j \in 1..Len(retired) : id[retired[j]] # v
            /\ slots' = slots /\ retired' = retired
  <1> DEFINE S == {i \in 1..Len(slots) : slots[i] # 0 /\ id[slots[i]] = v}
             R == {k \in 1..Len(retired) : id[retired[k]] = v}
             i == First(S)
             j == First(R)
  <1>1. S \subseteq Nat \ {0} /\ R \subseteq Nat \ {0}
    BY DEF TypeOK
  <1>2. /\ slots' = IF i # 0 THEN [slots EXCEPT ![i] = 0] ELSE slots
        /\ retired' = IF i = 0 /\ j # 0
                      THEN SubSeq(retired, 1, j - 1) \o SubSeq(retired, j + 1, Len(retired))
                      ELSE retired
    BY DEF erase_mux_session, Lookup
  <1>3. (i # 0 => i \in S) /\ (i = 0 => S = {}) /\ (j # 0 => j \in R) /\ (j = 0 => R = {})
    <2> HIDE DEF S, R
    <2> QED BY <1>1, FirstIsLeast
  <1> HIDE DEF i, j
  <1>4. CASE i # 0
    <2>1. i \in 1..Len(slots) /\ slots[i] # 0 /\ id[slots[i]] = v
      BY <1>3, <1>4
    <2>2. Becomes(i, 0)
      BY <1>2, <1>4, <2>1, SlotChanges
    <2> QED BY <1>2, <1>4, <2>1, <2>2
  <1>5. CASE i = 0 /\ j # 0
    <2>1. j \in 1..Len(retired) /\ id[retired[j]] = v
      BY <1>3, <1>5
    <2>2. Leaves(j)
      <3> DEFINE r == SubSeq(retired, 1, j - 1) \o SubSeq(retired, j + 1, Len(retired))
      <3>1. /\ r \in Seq(Sessions) /\ Len(r) = Len(retired) - 1
            /\ \A a \in 1..(j - 1) : r[a] = retired[a]
            /\ \A a \in j..(Len(retired) - 1) : r[a] = retired[a + 1]
        BY <2>1, RemoveAt DEF TypeOK
      <3>2. retired' = r
        BY <1>2, <1>5
      <3> HIDE DEF r
      <3> QED BY <3>1, <3>2 DEF Leaves, Without
    <2> QED BY <1>2, <1>5, <2>1, <2>2
  <1>6. CASE i = 0 /\ j = 0
    BY <1>2, <1>3, <1>6
  <1> QED BY <1>4, <1>5, <1>6

\* A remainder is below its modulus.
LEMMA ModRange ==
  ASSUME NEW a \in Nat, NEW n \in Nat \ {0}
  PROVE  a % n \in 0..(n - 1)
  OBVIOUS

\* The loop of create_stream looks at slots of the table only.
LEMMA ProbeRange ==
  ASSUME TypeOK, NEW k \in 0..(Len(slots) - 1)
  PROVE  Probe(k) \in 1..Len(slots)
  <1>1. Len(slots) \in Nat \ {0} /\ cursor \in Nat /\ CursorMod \in Nat \ {0} /\ cursor + k \in Nat
    BY PoolAssumption DEF TypeOK
  <1>2. (cursor + k) % CursorMod \in Nat
    BY <1>1, ModRange
  <1>3. ((cursor + k) % CursorMod) % Len(slots) \in 0..(Len(slots) - 1)
    BY <1>1, <1>2, ModRange
  <1> QED BY <1>1, <1>3 DEF Probe

\* create_stream takes a session, or has found every slot it looked at empty.
LEMMA CreateEffect ==
  ASSUME TypeOK, create_stream
  PROVE  /\ cursor' \in 0..(CursorMod - 1) /\ calls' \in 0..MaxCalls
         /\ last' \in Sessions \cup {0}
         /\ last' = 0 => \A k \in 0..(Len(slots) - 1) : slots[Probe(k)] = 0
  <1> DEFINE hits == {k \in 0..(Len(slots) - 1) : slots[Probe(k)] # 0}
  <1>1. /\ Len(slots) \in Nat /\ cursor \in Nat /\ CursorMod \in Nat \ {0} /\ calls \in Nat
        /\ MaxCalls \in Nat /\ slots \in Seq(Sessions \cup {0})
    BY PoolAssumption DEF TypeOK
  <1>2. calls' \in 0..MaxCalls
    BY <1>1 DEF create_stream
  <1>3. CASE hits = {}
    <2>1. last' = 0 /\ cursor' = (cursor + Len(slots)) % CursorMod
      BY <1>3 DEF create_stream
    <2>2. cursor' \in 0..(CursorMod - 1)
      BY <1>1, <2>1, ModRange
    <2> QED BY <1>2, <1>3, <2>1, <2>2
  <1>4. CASE hits # {}
    <2> DEFINE k == CHOOSE k \in hits : \A j \in hits : k <= j
    <2>1. last' = slots[Probe(k)] /\ cursor' = (cursor + k + 1) % CursorMod
      BY <1>4 DEF create_stream
    <2>2. hits \subseteq Nat
      BY <1>1
    <2>3. k \in hits
      <3> HIDE DEF hits
      <3>1. \E a \in hits : \A j \in hits : a <= j
        BY <1>4, <2>2, LeastExists
      <3> QED BY <3>1
    <2> HIDE DEF k
    <2>4. k \in 0..(Len(slots) - 1) /\ slots[Probe(k)] # 0
      BY <2>3
    <2>5. Probe(k) \in 1..Len(slots)
      BY <2>4, ProbeRange
    <2>6. last' \in Sessions /\ last' # 0
      BY <1>1, <2>1, <2>4, <2>5
    <2>7. cursor + k + 1 \in Nat
      BY <1>1, <2>4
    <2>8. cursor' \in 0..(CursorMod - 1)
      BY <1>1, <2>1, <2>7, ModRange
    <2> QED BY <1>2, <2>6, <2>8
  <1> QED BY <1>3, <1>4

\* The sessions that leave the slots, listed, are those retired.
LEMMA RoutineEffect ==
  ASSUME TypeOK, routine_all_sessions
  PROVE  \E out \in SUBSET {i \in 1..Len(slots) : slots[i] # 0} :
         \E leaving \in InSlotOrder(out) :
           /\ IsFiniteSet(out) /\ Cardinality(out) \in Nat
           /\ slots' = [i \in 1..Len(slots) |-> IF i \in out THEN 0 ELSE slots[i]]
           /\ slots' \in Seq(Sessions \cup {0}) /\ Len(slots') = Len(slots)
           /\ [i \in 1..Cardinality(out) |-> slots[leaving[i]]] \in Seq(Sessions)
           /\ Len([i \in 1..Cardinality(out) |-> slots[leaving[i]]]) = Cardinality(out)
           /\ retired' = retired \o [i \in 1..Cardinality(out) |-> slots[leaving[i]]]
           /\ todo' \in Seq(Sessions)
  <1> DEFINE occupied == {i \in 1..Len(slots) : slots[i] # 0}
  <1>1. PICK out \in SUBSET occupied : \E leaving \in InSlotOrder(out), all \in InSlotOrder(occupied) :
          /\ ~IsClient => out = {}
          /\ slots' = [i \in 1..Len(slots) |-> IF i \in out THEN 0 ELSE slots[i]]
          /\ retired' = retired \o [i \in 1..Cardinality(out) |-> slots[leaving[i]]]
          /\ todo' = [i \in 1..Cardinality(occupied) |-> slots[all[i]]] \o retired
    BY DEF routine_all_sessions
  <1>2. PICK leaving \in InSlotOrder(out), all \in InSlotOrder(occupied) :
          /\ slots' = [i \in 1..Len(slots) |-> IF i \in out THEN 0 ELSE slots[i]]
          /\ retired' = retired \o [i \in 1..Cardinality(out) |-> slots[leaving[i]]]
          /\ todo' = [i \in 1..Cardinality(occupied) |-> slots[all[i]]] \o retired
    BY <1>1
  <1>3. /\ slots \in Seq(Sessions \cup {0}) /\ retired \in Seq(Sessions) /\ Len(slots) \in Nat
        /\ \A i \in occupied : slots[i] \in Sessions
    BY DEF TypeOK
  <1>4. IsFiniteSet(occupied)
    <2>1. IsFiniteSet(1..Len(slots)) /\ occupied \subseteq 1..Len(slots)
      BY <1>3, FS_Interval
    <2> QED BY <2>1, FS_Subset
  <1> HIDE DEF occupied
  <1>5. IsFiniteSet(out) /\ Cardinality(out) \in Nat /\ Cardinality(occupied) \in Nat
    BY <1>4, FS_Subset, FS_CardinalityType
  <1>6. ASSUME NEW S \in SUBSET occupied, NEW p \in InSlotOrder(S), Cardinality(S) \in Nat
        PROVE  /\ [i \in 1..Cardinality(S) |-> slots[p[i]]] \in Seq(Sessions)
               /\ Len([i \in 1..Cardinality(S) |-> slots[p[i]]]) = Cardinality(S)
    <2>1. \A i \in 1..Cardinality(S) : p[i] \in S
      BY DEF InSlotOrder
    <2>2. \A i \in 1..Cardinality(S) : slots[p[i]] \in Sessions
      BY <1>3, <2>1
    <2>3. [i \in 1..Cardinality(S) |-> slots[p[i]]] \in [1..Cardinality(S) -> Sessions]
      BY <2>2
    <2> HIDE DEF InSlotOrder
    <2> QED BY <1>6, <2>3, Listing
  <1>7. slots' \in Seq(Sessions \cup {0}) /\ Len(slots') = Len(slots)
    <2>1. slots' \in [1..Len(slots) -> Sessions \cup {0}]
      BY <1>2, <1>3
    <2> QED BY <1>3, <2>1, Listing
  <1>8. todo' \in Seq(Sessions)
    <2>1. [i \in 1..Cardinality(occupied) |-> slots[all[i]]] \in Seq(Sessions)
      BY <1>2, <1>5, <1>6
    <2> QED BY <1>2, <1>3, <2>1
  <1>9. /\ [i \in 1..Cardinality(out) |-> slots[leaving[i]]] \in Seq(Sessions)
        /\ Len([i \in 1..Cardinality(out) |-> slots[leaving[i]]]) = Cardinality(out)
    BY <1>2, <1>5, <1>6
  <1> QED BY <1>2, <1>5, <1>7, <1>8, <1>9 DEF occupied

-----------------------------------------------------------------------------
(* Types.                                                                   *)

\* The variables that most operations leave alone.
LEMMA TypesKept ==
  ASSUME TypeOK, UNCHANGED <<cursor, seed, id, src, inHours, stuck, calls, last>>,
         slots' \in Seq(Sessions \cup {0}), retired' \in Seq(Sessions),
         conn' \in [Sessions -> ConnStates], todo' \in Seq(Sessions),
         rpc' \in {"connect", "routine", "send"}
  PROVE  TypeOK'
  BY DEF TypeOK, Sources

\* TypeOK is kept when sessions start.
LEMMA StartKeepsTypes ==
  ASSUME TypeOK, IdsInv, NEW s \in Sources, NEW k \in Nat, Start(s, k),
         UNCHANGED <<slots, retired, cursor, inHours, todo, stuck, calls, last>>,
         rpc' \in {"connect", "routine", "send"}
  PROVE  TypeOK'
  <1>1. /\ seed' \in [Sources' -> Nat] /\ id' \in [Sessions -> Nat]
        /\ src' \in [Sessions -> Sources'] /\ conn' \in [Sessions -> ConnStates]
    BY StartTypes
  <1> QED BY <1>1 DEF TypeOK

\* Every step of the channel keeps the types.
LEMMA NextTypes ==
  ASSUME TypeOK, IdsInv, [Next]_vars
  PROVE  TypeOK'
  <1>0. /\ slots \in Seq(Sessions \cup {0}) /\ retired \in Seq(Sessions)
        /\ conn \in [Sessions -> ConnStates] /\ todo \in Seq(Sessions)
        /\ rpc \in {"connect", "routine", "send"}
    BY DEF TypeOK
  <1>1. ASSUME NEW s \in Sources, Accept(s) PROVE TypeOK'
    <2>1. /\ Start(s, 1) /\ rpc' = rpc /\ 1 \in Nat
          /\ UNCHANGED <<slots, retired, cursor, inHours, todo, stuck, calls, last>>
      BY <1>1 DEF Accept
    <2> QED BY <1>0, <2>1, StartKeepsTypes
  <1>2. ASSUME NEW n \in Sessions, Connected(n) PROVE TypeOK'
    <2>1. conn' \in [Sessions -> ConnStates]
      BY <1>0, <1>2 DEF Connected, ConnStates
    <2>2. slots' \in Seq(Sessions \cup {0})
      <3>1. store_mux_session(n)
        BY <1>2 DEF Connected
      <3>2. CASE slots' = Append(slots, n)
        BY <1>0, <3>2
      <3>3. CASE \E i \in 1..Len(slots) : slots[i] = 0 /\ Becomes(i, n)
        BY <3>3 DEF Becomes
      <3> QED BY <3>1, <3>2, <3>3, StoreEffect
    <2> QED BY <1>0, <1>2, <2>1, <2>2, TypesKept DEF Connected
  <1>3. ASSUME NEW n \in Sessions, ConnectFails(n) PROVE TypeOK'
    <2>1. conn' \in [Sessions -> ConnStates]
      BY <1>0, <1>3 DEF ConnectFails, ConnStates
    <2> QED BY <1>0, <1>3, <2>1, TypesKept DEF ConnectFails
  <1>4. ASSUME NEW n \in Sessions, Ends(n) PROVE TypeOK'
    <2>1. conn' \in [Sessions -> ConnStates]
      BY <1>0, <1>4 DEF Ends, ConnStates
    <2>2. slots' \in Seq(Sessions \cup {0}) /\ retired' \in Seq(Sessions)
      <3>1. erase_mux_session(id[n])
        BY <1>4 DEF Ends
      <3>2. CASE \E i \in 1..Len(slots) : Becomes(i, 0) /\ retired' = retired
        BY <1>0, <3>2 DEF Becomes
      <3>3. CASE \E j \in 1..Len(retired) : slots' = slots /\ Leaves(j)
        BY <1>0, <3>3 DEF Leaves
      <3>4. CASE slots' = slots /\ retired' = retired
        BY <1>0, <3>4
      <3> QED BY <3>1, <3>2, <3>3, <3>4, EraseEffect
    <2> QED BY <1>0, <1>4, <2>1, <2>2, TypesKept DEF Ends
  <1>5. ASSUME NEW n \in Sessions, Sticks(n) PROVE TypeOK'
    BY <1>5 DEF Sticks, TypeOK, Sources
  <1>6. ASSUME create_stream PROVE TypeOK'
    <2>1. /\ cursor' \in 0..(CursorMod - 1) /\ calls' \in 0..MaxCalls
          /\ last' \in Sessions \cup {0}
      BY <1>6, CreateEffect
    <2>2. UNCHANGED <<slots, retired, seed, id, src, conn, inHours, rpc, todo, stuck>>
      BY <1>6 DEF create_stream
    <2> QED BY <2>1, <2>2 DEF TypeOK, Sources
  <1>7. ASSUME RoutineConnect PROVE TypeOK'
    <2>1. /\ rpc' \in {"connect", "routine", "send"}
          /\ UNCHANGED <<slots, retired, cursor, inHours, todo, stuck, calls, last>>
      BY <1>7 DEF RoutineConnect
    <2>2. CASE UNCHANGED <<conn, id, seed, src>>
      BY <1>0, <2>1, <2>2, TypesKept
    <2>3. CASE /\ get_channel_session_size < Conns
               /\ \E s \in Sources : Start(s, Conns - get_channel_session_size)
      <3>1. Conns - get_channel_session_size \in Nat
        BY <2>3, SizeType, PoolAssumption
      <3> QED BY <2>1, <2>3, <3>1, StartKeepsTypes
    <2> QED BY <1>7, <2>2, <2>3 DEF RoutineConnect
  <1>8. ASSUME RoutineSkip PROVE TypeOK'
    BY <1>0, <1>8, TypesKept DEF RoutineSkip
  <1>9. ASSUME routine_all_sessions PROVE TypeOK'
    <2>1. slots' \in Seq(Sessions \cup {0}) /\ retired' \in Seq(Sessions) /\ todo' \in Seq(Sessions)
      <3>1. PICK out, leaving :
              /\ slots' \in Seq(Sessions \cup {0}) /\ todo' \in Seq(Sessions)
              /\ [i \in 1..Cardinality(out) |-> slots[leaving[i]]] \in Seq(Sessions)
              /\ retired' = retired \o [i \in 1..Cardinality(out) |-> slots[leaving[i]]]
        <4>1. \E out \in SUBSET {i \in 1..Len(slots) : slots[i] # 0} :
              \E leaving \in InSlotOrder(out) :
                /\ slots' \in Seq(Sessions \cup {0}) /\ todo' \in Seq(Sessions)
                /\ [i \in 1..Cardinality(out) |-> slots[leaving[i]]] \in Seq(Sessions)
                /\ retired' = retired \o [i \in 1..Cardinality(out) |-> slots[leaving[i]]]
          BY <1>9, RoutineEffect, ZenonT(30)
        <4> QED BY <4>1, Zenon
      <3> DEFINE more == [i \in 1..Cardinality(out) |-> slots[leaving[i]]]
      <3>2. more \in Seq(Sessions) /\ retired' = retired \o more
        BY <3>1
      <3> HIDE DEF more
      <3>3. retired' \in Seq(Sessions)
        BY <1>0, <3>2
      <3> QED BY <3>1, <3>3
    <2> QED BY <1>0, <1>9, <2>1, TypesKept DEF routine_all_sessions
  <1>10. ASSUME RoutineSend PROVE TypeOK'
    <2>1. todo' \in Seq(Sessions) /\ rpc' \in {"connect", "routine", "send"}
      <3>1. CASE todo = <<>>
        BY <1>0, <1>10, <3>1 DEF RoutineSend
      <3>2. CASE todo # <<>>
        <4>1. todo' = Tail(todo) /\ rpc' = rpc
          BY <1>10, <3>2 DEF RoutineSend
        <4>2. Tail(todo) \in Seq(Sessions)
          BY <1>0, <3>2
        <4> QED BY <1>0, <4>1, <4>2
      <3> QED BY <3>1, <3>2
    <2> QED BY <1>0, <1>10, <2>1, TypesKept DEF RoutineSend
  <1>11. ASSUME HourChanges PROVE TypeOK'
    BY <1>11 DEF HourChanges, TypeOK, Sources
  <1>12. ASSUME UNCHANGED vars PROVE TypeOK'
    <2>1. UNCHANGED <<slots, retired, cursor, seed, id, src, conn, inHours, rpc, todo, stuck, calls, last>>
      BY <1>12 DEF vars
    <2> QED BY <2>1 DEF TypeOK, Sources
  <1> QED BY <1>1, <1>2, <1>3, <1>4, <1>5, <1>6, <1>7, <1>8, <1>9, <1>10, <1>11, <1>12
         DEF Next, RoutineStep

-----------------------------------------------------------------------------
(* Ids.                                                                     *)

\* Every entry of the table is a session that started.
EntriesStarted ==
    /\ \A i \in 1..Len(slots) : slots[i] # 0 => slots[i] \in Started
    /\ \A i \in 1..Len(retired) : retired[i] \in Started

\* Steps that start no session keep IdsInv if entries are sessions that started.
LEMMA IdsKept ==
  ASSUME IdsInv, Started' = Started, UNCHANGED <<id, src, seed>>, EntriesStarted'
  PROVE  IdsInv'
  <1>1. \E c \in 0..MaxSessions : Started' = 1..c
    BY DEF IdsInv
  <1>2. \A n \in Started' : id'[n] < seed'[src'[n]]
    BY DEF IdsInv
  <1>3. \A n, m \in Started' : n # m /\ src'[n] = src'[m] => id'[n] # id'[m]
    BY DEF IdsInv
  <1> QED BY <1>1, <1>2, <1>3 DEF IdsInv, EntriesStarted

\* The ids a source gives out are those from its seed on.
LEMMA StartIds ==
  ASSUME TypeOK, IdsInv, NEW s \in Sources, NEW k \in Nat, Start(s, k),
         UNCHANGED <<slots, retired>>
  PROVE  IdsInv'
  <1>1. PICK c \in 0..MaxSessions :
           /\ Started = 1..c /\ c + k <= MaxSessions /\ Started' = 1..(c + k)
           /\ src' = [n \in Sessions |-> IF n \in (c + 1)..(c + k) THEN s ELSE src[n]]
           /\ conn' = [n \in Sessions |-> IF n \in (c + 1)..(c + k) THEN "connecting" ELSE conn[n]]
           /\ id' = [n \in Sessions |-> IF n \in (c + 1)..(c + k) THEN seed[s] + n - (c + 1) ELSE id[n]]
           /\ seed' = [seed EXCEPT ![s] = @ + k]
    BY StartEffect
  <1>2. /\ MaxSessions \in Nat /\ c \in Nat /\ seed \in [Sources -> Nat]
        /\ id \in [Sessions -> Nat] /\ src \in [Sessions -> Sources]
    BY PoolAssumption DEF TypeOK
  <1>3. Started' \subseteq Sessions /\ Started \subseteq Sessions
    BY <1>1, <1>2 DEF Sessions
  <1>4. \A n \in Started' : n \in Nat /\ (n \in Started \/ n \in (c + 1)..(c + k))
    BY <1>1, <1>2
  <1>5. \A n \in Started : n \notin (c + 1)..(c + k)
    BY <1>1, <1>2
  <1>6. \A n \in Started : src'[n] = src[n] /\ id'[n] = id[n] /\ src[n] \in Sources /\ id[n] \in Nat
    BY <1>1, <1>2, <1>3, <1>5
  <1>7. \A n \in (c + 1)..(c + k) : src'[n] = s /\ id'[n] = seed[s] + n - (c + 1)
    <2>1. (c + 1)..(c + k) \subseteq Sessions
      BY <1>1, <1>2 DEF Sessions
    <2> QED BY <1>1, <2>1
  <1>8. /\ seed'[s] = seed[s] + k /\ seed[s] \in Nat
        /\ \A t \in Sources : t # s => seed'[t] = seed[t]
    BY <1>1, <1>2
  <1>9. \A t \in Sources : seed[t] \in Nat /\ seed'[t] >= seed[t]
    BY <1>2, <1>8
  <1>10. ASSUME NEW n \in Started' PROVE id'[n] < seed'[src'[n]]
    <2>1. CASE n \in Started
      <3>1. id[n] < seed[src[n]] /\ seed[src[n]] \in Nat /\ seed'[src[n]] >= seed[src[n]]
        BY <1>6, <1>9, <2>1 DEF IdsInv
      <3>2. seed'[src[n]] \in Nat
        BY <1>2, <1>6, <1>8, <2>1
      <3> QED BY <1>6, <2>1, <3>1, <3>2
    <2>2. CASE n \in (c + 1)..(c + k)
      <3>1. seed[s] + n - (c + 1) < seed[s] + k
        BY <1>2, <1>8, <2>2
      <3> QED BY <1>7, <1>8, <2>2, <3>1
    <2> QED BY <1>4, <2>1, <2>2
  <1>11. ASSUME NEW n \in Started', NEW m \in Started', n # m, src'[n] = src'[m]
         PROVE  id'[n] # id'[m]
    <2>1. CASE n \in Started /\ m \in Started
      BY <1>6, <1>11, <2>1 DEF IdsInv
    <2>2. ASSUME NEW a \in Started, NEW b \in (c + 1)..(c + k), src'[a] = src'[b]
          PROVE  id'[a] # id'[b]
      <3>1. id[a] < seed[s] /\ id[a] \in Nat
        BY <1>6, <1>7, <2>2 DEF IdsInv
      <3>2. seed[s] + b - (c + 1) >= seed[s]
        BY <1>2, <1>8, <2>2
      <3> QED BY <1>2, <1>6, <1>7, <1>8, <2>2, <3>1, <3>2
    <2>3. CASE n \in (c + 1)..(c + k) /\ m \in (c + 1)..(c + k)
      <3>1. seed[s] + n - (c + 1) # seed[s] + m - (c + 1)
        BY <1>2, <1>8, <1>11, <2>3
      <3> QED BY <1>7, <2>3, <3>1
    <2> QED BY <1>4, <1>11, <2>1, <2>2, <2>3
  <1>12. \A n \in Started : n \in Started'
    BY <1>1, <1>2
  <1>13. \E d \in 0..MaxSessions : Started' = 1..d
    <2>1. c + k \in 0..MaxSessions
      BY <1>1, <1>2
    <2> QED BY <1>1, <2>1
  <1>14. /\ \A i \in 1..Len(slots') : slots'[i] # 0 => slots'[i] \in Started'
         /\ \A i \in 1..Len(retired') : retired'[i] \in Started'
    BY <1>12 DEF IdsInv
  <1> QED BY <1>10, <1>11, <1>13, <1>14 DEF IdsInv

\* Connecting, failing and ending leave the set of sessions that started.
LEMMA StartedKept ==
  ASSUME NEW n \in Sessions, NEW c, conn \in [Sessions -> ConnStates],
         conn[n] # "none", c # "none", conn' = [conn EXCEPT ![n] = c]
  PROVE  Started' = Started /\ n \in Started
  BY DEF Started

\* Every step of the channel keeps IdsInv.
LEMMA NextIds ==
  ASSUME TypeOK, IdsInv, [Next]_vars
  PROVE  IdsInv'
  <1>0. /\ slots \in Seq(Sessions \cup {0}) /\ retired \in Seq(Sessions)
        /\ conn \in [Sessions -> ConnStates] /\ EntriesStarted
    BY DEF TypeOK, IdsInv, EntriesStarted
  <1>1. ASSUME NEW s \in Sources, Accept(s) PROVE IdsInv'
    <2>1. Start(s, 1) /\ UNCHANGED <<slots, retired>> /\ 1 \in Nat
      BY <1>1 DEF Accept
    <2> QED BY <2>1, StartIds
  <1>2. ASSUME NEW n \in Sessions, Connected(n) PROVE IdsInv'
    <2>1. Started' = Started /\ n \in Started
      BY <1>0, <1>2, StartedKept DEF Connected
    <2>2. \A i \in 1..Len(slots') : slots'[i] # 0 => slots'[i] \in Started
      <3>1. store_mux_session(n)
        BY <1>2 DEF Connected
      <3>2. CASE slots' = Append(slots, n)
        BY <1>0, <2>1, <3>2 DEF EntriesStarted
      <3>3. CASE \E i \in 1..Len(slots) : slots[i] = 0 /\ Becomes(i, n)
        BY <1>0, <2>1, <3>3 DEF EntriesStarted, Becomes
      <3> QED BY <3>1, <3>2, <3>3, StoreEffect
    <2>3. EntriesStarted'
      BY <1>0, <1>2, <2>1, <2>2 DEF EntriesStarted, Connected
    <2> QED BY <1>2, <2>1, <2>3, IdsKept DEF Connected
  <1>3. ASSUME NEW n \in Sessions, ConnectFails(n) PROVE IdsInv'
    <2>1. Started' = Started
      BY <1>0, <1>3, StartedKept DEF ConnectFails
    <2>2. EntriesStarted'
      BY <1>0, <1>3, <2>1 DEF EntriesStarted, ConnectFails
    <2> QED BY <1>3, <2>1, <2>2, IdsKept DEF ConnectFails
  <1>4. ASSUME NEW n \in Sessions, Ends(n) PROVE IdsInv'
    <2>1. Started' = Started
      BY <1>0, <1>4, StartedKept DEF Ends
    <2>2. /\ \A i \in 1..Len(slots') : slots'[i] # 0 => slots'[i] \in Started
          /\ \A i \in 1..Len(retired') : retired'[i] \in Started
      <3>1. erase_mux_session(id[n])
        BY <1>4 DEF Ends
      <3>2. CASE \E i \in 1..Len(slots) : Becomes(i, 0) /\ retired' = retired
        BY <1>0, <3>2 DEF EntriesStarted, Becomes
      <3>3. CASE \E j \in 1..Len(retired) : slots' = slots /\ Leaves(j)
        <4>1. PICK j \in 1..Len(retired) : slots' = slots /\ Leaves(j)
          BY <3>3
        <4>2. ASSUME NEW i \in 1..Len(retired') PROVE retired'[i] \in Started
          <5>1. i \in 1..(j - 1) \/ (i \in j..(Len(retired) - 1) /\ i + 1 \in 1..Len(retired))
            BY <1>0, <4>1, <4>2 DEF Leaves, Without
          <5>2. i \in 1..(j - 1) => i \in 1..Len(retired)
            BY <1>0
          <5> QED BY <1>0, <4>1, <5>1, <5>2 DEF Leaves, Without, EntriesStarted
        <4> QED BY <1>0, <4>1, <4>2 DEF EntriesStarted
      <3>4. CASE slots' = slots /\ retired' = retired
        BY <1>0, <3>4 DEF EntriesStarted
      <3> QED BY <3>1, <3>2, <3>3, <3>4, EraseEffect
    <2>3. EntriesStarted'
      BY <2>1, <2>2 DEF EntriesStarted
    <2> QED BY <1>4, <2>1, <2>3, IdsKept DEF Ends
  <1>5. ASSUME UNCHANGED <<slots, retired, seed, id, src, conn>> PROVE IdsInv'
    <2>1. Started' = Started /\ EntriesStarted'
      BY <1>0, <1>5 DEF Started, EntriesStarted
    <2> QED BY <1>5, <2>1, IdsKept
  <1>6. ASSUME RoutineConnect PROVE IdsInv'
    <2>1. CASE UNCHANGED <<conn, id, seed, src>>
      BY <1>5, <1>6, <2>1 DEF RoutineConnect
    <2>2. CASE /\ get_channel_session_size < Conns
               /\ \E s \in Sources : Start(s, Conns - get_channel_session_size)
      <3>1. Conns - get_channel_session_size \in Nat /\ UNCHANGED <<slots, retired>>
        BY <1>6, <2>2, SizeType, PoolAssumption DEF RoutineConnect
      <3> QED BY <2>2, <3>1, StartIds
    <2> QED BY <1>6, <2>1, <2>2 DEF RoutineConnect
  <1>7. ASSUME routine_all_sessions PROVE IdsInv'
    <2>1. PICK out \in SUBSET {i \in 1..Len(slots) : slots[i] # 0} :
          \E leaving \in InSlotOrder(out) :
            /\ Cardinality(out) \in Nat
            /\ slots' = [i \in 1..Len(slots) |-> IF i \in out THEN 0 ELSE slots[i]]
            /\ Len(slots') = Len(slots)
            /\ [i \in 1..Cardinality(out) |-> slots[leaving[i]]] \in Seq(Sessions)
            /\ Len([i \in 1..Cardinality(out) |-> slots[leaving[i]]]) = Cardinality(out)
            /\ retired' = retired \o [i \in 1..Cardinality(out) |-> slots[leaving[i]]]
      BY <1>7, RoutineEffect
    <2>2. PICK leaving \in InSlotOrder(out) :
            /\ [i \in 1..Cardinality(out) |-> slots[leaving[i]]] \in Seq(Sessions)
            /\ Len([i \in 1..Cardinality(out) |-> slots[leaving[i]]]) = Cardinality(out)
            /\ retired' = retired \o [i \in 1..Cardinality(out) |-> slots[leaving[i]]]
      BY <2>1
    <2> DEFINE more == [i \in 1..Cardinality(out) |-> slots[leaving[i]]]
    <2>3. /\ more \in Seq(Sessions) /\ Len(more) = Cardinality(out) /\ retired' = retired \o more
          /\ \A i \in 1..Cardinality(out) : more[i] = slots[leaving[i]]
      BY <2>2
    <2>4. \A i \in 1..Cardinality(out) : leaving[i] \in out
      BY <2>2 DEF InSlotOrder
    <2> HIDE DEF more
    <2>5. \A i \in 1..Len(more) : more[i] \in Started
      BY <1>0, <2>1, <2>3, <2>4 DEF EntriesStarted
    <2>6. \A i \in 1..Len(retired') : retired'[i] \in Started
      BY <1>0, <2>3, <2>5 DEF EntriesStarted
    <2>7. \A i \in 1..Len(slots') : slots'[i] # 0 => slots'[i] \in Started
      BY <1>0, <2>1 DEF EntriesStarted
    <2>8. UNCHANGED <<seed, id, src, conn>>
      BY <1>7 DEF routine_all_sessions
    <2>9. Started' = Started
      BY <2>8 DEF Started
    <2>10. EntriesStarted'
      BY <2>6, <2>7, <2>9 DEF EntriesStarted
    <2> QED BY <2>8, <2>9, <2>10, IdsKept
  <1>8. ASSUME NEW n \in Sessions, Sticks(n) PROVE IdsInv'
    BY <1>5, <1>8 DEF Sticks
  <1>9. ASSUME create_stream PROVE IdsInv'
    BY <1>5, <1>9 DEF create_stream
  <1>10. ASSUME RoutineSkip \/ RoutineSend \/ HourChanges PROVE IdsInv'
    BY <1>5, <1>10 DEF RoutineSkip, RoutineSend, HourChanges
  <1>11. ASSUME UNCHANGED vars PROVE IdsInv'
    BY <1>5, <1>11 DEF vars
  <1> QED BY <1>1, <1>2, <1>3, <1>4, <1>6, <1>7, <1>8, <1>9, <1>10, <1>11 DEF Next, RoutineStep

-----------------------------------------------------------------------------
(* Entries and running sessions.                                            *)

\* Steps that change neither the entries nor who runs keep the balance.
LEMMA BalanceKept ==
  ASSUME Balance, UNCHANGED <<slots, retired, id>>, Started' = Started, Running' = Running
  PROVE  Balance'
  <1>1. ASSUME NEW v \in Nat
        PROVE  (Count(slots, Class(v)) + Count(retired, Class(v))
                  = Cardinality(Class(v) \cap Running))'
    <2>1. Class(v)' = Class(v)
      BY DEF Class
    <2>2. Count(slots, Class(v)) + Count(retired, Class(v)) = Cardinality(Class(v) \cap Running)
      BY DEF Balance
    <2> QED BY <2>1, <2>2 DEF Count, At
  <1> QED BY <1>1 DEF Balance

\* Sessions that only start have no entry and do not run.
LEMMA StartBalance ==
  ASSUME TypeOK, IdsInv, Balance, NEW s \in Sources, NEW k \in Nat, Start(s, k),
         UNCHANGED <<slots, retired>>
  PROVE  Balance'
  <1>1. PICK c \in 0..MaxSessions :
           /\ Started = 1..c /\ c + k <= MaxSessions /\ Started' = 1..(c + k)
           /\ conn' = [n \in Sessions |-> IF n \in (c + 1)..(c + k) THEN "connecting" ELSE conn[n]]
           /\ id' = [n \in Sessions |-> IF n \in (c + 1)..(c + k) THEN seed[s] + n - (c + 1) ELSE id[n]]
    BY StartEffect
  <1>2. MaxSessions \in Nat /\ c \in Nat
    BY PoolAssumption
  <1>3. /\ Started \subseteq Sessions /\ 0 \notin Started'
        /\ \A n \in Started : n \notin (c + 1)..(c + k) /\ n \in Started'
    BY <1>1, <1>2 DEF Started
  <1>4. \A n \in Started : id'[n] = id[n]
    BY <1>1, <1>3
  <1>5. \A n \in Sessions : conn'[n] = "running" <=> conn[n] = "running"
    <2>1. \A n \in (c + 1)..(c + k) : n \notin 1..c
      BY <1>2
    <2>2. \A n \in Sessions : n \notin Started => conn[n] = "none"
      BY DEF Started
    <2>3. \A n \in Sessions : n \in (c + 1)..(c + k) => conn[n] # "running"
      BY <1>1, <2>1, <2>2
    <2> QED BY <1>1, <2>3
  <1>6. Running' = Running /\ Running \subseteq Started
    BY <1>5 DEF Running, Started
  <1>7. ASSUME NEW v \in Nat
        PROVE  (Count(slots, Class(v)) + Count(retired, Class(v))
                  = Cardinality(Class(v) \cap Running))'
    <2>1. Class(v)' \cap Running' = Class(v) \cap Running
      BY <1>3, <1>4, <1>6 DEF Class
    <2>2. \A n \in Started : n \in Class(v)' <=> n \in Class(v)
      BY <1>3, <1>4 DEF Class
    <2>3. 0 \notin Class(v)' /\ 0 \notin Class(v)
      BY <1>3 DEF Class
    <2>4. At(slots, Class(v)') = At(slots, Class(v))
      BY <2>2, <2>3 DEF At, IdsInv
    <2>5. At(retired, Class(v)') = At(retired, Class(v))
      BY <2>2 DEF At, IdsInv
    <2>6. Count(slots, Class(v)) + Count(retired, Class(v)) = Cardinality(Class(v) \cap Running)
      BY DEF Balance
    <2>7. /\ Count(slots', Class(v)') = Count(slots, Class(v))
          /\ Count(retired', Class(v)') = Count(retired, Class(v))
      BY <2>4, <2>5 DEF Count
    <2>8. Count(slots', Class(v)') + Count(retired', Class(v)') = Cardinality(Class(v)' \cap Running')
      BY <2>1, <2>6, <2>7
    <2>9. /\ Count(slots, Class(v))' = Count(slots', Class(v)')
          /\ Count(retired, Class(v))' = Count(retired', Class(v)')
      BY DEF Count, At
    <2> QED BY <2>8, <2>9
  <1> QED BY <1>7 DEF Balance

\* A list of the leaving slots holds each of them once.
LEMMA ListsAll ==
  ASSUME NEW S, IsFiniteSet(S), S \subseteq Nat, NEW p \in InSlotOrder(S)
  PROVE  /\ p \in [1..Cardinality(S) -> S]
         /\ \A i, j \in 1..Cardinality(S) : i # j => p[i] # p[j]
         /\ \A s \in S : \E i \in 1..Cardinality(S) : p[i] = s
  <1>1. Cardinality(S) \in Nat
    BY FS_CardinalityType
  <1>2. /\ p \in [1..Cardinality(S) -> S]
        /\ \A i, j \in 1..Cardinality(S) : i < j => p[i] < p[j]
    BY DEF InSlotOrder
  <1>3. \A i \in 1..Cardinality(S) : p[i] \in Nat
    BY <1>2
  <1>4. \A i, j \in 1..Cardinality(S) : i # j => p[i] # p[j]
    BY <1>1, <1>2, <1>3
  <1>5. p \in Injection(1..Cardinality(S), S)
    BY <1>2, <1>4 DEF Injection, IsInjective
  <1>6. Cardinality(1..Cardinality(S)) = Cardinality(S)
    BY <1>1, FS_Interval
  <1>7. p \in Surjection(1..Cardinality(S), S)
    BY <1>5, <1>6, FS_Injection
  <1>8. \A s \in S : \E i \in 1..Cardinality(S) : p[i] = s
    BY <1>7 DEF Surjection
  <1> QED BY <1>2, <1>4, <1>8

\* What the slots lose, the retired gain.
LEMMA RoutineBalance ==
  ASSUME TypeOK, IdsInv, Balance, routine_all_sessions
  PROVE  Balance'
  <1>0. /\ slots \in Seq(Sessions \cup {0}) /\ retired \in Seq(Sessions) /\ Len(slots) \in Nat
        /\ UNCHANGED <<seed, id, src, conn>>
    BY DEF TypeOK, routine_all_sessions
  <1>1. PICK out \in SUBSET {i \in 1..Len(slots) : slots[i] # 0} :
        \E leaving \in InSlotOrder(out) :
          /\ IsFiniteSet(out) /\ Cardinality(out) \in Nat
          /\ slots' = [i \in 1..Len(slots) |-> IF i \in out THEN 0 ELSE slots[i]]
          /\ Len(slots') = Len(slots)
          /\ [i \in 1..Cardinality(out) |-> slots[leaving[i]]] \in Seq(Sessions)
          /\ Len([i \in 1..Cardinality(out) |-> slots[leaving[i]]]) = Cardinality(out)
          /\ retired' = retired \o [i \in 1..Cardinality(out) |-> slots[leaving[i]]]
    BY RoutineEffect
  <1>2. PICK leaving \in InSlotOrder(out) :
          /\ [i \in 1..Cardinality(out) |-> slots[leaving[i]]] \in Seq(Sessions)
          /\ Len([i \in 1..Cardinality(out) |-> slots[leaving[i]]]) = Cardinality(out)
          /\ retired' = retired \o [i \in 1..Cardinality(out) |-> slots[leaving[i]]]
    BY <1>1
  <1> DEFINE more == [i \in 1..Cardinality(out) |-> slots[leaving[i]]]
  <1>3. /\ more \in Seq(Sessions) /\ Len(more) = Cardinality(out) /\ retired' = retired \o more
        /\ \A i \in 1..Cardinality(out) : more[i] = slots[leaving[i]]
    BY <1>2
  <1> HIDE DEF more
  <1>4. out \subseteq 1..Len(slots) /\ out \subseteq Nat
    BY <1>0, <1>1
  <1>5. /\ leaving \in [1..Cardinality(out) -> out]
        /\ \A i, j \in 1..Cardinality(out) : i # j => leaving[i] # leaving[j]
        /\ \A s \in out : \E i \in 1..Cardinality(out) : leaving[i] = s
    <2>1. IsFiniteSet(out)
      BY <1>1
    <2> QED BY <1>4, <2>1, ListsAll, ZenonT(30)
  <1>6. Started' = Started /\ Running' = Running
    BY <1>0 DEF Started, Running
  <1>7. ASSUME NEW v \in Nat
        PROVE  (Count(slots, Class(v)) + Count(retired, Class(v))
                  = Cardinality(Class(v) \cap Running))'
    <2> DEFINE C == Class(v)
    <2>1. Class(v)' = C /\ 0 \notin C
      BY <1>0, <1>6, SessionsFinite DEF Class, Started
    <2>2. Count(slots, C) + Count(retired, C) = Cardinality(C \cap Running)
      BY DEF Balance
    <2> HIDE DEF C
    <2>3. IsFiniteSet(At(slots, C)) /\ IsFiniteSet(At(more, C)) /\ Count(retired, C) \in Nat
      BY <1>0, <1>3, AtFinite
    <2>4. At(slots', C) = At(slots, C) \ out
      BY <1>1, <2>1 DEF At
    <2> DEFINE f == [i \in At(more, C) |-> leaving[i]]
               S == At(slots, C) \cap out
    <2>5. \A i \in At(more, C) : i \in 1..Cardinality(out) /\ leaving[i] \in S
      BY <1>3, <1>4, <1>5 DEF At
    <2>6. f \in [At(more, C) -> S]
      BY <2>5
    <2>7. \A a, b \in At(more, C) : a # b => f[a] # f[b]
      BY <1>5, <2>5
    <2>8. ASSUME NEW t \in S PROVE \E a \in At(more, C) : f[a] = t
      <3>1. PICK a \in 1..Cardinality(out) : leaving[a] = t
        BY <1>5, <2>8
      <3>2. a \in At(more, C)
        BY <1>3, <2>8, <3>1 DEF At
      <3> QED BY <3>1, <3>2
    <2>9. Cardinality(S) = Cardinality(At(more, C))
      <3> HIDE DEF f, S
      <3> QED BY <2>3, <2>6, <2>7, <2>8, SameNumber
    <2>10. Cardinality(At(slots, C) \ out) = Cardinality(At(slots, C)) - Cardinality(At(slots, C) \cap out)
      BY <2>3, FS_Difference
    <2>11. Count(slots', C) = Count(slots, C) - Count(more, C)
      BY <2>4, <2>9, <2>10 DEF Count
    <2>12. Count(retired', C) = Count(retired, C) + Count(more, C)
      BY <1>0, <1>3, CountConcat
    <2>13. Count(slots, C) \in Nat /\ Count(more, C) \in Nat
      BY <1>0, <1>3, AtFinite
    <2>14. Count(slots', C) + Count(retired', C) = Cardinality(C \cap Running)
      BY <2>2, <2>3, <2>11, <2>12, <2>13
    <2>15. Count(slots, Class(v))' = Count(slots', C) /\ Count(retired, Class(v))' = Count(retired', C)
      BY <2>1 DEF Count, At
    <2> QED BY <1>6, <2>1, <2>14, <2>15
  <1> QED BY <1>7 DEF Balance

\* process_rmux_session adds one entry for the session that now runs.
LEMMA ConnectedBalance ==
  ASSUME TypeOK, IdsInv, Balance, NEW n \in Sessions, Connected(n)
  PROVE  Balance'
  <1>0. /\ slots \in Seq(Sessions \cup {0}) /\ conn \in [Sessions -> ConnStates]
        /\ retired \in Seq(Sessions) /\ UNCHANGED <<retired, id>> /\ n \in Sessions \cup {0}
    BY DEF TypeOK, Connected
  <1>1. Started' = Started /\ n \in Started
    BY <1>0, StartedKept DEF Connected
  <1>2. Running' = Running \cup {n} /\ n \notin Running
    BY <1>0 DEF Running, Connected
  <1>3. ASSUME NEW v \in Nat
        PROVE  (Count(slots, Class(v)) + Count(retired, Class(v))
                  = Cardinality(Class(v) \cap Running))'
    <2> DEFINE C == Class(v)
    <2>1. Class(v)' = C /\ 0 \notin C /\ C \subseteq Sessions
      BY <1>0, <1>1, SessionsFinite DEF Class, Started
    <2>2. Count(slots, C) + Count(retired, C) = Cardinality(C \cap Running)
      BY DEF Balance
    <2> HIDE DEF C
    <2>3. Count(slots, C) \in Nat /\ Count(retired, C) \in Nat
      BY <1>0, AtFinite
    <2>4. Count(slots', C) = Count(slots, C) + (IF n \in C THEN 1 ELSE 0)
      <3>1. store_mux_session(n)
        BY DEF Connected
      <3>2. CASE slots' = Append(slots, n)
        <4>1. Count(Append(slots, n), C) = IF n \in C THEN Count(slots, C) + 1 ELSE Count(slots, C)
          BY <1>0, CountAppend
        <4> QED BY <2>3, <3>2, <4>1
      <3>3. CASE \E i \in 1..Len(slots) : slots[i] = 0 /\ Becomes(i, n)
        <4>1. PICK i \in 1..Len(slots) : slots[i] = 0 /\ Becomes(i, n)
          BY <3>3
        <4>2. Count(slots', C) =
                Count(slots, C) - (IF slots[i] \in C THEN 1 ELSE 0) + (IF n \in C THEN 1 ELSE 0)
          BY <1>0, <4>1, CountExcept DEF Becomes
        <4> QED BY <2>1, <2>3, <4>1, <4>2
      <3> QED BY <3>1, <3>2, <3>3, StoreEffect
    <2>5. Cardinality(C \cap Running') = Cardinality(C \cap Running) + (IF n \in C THEN 1 ELSE 0)
      <3>1. IsFiniteSet(C \cap Running) /\ Cardinality(C \cap Running) \in Nat
        <4>1. C \cap Running \in SUBSET Sessions
          BY <2>1
        <4> QED BY <4>1, SessionsFinite
      <3>2. CASE n \in C
        <4>1. C \cap Running' = (C \cap Running) \cup {n} /\ n \notin C \cap Running
          BY <1>2, <3>2
        <4>2. Cardinality((C \cap Running) \cup {n}) = Cardinality(C \cap Running) + 1
          BY <3>1, <4>1, FS_AddElement
        <4> QED BY <3>2, <4>1, <4>2
      <3>3. CASE n \notin C
        <4>1. C \cap Running' = C \cap Running
          BY <1>2, <3>3
        <4> QED BY <3>1, <3>3, <4>1
      <3> QED BY <3>2, <3>3
    <2>6. Count(slots', C) + Count(retired', C) = Cardinality(C \cap Running')
      BY <1>0, <2>2, <2>3, <2>4, <2>5
    <2>7. Count(slots, Class(v))' = Count(slots', C) /\ Count(retired, Class(v))' = Count(retired', C)
      BY <2>1 DEF Count, At
    <2> QED BY <2>1, <2>6, <2>7
  <1> QED BY <1>3 DEF Balance

\* The first entry with the id goes, which is there since the session runs.
LEMMA EndsBalance ==
  ASSUME TypeOK, IdsInv, Balance, NEW n \in Sessions, Ends(n)
  PROVE  Balance'
  <1>0. /\ slots \in Seq(Sessions \cup {0}) /\ conn \in [Sessions -> ConnStates]
        /\ retired \in Seq(Sessions) /\ id' = id /\ id \in [Sessions -> Nat]
        /\ erase_mux_session(id[n]) /\ 0 \in Sessions \cup {0}
    BY DEF TypeOK, Ends
  <1>1. Started' = Started /\ n \in Started
    BY <1>0, StartedKept DEF Ends
  <1>2. Running' = Running \ {n} /\ n \in Running
    BY <1>0 DEF Running, Ends
  <1>3. ASSUME NEW v \in Nat
        PROVE  (Count(slots, Class(v)) + Count(retired, Class(v))
                  = Cardinality(Class(v) \cap Running))'
    <2> DEFINE C == Class(v)
               d == IF n \in C THEN 1 ELSE 0
    <2>1. /\ Class(v)' = C /\ 0 \notin C /\ C \subseteq Sessions
          /\ \A m \in Started : m \in C <=> id[m] = v
      BY <1>0, <1>1, SessionsFinite DEF Class, Started
    <2>2. Count(slots, C) + Count(retired, C) = Cardinality(C \cap Running)
      BY DEF Balance
    <2> HIDE DEF C
    <2>3. Count(slots, C) \in Nat /\ Count(retired, C) \in Nat
      BY <1>0, AtFinite
    <2>4. IsFiniteSet(C \cap Running) /\ Cardinality(C \cap Running) \in Nat
      <3>1. C \cap Running \in SUBSET Sessions
        BY <2>1
      <3> QED BY <3>1, SessionsFinite
    <2>5. Cardinality(C \cap Running') = Cardinality(C \cap Running) - d
      <3>1. C \cap Running' = (C \cap Running) \ {n} /\ (n \in C \cap Running <=> n \in C)
        BY <1>2
      <3>2. Cardinality((C \cap Running) \ {n}) =
              IF n \in C \cap Running THEN Cardinality(C \cap Running) - 1 ELSE Cardinality(C \cap Running)
        BY <2>4, FS_RemoveElement
      <3> QED BY <2>4, <3>1, <3>2
    <2>6. n \in C <=> id[n] = v
      BY <1>1, <2>1
    <2>7. Count(slots', C) + Count(retired', C) = Count(slots, C) + Count(retired, C) - d
      <3>1. CASE \E i \in 1..Len(slots) :
              /\ slots[i] # 0 /\ id[slots[i]] = id[n]
              /\ Becomes(i, 0) /\ retired' = retired
        <4>1. PICK i \in 1..Len(slots) :
              /\ slots[i] # 0 /\ id[slots[i]] = id[n]
              /\ Becomes(i, 0) /\ retired' = retired
          BY <3>1
        <4>2. slots[i] \in C <=> n \in C
          BY <2>1, <2>6, <4>1 DEF IdsInv
        <4>3. Count(slots', C) =
                Count(slots, C) - (IF slots[i] \in C THEN 1 ELSE 0) + (IF 0 \in C THEN 1 ELSE 0)
          BY <1>0, <4>1, CountExcept DEF Becomes
        <4> QED BY <2>1, <2>3, <4>1, <4>2, <4>3
      <3>2. CASE \E j \in 1..Len(retired) :
              /\ id[retired[j]] = id[n] /\ slots' = slots /\ Leaves(j)
        <4>1. PICK j \in 1..Len(retired) :
              /\ id[retired[j]] = id[n] /\ slots' = slots /\ Leaves(j)
          BY <3>2
        <4>2. retired[j] \in C <=> n \in C
          BY <2>1, <2>6, <4>1 DEF IdsInv
        <4>3. Count(retired', C) = Count(retired, C) - (IF retired[j] \in C THEN 1 ELSE 0)
          BY <1>0, <4>1, CountRemove DEF Leaves
        <4> QED BY <2>3, <4>1, <4>2, <4>3
      <3>3. CASE /\ \A i \in 1..Len(slots) : slots[i] # 0 => id[slots[i]] # id[n]
                 /\ \A j \in 1..Len(retired) : id[retired[j]] # id[n]
                 /\ slots' = slots /\ retired' = retired
        <4>1. CASE n \notin C
          BY <2>3, <3>3, <4>1
        <4>2. CASE n \in C
          <5>1. Count(slots, C) = 0
            <6>1. ASSUME NEW i \in 1..Len(slots) PROVE slots[i] \notin C
              BY <2>1, <2>6, <3>3, <4>2 DEF IdsInv
            <6> QED BY <1>0, <6>1, NoneAt
          <5>2. Count(retired, C) = 0
            <6>1. ASSUME NEW i \in 1..Len(retired) PROVE retired[i] \notin C
              BY <2>1, <2>6, <3>3, <4>2 DEF IdsInv
            <6> QED BY <1>0, <6>1, NoneAt
          <5>3. Cardinality(C \cap Running) = 0
            BY <2>2, <5>1, <5>2
          <5>4. n \in C \cap Running
            BY <1>2, <4>2
          <5>5. C \cap Running = {}
            BY <2>4, <5>3, FS_EmptySet
          <5> QED BY <5>4, <5>5
        <4> QED BY <4>1, <4>2
      <3> QED BY <1>0, <3>1, <3>2, <3>3, EraseEffect
    <2>8. Count(slots', C) + Count(retired', C) = Cardinality(C \cap Running')
      <3>1. d \in Nat
        OBVIOUS
      <3> HIDE DEF d
      <3> QED BY <2>2, <2>3, <2>4, <2>5, <2>7, <3>1
    <2>9. Count(slots, Class(v))' = Count(slots', C) /\ Count(retired, Class(v))' = Count(retired', C)
      BY <2>1 DEF Count, At
    <2> QED BY <2>1, <2>8, <2>9
  <1> QED BY <1>3 DEF Balance

\* Every step of the channel keeps the balance of entries and running sessions.
LEMMA NextBalance ==
  ASSUME TypeOK, IdsInv, Balance, [Next]_vars
  PROVE  Balance'
  <1>1. ASSUME NEW s \in Sources, Accept(s) PROVE Balance'
    <2>1. Start(s, 1) /\ UNCHANGED <<slots, retired>> /\ 1 \in Nat
      BY <1>1 DEF Accept
    <2> QED BY <2>1, StartBalance
  <1>2. ASSUME NEW n \in Sessions, ConnectFails(n) PROVE Balance'
    <2>1. conn \in [Sessions -> ConnStates]
      BY DEF TypeOK
    <2>2. Started' = Started
      BY <1>2, <2>1, StartedKept DEF ConnectFails
    <2>3. Running' = Running
      BY <1>2, <2>1 DEF Running, ConnectFails
    <2> QED BY <1>2, <2>2, <2>3, BalanceKept DEF ConnectFails
  <1>3. ASSUME UNCHANGED <<slots, retired, seed, id, src, conn>> PROVE Balance'
    <2>1. Started' = Started /\ Running' = Running
      BY <1>3 DEF Started, Running
    <2> QED BY <1>3, <2>1, BalanceKept
  <1>4. ASSUME RoutineConnect PROVE Balance'
    <2>1. CASE UNCHANGED <<conn, id, seed, src>>
      BY <1>3, <1>4, <2>1 DEF RoutineConnect
    <2>2. CASE /\ get_channel_session_size < Conns
               /\ \E s \in Sources : Start(s, Conns - get_channel_session_size)
      <3>1. Conns - get_channel_session_size \in Nat /\ UNCHANGED <<slots, retired>>
        BY <1>4, <2>2, SizeType, PoolAssumption DEF RoutineConnect
      <3> QED BY <2>2, <3>1, StartBalance
    <2> QED BY <1>4, <2>1, <2>2 DEF RoutineConnect
  <1>5. ASSUME NEW n \in Sessions, Sticks(n) PROVE Balance'
    BY <1>3, <1>5 DEF Sticks
  <1>6. ASSUME create_stream PROVE Balance'
    BY <1>3, <1>6 DEF create_stream
  <1>7. ASSUME RoutineSkip \/ RoutineSend \/ HourChanges PROVE Balance'
    BY <1>3, <1>7 DEF RoutineSkip, RoutineSend, HourChanges
  <1>8. ASSUME UNCHANGED vars PROVE Balance'
    BY <1>3, <1>8 DEF vars
  <1> QED BY <1>1, <1>2, <1>4, <1>5, <1>6, <1>7, <1>8,
             ConnectedBalance, EndsBalance, RoutineBalance DEF Next, RoutineStep

-----------------------------------------------------------------------------
(* The theorems.                                                            *)

\* The inductive invariant.
TableInv == TypeOK /\ IdsInv /\ Balance

\* The empty table of a client or of a server satisfies the invariant.
LEMMA InitTable == Init => TableInv
  <1> SUFFICES ASSUME Init PROVE TableInv
    OBVIOUS
  <1>1. <<>> \in Seq(Sessions \cup {0}) /\ <<>> \in Seq(Sessions) /\ Len(<<>>) = 0
    OBVIOUS
  <1>2. PICK sources \in Sides : seed = [s \in sources |-> 0]
    BY DEF Init
  <1>3. Sources = sources /\ Sources # {}
    BY <1>2, PoolAssumption DEF Sources
  <1>4. TypeOK
    <2>1. seed \in [Sources -> Nat] /\ id \in [Sessions -> Nat]
      BY <1>2, <1>3 DEF Init
    <2>2. src \in [Sessions -> Sources]
      <3>1. (CHOOSE s \in Sources : TRUE) \in Sources
        BY <1>3
      <3>2. src = [n \in Sessions |-> CHOOSE s \in Sources : TRUE]
        BY DEF Init
      <3> QED BY <3>1, <3>2
    <2>3. cursor \in 0..(CursorMod - 1) /\ calls \in 0..MaxCalls
      BY PoolAssumption DEF Init
    <2>4. slots \in Seq(Sessions \cup {0}) /\ retired \in Seq(Sessions) /\ todo \in Seq(Sessions)
      BY <1>1 DEF Init
    <2> QED BY <2>1, <2>2, <2>3, <2>4 DEF TypeOK, Init, ConnStates
  <1>5. Started = {} /\ Running = {}
    BY DEF Init, Started, Running
  <1>6. IdsInv
    <2>1. Started = 1..0 /\ 0 \in 0..MaxSessions
      BY <1>5, PoolAssumption
    <2>2. \A i \in 1..Len(slots) : slots[i] # 0 => slots[i] \in Started
      BY <1>1 DEF Init
    <2>3. \A i \in 1..Len(retired) : retired[i] \in Started
      BY <1>1 DEF Init
    <2> QED BY <1>5, <2>1, <2>2, <2>3 DEF IdsInv
  <1>7. Balance
    <2>1. ASSUME NEW v \in Nat
          PROVE  Count(slots, Class(v)) + Count(retired, Class(v)) = Cardinality(Class(v) \cap Running)
      <3>1. At(slots, Class(v)) = {} /\ At(retired, Class(v)) = {} /\ Class(v) \cap Running = {}
        BY <1>1, <1>5 DEF Init, At, Class
      <3>2. Cardinality({}) = 0
        BY FS_EmptySet
      <3>3. /\ Count(slots, Class(v)) = 0 /\ Count(retired, Class(v)) = 0
            /\ Cardinality(Class(v) \cap Running) = 0
        BY <3>1, <3>2 DEF Count
      <3> QED BY <3>3
    <2> QED BY <2>1 DEF Balance
  <1> QED BY <1>4, <1>6, <1>7 DEF TableInv

\* The table keeps its types, ids of one source never repeat, and the entries of
\* each id are as many as its sessions that run, whatever the order in which
\* sessions connect, are retired and end.
THEOREM TableSound == Spec => []TableInv
  <1>1. TableInv /\ [Next]_vars => TableInv'
    BY NextTypes, NextIds, NextBalance DEF TableInv
  <1> QED BY <1>1, InitTable, PTL DEF Spec

\* The first entry with an id is the session's own when the ids of its source
\* are the only ones.
LEMMA OwnFound ==
  ASSUME TypeOK, IdsInv
  PROVE  LookupFindsOwn
  <1> SUFFICES ASSUME NEW n \in Running \cap Stored,
                      ~ \E m \in Sessions \ {n} : id[m] = id[n] /\ src[m] # src[n]
               PROVE  slots[Lookup(id[n])] = n
    BY DEF LookupFindsOwn
  <1> DEFINE S == {i \in 1..Len(slots) : slots[i] # 0 /\ id[slots[i]] = id[n]}
  <1>1. n \in Started /\ n \in Sessions /\ n # 0
    BY SessionsFinite DEF Running, Started
  <1>2. S \subseteq Nat \ {0} /\ S # {}
    <2>1. Len(slots) \in Nat
      BY DEF TypeOK
    <2>2. \E i \in 1..Len(slots) : slots[i] = n
      BY DEF Stored
    <2> QED BY <1>1, <2>1, <2>2
  <1>3. Lookup(id[n]) = First(S)
    BY DEF Lookup
  <1>4. First(S) \in S
    <2> HIDE DEF S
    <2> QED BY <1>2, FirstIsLeast
  <1>5. ASSUME NEW i \in S PROVE slots[i] = n
    <2>1. slots[i] \in Started /\ slots[i] \in Sessions /\ id[slots[i]] = id[n]
      BY <1>5 DEF IdsInv, Started
    <2>2. slots[i] # n => src[slots[i]] = src[n]
      BY <2>1
    <2> QED BY <1>1, <2>1, <2>2 DEF IdsInv
  <1> HIDE DEF S
  <1> QED BY <1>3, <1>4, <1>5

\* The lookup by id finds the session itself, unless another source of ids gave the
\* same id to another session.
THEOREM LookupsFindOwn == Spec => []LookupFindsOwn
  <1>1. TableInv => LookupFindsOwn
    BY OwnFound DEF TableInv
  <1> QED BY <1>1, TableSound, PTL

\* For each id the entries in the slots and among the retired are as many as the
\* sessions with it that run: erase_mux_session always has an entry to remove, and
\* no entry is left behind.
THEOREM EntriesMatch == Spec => []EntriesMatchRunning
  <1>1. TableInv => EntriesMatchRunning
    <2> SUFFICES ASSUME TableInv PROVE EntriesMatchRunning
      OBVIOUS
    <2>1. TypeOK /\ Balance
      BY DEF TableInv
    <2>2. ASSUME NEW n \in Started
          PROVE  Cardinality({i \in 1..Len(slots) : slots[i] \in Class(id[n])})
                   + Cardinality({i \in 1..Len(retired) : retired[i] \in Class(id[n])})
                   = Cardinality(Class(id[n]) \cap Running)
      <3>1. id[n] \in Nat
        BY <2>1 DEF TypeOK, Started
      <3> QED BY <2>1, <3>1 DEF Balance, Count, At
    <2> QED BY <2>1, <2>2 DEF EntriesMatchRunning, Class
  <1> QED BY <1>1, TableSound, PTL

-----------------------------------------------------------------------------
(* The loop of create_stream meets every slot unless the cursor wraps.      *)

\* The remainder of L * q + r is r.
LEMMA ModUnique ==
  ASSUME NEW L \in Nat \ {0}, NEW q \in Nat, NEW r \in 0..(L - 1)
  PROVE  (L * q + r) % L = r
  OBVIOUS

\* Len(slots) turns of the loop meet every slot when the cursor does not wrap.
LEMMA ProbesMeetAll ==
  ASSUME TypeOK, cursor + Len(slots) <= CursorMod, NEW i \in 1..Len(slots)
  PROVE  \E k \in 0..(Len(slots) - 1) : Probe(k) = i
  <1> DEFINE L == Len(slots)
             q == cursor \div L
             r == cursor % L
  <1>1. L \in Nat \ {0} /\ cursor \in Nat /\ CursorMod \in Nat \ {0} /\ i \in Nat
    BY PoolAssumption DEF TypeOK
  <1>2. cursor + L <= CursorMod /\ i \in 1..L
    OBVIOUS
  <1>3. q \in Nat /\ r \in 0..(L - 1) /\ cursor = L * q + r
    BY <1>1
  <1>4. \A k \in 0..(L - 1) : Probe(k) = 1 + ((cursor + k) % L)
    <2>1. ASSUME NEW k \in 0..(L - 1) PROVE (cursor + k) % CursorMod = cursor + k
      BY <1>1, <1>2
    <2> QED BY <2>1 DEF Probe
  <1> HIDE DEF L, q, r
  <1>5. CASE i - 1 >= r
    <2>1. i - 1 - r \in 0..(L - 1) /\ cursor + (i - 1 - r) = L * q + (i - 1) /\ i - 1 \in 0..(L - 1)
      <3>1. i - 1 - r \in 0..(L - 1) /\ i - 1 \in 0..(L - 1)
        BY <1>1, <1>2, <1>3, <1>5
      <3>2. L * q \in Nat
        BY <1>1, <1>3
      <3>3. cursor + (i - 1 - r) = L * q + (i - 1)
        BY <1>1, <1>3, <3>2
      <3> QED BY <3>1, <3>3
    <2>2. (L * q + (i - 1)) % L = i - 1
      BY <1>1, <1>3, <2>1, ModUnique
    <2>3. Probe(i - 1 - r) = 1 + (i - 1)
      BY <1>4, <2>1, <2>2
    <2>4. Probe(i - 1 - r) = i
      BY <1>1, <2>3
    <2> QED BY <2>1, <2>4 DEF L
  <1>6. CASE i - 1 < r
    <2>1. L - r + (i - 1) \in 0..(L - 1) /\ i - 1 \in 0..(L - 1) /\ q + 1 \in Nat
      BY <1>1, <1>2, <1>3, <1>6
    <2>2. cursor + (L - r + (i - 1)) = L * (q + 1) + (i - 1)
      <3>1. L * q \in Nat /\ L * (q + 1) = L * q + L
        BY <1>1, <1>3
      <3> QED BY <1>1, <1>3, <3>1
    <2>3. (L * (q + 1) + (i - 1)) % L = i - 1
      BY <1>1, <2>1, ModUnique
    <2>4. Probe(L - r + (i - 1)) = 1 + (i - 1)
      BY <1>4, <2>1, <2>2, <2>3
    <2>5. Probe(L - r + (i - 1)) = i
      BY <1>1, <2>4
    <2> QED BY <2>1, <2>5 DEF L
  <1> QED BY <1>1, <1>3, <1>5, <1>6

\* create_stream fails only when no slot is occupied, or when the u32 cursor wraps
\* during its search.
THEOREM CreateFailsOnlyEmpty == Spec => FailsOnlyWithoutSession
  <1>1. ASSUME TypeOK, [Next]_vars, calls' # calls, last' = 0
        PROVE  Stored = {} \/ cursor + Len(slots) > CursorMod
    <2>1. create_stream
      <3>1. ASSUME UNCHANGED vars PROVE FALSE
        BY <1>1, <3>1 DEF vars
      <3> QED BY <1>1, <3>1 DEF Next, RoutineStep, Accept, Connected, ConnectFails, Ends, Sticks,
             RoutineConnect, RoutineSkip, routine_all_sessions, RoutineSend, HourChanges
    <2>2. \A k \in 0..(Len(slots) - 1) : slots[Probe(k)] = 0
      BY <1>1, <2>1, CreateEffect
    <2>3. CASE cursor + Len(slots) <= CursorMod
      <3>1. \A i \in 1..Len(slots) : slots[i] = 0
        BY <1>1, <2>2, <2>3, ProbesMeetAll
      <3> QED BY <3>1, SessionsFinite DEF Stored
    <2>4. cursor \in Nat /\ Len(slots) \in Nat /\ CursorMod \in Nat
      BY <1>1, PoolAssumption DEF TypeOK
    <2> QED BY <2>3, <2>4
  <1>2. TableInv /\ [Next]_vars
          => [calls' # calls /\ last' = 0 => Stored = {} \/ cursor + Len(slots) > CursorMod]_vars
    BY <1>1 DEF TableInv
  <1> QED BY <1>2, TableSound, PTL DEF Spec, FailsOnlyWithoutSession
=============================================================================
