------------------------------ MODULE PeekSni ------------------------------
(***************************************************************************)
(* peek_sni of tunnel/tls.rs: the server name in a TLS ClientHello, read    *)
(* with hand-made offsets.  Bytes are numbers; a number of two bytes is a   *)
(* high and a low one.  A hello is built from its fields, and the first     *)
(* record holds all of it or only its first part (a hello can be split over *)
(* records).  The parser goes through it one loop round at a time.          *)
(***************************************************************************)
EXTENDS Integers, Sequences, SequencesExt

CONSTANTS
    Fixed,       \* bytes before the session id: type, length, version, random; 38
    SidLens,     \* lengths of session ids
    CipherLens,  \* lengths of the lists of ciphers, here at most 255
    MaxExts      \* bound on the number of extensions

ASSUME SniAssumption ==
    /\ Fixed \in Nat \ {0} /\ SidLens \subseteq 0 .. 255 /\ CipherLens \subseteq 0 .. 255
    /\ MaxExts \in 0 .. 4095    \* their length fits two bytes

-----------------------------------------------------------------------------
(* Hellos.                                                                  *)

\* A name: its type (0 is host_name) and its bytes.
Names == [type : {0, 1}, bytes : {<<7>>, <<8, 9>>}]

\* Extensions: lists of server names, and others with any content.
ServerNames == {<<>>} \cup {<<n>> : n \in Names} \cup {<<n, m>> : n, m \in Names}
Exts == [type : {0}, names : ServerNames, data : {<<>>}]
        \cup [type : {1}, names : {<<>>}, data : {<<>>, <<0, 0, 1, 5>>}]

Two(n) == <<n \div 256, n % 256>>
NameBytes(n) == <<n.type>> \o Two(Len(n.bytes)) \o n.bytes
ListBytes(ns) == LET b == FlattenSeq([i \in DOMAIN ns |-> NameBytes(ns[i])]) IN Two(Len(b)) \o b
ExtBytes(x) ==
    LET b == IF x.type = 0 THEN ListBytes(x.names) ELSE x.data IN Two(x.type) \o Two(Len(b)) \o b
ExtsBytes(xs) == LET b == FlattenSeq([i \in DOMAIN xs |-> ExtBytes(xs[i])]) IN Two(Len(b)) \o b

HelloBytes(kind, sid, ciphers, xs) ==
    <<kind>> \o [i \in 1 .. Fixed - 1 |-> 1] \o <<sid>> \o [i \in 1 .. sid |-> 3]
    \o Two(ciphers) \o [i \in 1 .. ciphers |-> 3] \o <<1, 0>> \o ExtsBytes(xs)

VARIABLES
    exts,        \* the extensions of the client's hello
    whole,       \* the first record holds all of a client's hello
    data,        \* vdata: the content of the record
    pc,          \* where the parser is
    at,          \* offset of ext_buf in data, or of the names
    next,        \* offset of the next extension
    names,       \* rounds left in the loop over num_names
    result       \* what peek_sni returns

vars == <<exts, whole, data, pc, at, next, names, result>>

NoName == <<>>
ClientHello == 1        \* the type of handshake message that is looked into

Init ==
    /\ exts \in UNION {[1 .. n -> Exts] : n \in 0 .. MaxExts}
    /\ \E kind \in {ClientHello, 2}, sid \in SidLens, ciphers \in CipherLens :
       LET hello == HelloBytes(kind, sid, ciphers, exts) IN
       \E n \in Fixed .. Len(hello) : data = SubSeq(hello, 1, n) /\ whole = (n = Len(hello) /\ kind = ClientHello)
    /\ pc = "start" /\ at = 0 /\ next = 0 /\ names = 0 /\ result = NoName

-----------------------------------------------------------------------------
(* The parser.                                                              *)

Left(i) == Len(data) - i                          \* bytes behind offset i
Byte(i) == data[i + 1]                            \* the byte at offset i
Number(i) == 256 * data[i + 1] + data[i + 2]

Stop(why) == pc' = why /\ UNCHANGED <<at, next, names, result>>

\* Mutant: the length of the session id is read as a number of two bytes.
SkipSid_Two(i) == i + 2 + Number(i)

\* Behind the session id whose length is at i.
SkipSid(i) == i + 1 + Byte(i)

\* Behind the list of ciphers that starts at i.
SkipCiphers(i) == i + 2 + Number(i)

\* The fields before the extensions; only the length of the session id is used
\* unchecked.
Fields ==
    LET sid == SkipSid(Fixed)
        comp == SkipCiphers(sid)
        ext == comp + 1 + Byte(comp)
    IN /\ pc = "start"
       /\ \/ (Len(data) < Fixed + 4 \/ data[1] # ClientHello) /\ Stop("error")
          \/ /\ Len(data) >= Fixed + 4 /\ data[1] = ClientHello
             /\ IF sid > Len(data) THEN Stop("panic")
                ELSE IF Left(sid) < 2 THEN Stop("error")
                ELSE IF Number(sid) % 2 = 1 \/ Left(sid) < 3 + Number(sid) THEN Stop("error")
                ELSE IF Left(comp) < 1 + Byte(comp) THEN Stop("error")
                ELSE IF Left(ext) < 2 THEN Stop("error")
                ELSE IF Left(ext + 2) < Number(ext) \/ Number(ext) = 0 THEN Stop("error")
                ELSE pc' = "ext" /\ at' = ext + 2 /\ UNCHANGED <<next, names, result>>
       /\ UNCHANGED <<exts, whole, data>>

\* The content of the extension at at is there.
ExtFits(length) == Left(at + 4) >= length

\* Behind the extension at at.
AfterExt(length) == at + 4 + length

\* One round of the loop over the extensions.
NextExt ==
    /\ pc = "ext"
    /\ IF Left(at) < 4 THEN Stop("error")
       ELSE LET length == Number(at + 2) IN
            IF ~ExtFits(length) THEN Stop("error")
            ELSE IF Number(at) # 0
            THEN pc' = "ext" /\ at' = AfterExt(length) /\ UNCHANGED <<next, names, result>>
            ELSE IF length < 2 THEN Stop("error")
            ELSE /\ pc' = "name" /\ at' = at + 6 /\ next' = AfterExt(length)
                 /\ names' = Number(at + 4) /\ UNCHANGED result
    /\ UNCHANGED <<exts, whole, data>>

\* Mutant: the type of a name is not looked at.
IsHostName_Any(i) == TRUE

\* name_type == 0.
IsHostName(i) == Byte(i) = 0

\* One round of the loop over the names.  The number of rounds is the length of
\* the list in bytes, and the names may reach behind the extension.
NextName ==
    /\ pc = "name"
    /\ IF names = 0
       THEN pc' = "ext" /\ at' = next /\ UNCHANGED <<next, names, result>>
       ELSE IF Left(at) < 3 THEN Stop("error")
       ELSE LET n == Number(at + 1) IN
            IF Left(at + 3) < n THEN Stop("error")
            ELSE IF IsHostName(at)
            THEN /\ pc' = "name_found" /\ result' = SubSeq(data, at + 4, at + 3 + n)
                 /\ UNCHANGED <<at, next, names>>
            ELSE /\ at' = at + 3 + n /\ names' = names - 1
                 /\ UNCHANGED <<pc, next, result>>
    /\ UNCHANGED <<exts, whole, data>>

Next == Fields \/ NextExt \/ NextName

Spec == Init /\ [][Next]_vars

-----------------------------------------------------------------------------
(* Properties.                                                              *)

\* The variables have their types, the indices within the record.
TypeOK ==
    /\ pc \in {"start", "ext", "name", "name_found", "error", "panic"}
    /\ at \in 0 .. Len(data) /\ next \in 0 .. Len(data) /\ names \in Nat
    /\ \A i \in DOMAIN data : data[i] \in 0 .. 255

\* All names of the server_name extensions, in order.
AllNames == FlattenSeq([i \in DOMAIN exts |-> exts[i].names])
FirstHostName(k) == AllNames[k].type = 0 /\ \A j \in 1 .. k - 1 : AllNames[j].type # 0
HasOtherNames(x) == x.type = 0 /\ \A i \in DOMAIN x.names : x.names[i].type # 0

\* What is found is the first host name of the hello, unless a list without one
\* comes before it: the loop then reads on into the next extension.  And a hello
\* that is whole and has a host name first in its first list has it found.
FoundIsFirst ==
    /\ pc = "name_found" /\ ~(\E i \in DOMAIN exts : HasOtherNames(exts[i]) /\ exts[i].names # <<>>) =>
          \E k \in DOMAIN AllNames : FirstHostName(k) /\ result = AllNames[k].bytes
    /\ whole /\ (\E i \in DOMAIN exts : exts[i].type = 0 /\ exts[i].names # <<>>
                     /\ exts[i].names[1].type = 0
                     /\ \A j \in 1 .. i - 1 : exts[j].type # 0) =>
          pc # "error"

\* The parser never looks behind the record.  The only index that is not checked
\* is the session id's: a panic needs a record that ends within it.
PanicHasCause ==
    /\ TypeOK
    /\ pc = "panic" => ~whole /\ Len(data) < Fixed + 1 + data[Fixed + 1]
=============================================================================
