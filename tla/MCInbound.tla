----------------------------- MODULE MCInbound -----------------------------
(* Inbound for model checking, with pac entries in which a channel may be      *)
(* passed over, fallen back to, or race with its sessions.                     *)
EXTENDS Inbound

\* GET, "pos" in lower case, PRO (PROPFIND, which is not known), CON; SSH, and a
\* record of a version before 3.
MCOpenings ==
    [socks5 |-> {<<5, 1, 0>>}, socks4 |-> {<<4, 1, 0>>}, tls |-> {<<22, 3, 1>>},
     http |-> {<<71, 69, 84>>, <<112, 111, 115>>, <<80, 82, 79>>},
     connect |-> {<<67, 79, 78>>}, other |-> {<<83, 83, 72>>, <<22, 2, 0>>}]

Rule(c) == [match |-> TRUE, channel |-> c]
Other == [match |-> FALSE, channel |-> "direct"]
MCPacs ==
    {<<Rule("c1")>>, <<Rule("c1"), Rule("c2")>>, <<Rule("c1"), Rule("direct")>>,
     <<Other, Rule("c1"), Rule("c2"), Rule("direct")>>, <<Other>>}
=============================================================================
