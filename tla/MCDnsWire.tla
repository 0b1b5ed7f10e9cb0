----------------------------- MODULE MCDnsWire ------------------------------
(***************************************************************************)
(* DnsWire on the answers of a well-behaved server, and on the same        *)
(* answers cut off anywhere or with any one byte replaced.                 *)
(***************************************************************************)
EXTENDS DnsReply

CONSTANT Noise  \* the bytes a byte may be replaced with

A(n) == [type |-> 1, class |-> 1, data |-> <<10, 0, 0, n>>]
CNAME == [type |-> 5, class |-> 1, data |-> <<1, 98, 192, HeaderSize>>]
Chaos == [A(3) EXCEPT !.class = 3]
AAAA == [type |-> 28, class |-> 1, data |-> [k \in 1..16 |-> k]]

MCReplies ==
    [name : {<<<<97>>>>, <<<<97, 98>>, <<99>>>>},
     records : {<<>>, <<A(1)>>, <<CNAME, A(1)>>, <<A(1), A(2)>>, <<Chaos, AAAA>>}]

Cut == UNION {{SubSeq(m, 1, n) : n \in 0..Len(m) - 1} : m \in Intact}
Corrupt == UNION {{[m EXCEPT ![k] = n] : k \in DOMAIN m, n \in Noise} : m \in Intact}
MCMessages == Intact \cup Cut \cup Corrupt
=============================================================================
