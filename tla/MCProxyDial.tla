---------------------------- MODULE MCProxyDial -----------------------------
(***************************************************************************)
(* ProxyDial against proxies that grant and refuse in every way the code   *)
(* tells apart, with bytes of the tunnel right behind the handshake, and   *)
(* cut off anywhere.                                                       *)
(***************************************************************************)
EXTENDS ProxyDial, SequencesExt

Bytes(n) == [i \in 1..n |-> 7]

Greetings == {<<5, 0>>, <<5, 2, 1, 0>>, <<5, 2, 1, 1>>, <<5, 255>>, <<4, 0>>}
Replies ==
    {<<5, 0, 0, 1>> \o Bytes(6), <<5, 0, 0, 4>> \o Bytes(18), <<5, 0, 0, 3, 0>> \o Bytes(2),
     <<5, 0, 0, 3, 3>> \o Bytes(5), <<5, 0, 0, 2>> \o Bytes(6), <<5, 1, 0, 1>> \o Bytes(6)}
Heads ==
    {<<200, 0>>, <<200, 1, 0>>, <<200, 1, -1, 0>>, <<407, 1, 0>>, <<-1, 0>>, <<100, 0, 200, 0>>}

\* Bytes of the tunnel that look like an end of the head, an error or a refusal.
Tunnel(s) == IF s = "http" THEN <<0, -1>> ELSE <<0, 255>>

Cut(s) == {SubSeq(s, 1, n) : n \in 0..Len(s)}

MCScripts == [s \in Schemes |->
    IF s = "http" THEN UNION {Cut(h \o Tunnel(s)) : h \in Heads}
    ELSE UNION {Cut(g \o r \o Tunnel(s)) : g \in Greetings, r \in Replies}]

MCDials ==
    {d \in [scheme : Schemes, creds : {"none", "short", "long"}, host : {"good", "long"},
            deadline : BOOLEAN] :
        d.scheme = "http" => d.creds = "none" /\ d.host = "good"}
=============================================================================
