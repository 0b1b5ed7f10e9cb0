------------------------------ MODULE DnsReply ------------------------------
(***************************************************************************)
(* What a server answers, as dnswire.Answer and appendName put it into     *)
(* bytes, and what Parse makes of it: whole, everything the server put in; *)
(* cut off, nothing.                                                       *)
(*                                                                         *)
(* A reply is the labels of the name that was asked for and the answers'   *)
(* records. A server sends records of any type and class; Answer itself    *)
(* only writes addresses.                                                  *)
(***************************************************************************)
EXTENDS DnsWire, Concat

CONSTANT Replies  \* the replies that servers send

Uint16 == {n \in Nat : n <= 65535}

\* The labels that appendName lets pass, and fewer than a pointer and readName's limit
\* leave room for; counts, types and lengths of two bytes.
Sendable(b) ==
    /\ b.name \in Seq(Seq(Byte))
    /\ \A k \in DOMAIN b.name : Len(b.name[k]) \in 1..63
    /\ Len(b.name) < MaxHops
    /\ b.records \in Seq([type : Uint16, class : Uint16, data : Seq(Byte)])
    /\ Len(b.records) \in Uint16
    /\ \A k \in DOMAIN b.records : Len(b.records[k].data) \in Uint16

ASSUME ReplyAssumption == \A b \in Replies : Sendable(b)

High(n) == n \div 256
Low(n) == n % 256

\* The bytes of the first labels of a name, for every number of them.
LabelsOf(labels) == Joined([k \in DOMAIN labels |-> <<Len(labels[k])>> \o labels[k]])

EncodeName(labels) == LabelsOf(labels)[Len(labels)] \o <<0>>

\* A record has the question's name, as a pointer to it.
EncodeRecord(r) ==
    <<192, HeaderSize, High(r.type), Low(r.type), High(r.class), Low(r.class), 0, 0, 0, 60,
      High(Len(r.data)), Low(Len(r.data))>> \o r.data

RecordsOf(records) == Joined([k \in DOMAIN records |-> EncodeRecord(records[k])])

EncodeHeader(b) ==
    <<0, 7, 129, 128, 0, 1, High(Len(b.records)), Low(Len(b.records)), 0, 0, 0, 0>>

Encode(b) ==
    (EncodeHeader(b) \o EncodeName(b.name)) \o
        (<<0, 1, 0, 1>> \o RecordsOf(b.records)[Len(b.records)])

Intact == {Encode(b) : b \in Replies}

\* msg is the message m, or what is left of it when it is cut off.
PartOf(m) == Size <= Len(m) /\ \A o \in 1..Size : msg[o] = m[o]

\* A datagram cut off anywhere, between two records too, is rejected as a whole: no
\* partial list of addresses is ever compared with the reference.
CutIsRejected == \A m \in Intact : PartOf(m) /\ Size < Len(m) => at # "ok"

\* The addresses among the first records, for every number of them.
Addresses(records) ==
    Joined([k \in DOMAIN records |->
        IF /\ records[k].class = 1
           /\ <<records[k].type, Len(records[k].data)>> \in {<<1, 4>>, <<28, 16>>}
        THEN <<records[k].data>>
        ELSE <<>>])

\* What the server put in is what comes out (TestRoundTrip): the name it was asked
\* for, and the addresses of the address records among its answers, in their order.
RoundTrip ==
    Parsed => \A b \in Replies : msg = Encode(b) =>
        /\ at = "ok"
        /\ question = b.name
        /\ addrs = Addresses(b.records)[Len(b.records)]
=============================================================================
