----------------------------- MODULE Resolvers ------------------------------
(***************************************************************************)
(* The lookups of module Dns in full: System.Lookup, UDP.Lookup with its   *)
(* exchange over a network that loses, delays, reorders and duplicates     *)
(* datagrams, and DoH.Lookup. Each lookup of Dns is the last step of one   *)
(* here, and the lookup of the control name is a second round of them.     *)
(***************************************************************************)
EXTENDS Dns, FiniteSets

CONSTANTS
    Ports,         \* local ports the operating system gives to a socket
    IDs,           \* query IDs, drawn at random: two queries may have the same one
    IPv6,          \* addresses in a response that are not IPv4
    Messages,      \* what responses say: a response code and addresses
    SystemIsUDP,   \* --resolver: the resolver under test is asked over UDP
    MaxDatagrams   \* datagrams on the network at a time

ASSUME ResolversAssumption ==
    /\ \A m \in Messages : m.addrs \subseteq Addr \cup IPv6
    /\ SystemIsUDP \in BOOLEAN
    /\ 0 \notin Ports
    /\ MaxDatagrams \in Nat

VARIABLES
    ask,      \* each resolver's lookup: "idle", "reading" from a socket, or "over"
    queries,  \* the queries sent over UDP
    wire,     \* datagrams on their way to us
    reply,    \* the response a UDP lookup took, in this round
    heard     \* the resolvers that answered for the control name

exchangeVars == <<ask, queries, wire, reply, heard>>
allVars == <<vars, exchangeVars>>

UdpSlots == {s \in Slots : s[1] = "public" \/ (s[1] = "system" /\ SystemIsUDP)}

\* The name looked up in this round, and who is asked for it.
Round == IF stage = "resolve" THEN "host" ELSE "control"
Asked == IF stage = "resolve" THEN Slots ELSE IF stage = "control" THEN ControlSlots ELSE {}

Idle == [at |-> "idle", port |-> 0, id |-> 0]
Over == [Idle EXCEPT !.at = "over"]
NoReply == [name |-> ""]
Garbage == [rcode |-> "garbage", addrs |-> {}]

-----------------------------------------------------------------------------
(* What a lookup returns. *)

\* Variant: a response without IPv4 addresses is an answer.
AddrsFromAny(m) ==
    IF m.rcode = "success" THEN Found(m.addrs \ IPv6)
    ELSE IF m.rcode \in {"nxdomain", "rcode_refused"} THEN Failed(m.rcode)
    ELSE Failed("servfail")

\* addrsFrom: IPv4 addresses, or why there are none.
AddrsFrom(m) ==
    IF m.rcode = "success"
      THEN IF m.addrs \subseteq IPv6 THEN Failed("noanswer") ELSE Found(m.addrs \ IPv6)
    ELSE IF m.rcode \in {"nxdomain", "rcode_refused"} THEN Failed(m.rcode)
    ELSE Failed("servfail")

\* System.Lookup: the operating system's resolver has its own word for a name that
\* does not exist, and passes every other failure on as an error of the network.
OsAnswers ==
    {Found(as) : as \in (SUBSET Addr) \ {{}}}
      \cup {Failed(e) : e \in {"nxdomain", "noanswer", "timeout", "refused", "error"}}

\* DoH.Lookup: a request that fails, a status other than 200 or a body that is no
\* response is an error; the ID and the question of the response are not looked at.
DohAnswers ==
    {AddrsFrom(m) : m \in Messages} \cup {Failed(e) : e \in {"timeout", "refused", "error"}}

-----------------------------------------------------------------------------
ExInit ==
    /\ Init
    /\ ask = [s \in Slots |-> Idle]
    /\ queries = {}
    /\ wire = {}
    /\ reply = [s \in Slots |-> NoReply]
    /\ heard = {}

\* Variant: the WaitGroup is not told.
LookupReturnsUndone(s, a) ==
    /\ ask' = [ask EXCEPT ![s] = Over]
    /\ res' = IF Round = "host" THEN Put(s, a) ELSE res
    /\ UNCHANGED <<waiting, heard, stage, analysis, asked, control, dropped, queries>>

\* A lookup of this round returns: Dns!Lookup in the first, a vote in the second.
LookupReturns(s, a) ==
    /\ ask' = [ask EXCEPT ![s] = Over]
    /\ IF Round = "host"
         THEN /\ res' = Put(s, a)
              /\ waiting' = waiting \ {s}
              /\ UNCHANGED heard
         ELSE /\ heard' = IF OK(a) THEN heard \cup {s} ELSE heard
              /\ UNCHANGED <<res, waiting>>
    /\ UNCHANGED <<stage, analysis, asked, control, dropped, queries>>

\* The system's resolver and the DoH clients, each one call that its deadline ends.
AskSystem(s) ==
    /\ s \in Asked /\ s[1] = "system" /\ ~SystemIsUDP
    /\ ask[s] = Idle
    /\ \E a \in OsAnswers : LookupReturns(s, a)
    /\ UNCHANGED <<wire, reply>>

AskDoH(s) ==
    /\ s \in Asked /\ s[1] = "doh"
    /\ ask[s] = Idle
    /\ \E a \in DohAnswers : LookupReturns(s, a)
    /\ UNCHANGED <<wire, reply>>

\* udpExchange: a socket of its own, connected to the server, and a new ID.
SendQuery(s) ==
    /\ s \in Asked \cap UdpSlots
    /\ ask[s] = Idle
    /\ \E p \in Ports, id \in IDs :
        /\ \A u \in Slots : ask[u].port # p
        /\ ask' = [ask EXCEPT ![s] = [at |-> "reading", port |-> p, id |-> id]]
        /\ queries' = queries \cup {[slot |-> s, port |-> p, id |-> id, name |-> Round]}
    /\ UNCHANGED <<vars, wire, reply, heard>>

\* No route, or no socket.
CannotSend(s) ==
    /\ s \in Asked \cap UdpSlots
    /\ ask[s] = Idle
    /\ LookupReturns(s, Failed("error"))
    /\ UNCHANGED <<wire, reply>>

Reading(s) == s \in Asked /\ ask[s].at = "reading"

\* Variant: any response with the query's ID is taken.
MatchesAnyName(s, d) == d.message # Garbage /\ d.id = ask[s].id

\* The response is a DNS response with the ID and the name of the query.
Matches(s, d) == d.message # Garbage /\ d.id = ask[s].id /\ d.name = Round

\* Read returns a datagram of the server, of which the network may have another copy:
\* a response to the query ends the exchange, anything else is skipped.
Receive(s) ==
    /\ Reading(s)
    /\ \E d \in wire :
        /\ d.slot = s /\ d.port = ask[s].port
        /\ wire' \in {wire, wire \ {d}}
        /\ IF Matches(s, d)
             THEN /\ LookupReturns(s, AddrsFrom(d.message))
                  /\ reply' = [reply EXCEPT ![s] = d]
             ELSE UNCHANGED <<vars, ask, queries, reply, heard>>

\* Variant: an error of Read is skipped like a datagram of somebody else.
ReadFailsSkipped(s) == Reading(s) /\ UNCHANGED allVars

\* Read fails: at the deadline, or because the server's host said that nobody listens.
ReadFails(s) ==
    /\ Reading(s)
    /\ \E e \in {"timeout", "refused"} : LookupReturns(s, Failed(e))
    /\ UNCHANGED <<wire, reply>>

\* The network: a server, or something on the path to it, responds to any query it
\* has seen, however late; noise arrives; datagrams are lost.
Respond ==
    /\ Cardinality(wire) < MaxDatagrams
    /\ \E q \in queries, m \in Messages \cup {Garbage} :
        wire' = wire \cup {[slot |-> q.slot, port |-> q.port, id |-> q.id, name |-> q.name,
                            message |-> m]}
    /\ UNCHANGED <<vars, ask, queries, reply, heard>>

Lose ==
    /\ \E d \in wire : wire' = wire \ {d}
    /\ UNCHANGED <<vars, ask, queries, reply, heard>>

\* Resolve's wg.Wait and what follows; a second round starts from new sockets.
Analysed ==
    /\ Compare
    /\ ask' = [s \in Slots |-> Idle]
    /\ reply' = [s \in Slots |-> NoReply]
    /\ UNCHANGED <<queries, wire, heard>>

\* controlResolves: one resolver with addresses is enough.
ControlEnds ==
    /\ stage = "control"
    /\ \A s \in ControlSlots : ask[s] = Over
    /\ control' = heard
    /\ dropped' = (heard # {})
    /\ asked' = TRUE
    /\ stage' = "done"
    /\ UNCHANGED <<waiting, res, analysis, exchangeVars>>

SlotStep(s) ==
    \/ AskSystem(s) \/ AskDoH(s) \/ SendQuery(s) \/ CannotSend(s) \/ Receive(s) \/ ReadFails(s)

ExNext ==
    \/ \E s \in Slots : SlotStep(s)
    \/ Analysed \/ ControlEnds
    \/ Respond \/ Lose
    \/ stage = "done" /\ UNCHANGED allVars

ExSpec == ExInit /\ [][ExNext]_allVars

\* A socket's deadline comes; the calls of the system's resolver and of the DoH client
\* are bounded by the same context. Nothing makes a server respond.
Patience(s) == ReadFails(s) \/ SendQuery(s) \/ AskSystem(s) \/ AskDoH(s)

FairExSpec ==
    /\ ExSpec
    /\ \A s \in Slots : WF_allVars(Patience(s))
    /\ WF_allVars(Analysed \/ ControlEnds)

-----------------------------------------------------------------------------
(* Properties. *)

Queries == [slot : UdpSlots, port : Ports, id : IDs, name : {"host", "control"}]
Datagrams ==
    [slot : UdpSlots, port : Ports, id : IDs, name : {"host", "control"},
     message : Messages \cup {Garbage}]

ExchangeTypes ==
    /\ ask \in [Slots -> [at : {"idle", "reading", "over"}, port : Ports \cup {0}, id : IDs \cup {0}]]
    /\ queries \subseteq Queries
    /\ wire \subseteq Datagrams /\ IsFiniteSet(wire) /\ Cardinality(wire) <= MaxDatagrams
    /\ reply \in [Slots -> {NoReply} \cup Datagrams]
    /\ heard \subseteq ControlSlots

\* Nobody but those who are asked for the name of the round reads, each on a port of
\* its own; only those whose lookup is over have a vote.
OneSocketEach ==
    /\ \A s \in Slots :
        ask[s].at = "reading" =>
            /\ s \in Asked
            /\ ask[s].port \in Ports
            /\ \A u \in Slots : ask[u].port = ask[s].port => u = s
    /\ stage = "resolve" => waiting = {s \in Slots : ask[s] # Over} /\ heard = {}
    /\ \A s \in heard : ask[s] = Over

\* Whatever arrives late answers a query that was sent.
NothingUnasked ==
    \A d \in wire : \E q \in queries :
        q.slot = d.slot /\ q.port = d.port /\ q.id = d.id /\ q.name = d.name

\* A lookup is over when Dns has its answer, a socket reads only in a round that has
\* not ended, no two sockets have one port, and what arrives was asked for.
ExTypeOK == TypeOK /\ ExchangeTypes /\ OneSocketEach /\ NothingUnasked

\* Dns!Spec: whatever the network does to the datagrams, every lookup returns
\* addresses or one reason why not, once; the control name is asked for in the one
\* case that calls for it, and its votes are those of the plain resolvers.
ImplementsDns == Spec

\* udpExchange returns "the first response that matches its ID and question"
\* (resolvers.go:128): no answer about one name is ever taken from a response about
\* another, though sockets follow each other on a port and IDs are few; and what is
\* taken is the resolver's answer.
OwnAnswers ==
    \A s \in UdpSlots : reply[s] # NoReply =>
        /\ ask[s] = Over
        /\ reply[s].name = Round
        /\ \E q \in queries : q.slot = s /\ q.port = reply[s].port /\ q.name = Round
        /\ stage = "resolve" =>
            Put(s, AddrsFrom(reply[s].message)) = res
        /\ stage = "control" => (s \in heard <=> OK(AddrsFrom(reply[s].message)))

\* Whatever arrives, the lookups end: foreign datagrams, however many, do not extend
\* the deadline.
LookupsEnd == <>(stage = "done")
=============================================================================
