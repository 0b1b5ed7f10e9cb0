------------------------------- MODULE Layers -------------------------------
(***************************************************************************)
(* What the layers make of what they are given: netx.Classify of an error, *)
(* httpcheck.Fetch and Classify of a response, with the signatures it is   *)
(* compared with, outage.Check of a status page, localnet.Check of the     *)
(* machine's interfaces, route and baseline hosts.                         *)
(***************************************************************************)
EXTENDS Integers, Sequences

CONSTANTS
    Errors,      \* what may go wrong, by what Classify can tell of it
    Signatures,  \* block pages and geo-blocks
    Exchanges    \* how a request may go

-----------------------------------------------------------------------------
(* Errors. An error is the set of its marks: what it wraps, whether its Timeout *)
(* says so, and the telling words of its text. No error is the empty set.       *)

NoError == {}

\* Classify's checks in their order, types first, then text.
Checks == <<
    <<"AlertError", "tls_alert">>,
    <<"RecordHeaderError", "reset">>,
    <<"ECONNREFUSED", "refused">>,
    <<"ECONNRESET", "reset">>,
    <<"EHOSTUNREACH", "unreachable">>,
    <<"DeadlineExceeded", "timeout">>,
    <<"EOF", "eof">>,
    <<"DNSError.IsTimeout", "timeout">>,
    <<"DNSError", "dns">>,
    <<"Timeout()", "timeout">>,
    <<"says refused", "refused">>,
    <<"says reset", "reset">>,
    <<"says unreachable", "unreachable">>,
    <<"says timeout", "timeout">>,
    <<"says eof", "eof">>,
    <<"says remote error", "tls_alert">> >>

Meets(err, i) == Checks[i][1] \in err

Classify(err) ==
    IF err = NoError THEN ""
    ELSE IF \A i \in DOMAIN Checks : ~Meets(err, i) THEN "other"
    ELSE Checks[CHOOSE i \in DOMAIN Checks : Meets(err, i) /\ \A j \in 1..i-1 : ~Meets(err, j)][2]

Kinds == {Classify(e) : e \in Errors \cup {NoError}}

-----------------------------------------------------------------------------
(* Responses. Texts are the sets of the phrases they contain, an empty text none. *)

MatchBlockPage(r) ==
    \E p \in Signatures.pages : r.location \cap p.url # {} \/ r.body \cap p.body # {}

\* A signature without hosts or statuses is one for all of them.
MatchGeoBlock(r) ==
    \E g \in Signatures.geos :
        /\ g.hosts = {} \/ r.host \in g.hosts
        /\ g.status = {} \/ r.status \in g.status
        /\ r.body \cap g.body # {}

\* httpcheck.Classify.
ResponseClass(r) ==
    IF MatchBlockPage(r) THEN "block_page"
    ELSE IF MatchGeoBlock(r) THEN "geo_block"
    ELSE IF r.status = 451 THEN "legal"
    ELSE IF r.status >= 500 THEN "server_error"
    ELSE "ok"

\* classifyErr, as far as the verdict tells kinds apart.
FailureOf(err) ==
    IF "Timeout()" \in err THEN "timeout"
    ELSE IF Classify(err) \in {"reset", "eof"} THEN "reset"
    ELSE IF Classify(err) = "timeout" THEN "timeout"
    ELSE "other"

\* Fetch: a body cut off counts for what was read of it, unless that is nothing.
FetchResult(x) ==
    IF x.err # NoError THEN [class |-> "failed", err |-> FailureOf(x.err)]
    ELSE IF ResponseClass(x.response) = "ok" /\ x.response.body = {} /\ x.readErr # NoError
      THEN [class |-> "failed", err |-> FailureOf(x.readErr)]
    ELSE [class |-> ResponseClass(x.response), err |-> ""]

Fetches == {FetchResult(x) : x \in Exchanges}

-----------------------------------------------------------------------------
(* Status pages and the machine's own network. *)

Words == {"", "none", "minor", "major", "critical", "maintenance"}
StatusPages == [err : BOOLEAN, status : {200, 503}, json : BOOLEAN, indicator : Words]

\* outage.Check: an indicator, or an error.
Indicator(page) ==
    IF page.err \/ page.status # 200 \/ ~page.json \/ page.indicator = "" THEN "error"
    ELSE page.indicator

Indicators == {Indicator(p) : p \in StatusPages}

Iface == [up : BOOLEAN, loop : BOOLEAN, addr : BOOLEAN]
Machines == [ifaces : SUBSET Iface, route : BOOLEAN, answers : {{}, {TRUE}, {FALSE}, BOOLEAN}]

Active(iface) == iface.up /\ ~iface.loop /\ iface.addr

\* localnet.Check and what Down makes of its interfaces: none listed are not known to
\* be inactive; baseline hosts are only tried over a default route.
LocalResult(m) ==
    [iface |-> IF m.ifaces = {} \/ \E i \in m.ifaces : Active(i) THEN "active" ELSE "inactive",
     route |-> m.route,
     baseline |-> IF ~m.route \/ m.answers = {} THEN "untried"
                  ELSE IF TRUE \in m.answers THEN "some" ELSE "failed"]

LocalResults == {LocalResult(m) : m \in Machines}
=============================================================================
