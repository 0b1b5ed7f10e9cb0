------------------------------ MODULE Verdict -------------------------------
(***************************************************************************)
(* verdict.Decide: one verdict out of everything measured for a target,    *)
(* and the predicates of tcpcheck, tlscheck, localnet and outage it reads. *)
(*                                                                         *)
(* Outcomes the engine never tells apart are one value here: "rejected" is *)
(* a refused or reset connection, a handshake's "reset" is Reset or EOF,   *)
(* its "failed" is ConnectFailed or Error.                                 *)
(***************************************************************************)
EXTENDS DnsAnalysis, Layers, Speed

\* tcpcheck.FromError.
TcpOutcome(kind) ==
    IF kind = "" THEN "ok"
    ELSE IF kind \in {"refused", "reset", "eof"} THEN "rejected"
    ELSE IF kind \in {"timeout", "unreachable"} THEN kind
    ELSE "error"

TcpOutcomes == {TcpOutcome(k) : k \in Kinds}

\* tlscheck.fromError; a handshake whose connection fails is "failed" whatever the kind.
ShakeOutcome(kind) ==
    IF kind = "tls_alert" THEN "alert"
    ELSE IF kind \in {"reset", "refused", "eof"} THEN "reset"
    ELSE IF kind = "timeout" THEN kind
    ELSE "failed"

\* A handshake without a name to verify never ends in "cert_invalid".
Unnamed == {"ok"} \cup {ShakeOutcome(k) : k \in Kinds \ {""}}
CertProblems == {"unknown_authority", "hostname", "expired", "other"}

Shake(outcome) == [outcome |-> outcome, cert |-> "", inspected |-> FALSE]
NoShake == Shake("none")  \* a nil *Handshake

\* The handshake with the real name: inspected when the certificate is valid and its
\* issuer is a known inspection product.
RealShakes ==
    {Shake(o) : o \in Unnamed}
      \cup {[Shake("ok") EXCEPT !.inspected = TRUE]}
      \cup {[Shake("cert_invalid") EXCEPT !.cert = p] : p \in CertProblems}

Classes == {"ok", "block_page", "geo_block", "legal", "server_error"}
Fetched(class) == [class |-> class, err |-> ""]
NoFetch == Fetched("none")  \* a nil *httpcheck.Result

\* The zero localnet.Result, of a check that is not configured.
NoLocal == [iface |-> "", route |-> TRUE, baseline |-> "untried"]

\* Result.Down's reason, "" when the connection is usable.
DownReason(l) ==
    IF l.iface = "inactive" THEN "no_interface"
    ELSE IF ~l.route THEN "no_route"
    ELSE IF l.baseline = "failed" THEN "unreachable"
    ELSE ""

AnyBaseline(l) == l.baseline = "some"

\* tcpcheck.Summarize.
AnyWorking(tcp) == \E i \in DOMAIN tcp : tcp[i] = "ok"
AnyRejected(tcp) == \E i \in DOMAIN tcp : tcp[i] = "rejected"
AllAre(tcp, outcome) == tcp # <<>> /\ \A i \in DOMAIN tcp : tcp[i] = outcome

Reached(h) == h.outcome \in {"ok", "cert_invalid", "alert"}
Blocked(h) == h.outcome \in {"reset", "timeout"}
SNIFiltered(tls) == Blocked(tls.real) /\ (Reached(tls.neutral) \/ Reached(tls.noSNI))

Confirmed(outage) == outage \in {"minor", "major", "critical"}
Severe(outage) == outage \in {"major", "critical"}

-----------------------------------------------------------------------------
(* Decisions. A reason is its key's layer and the rest of the key. *)

Give(verdict, confidence, layer, key) ==
    [verdict |-> verdict, confidence |-> confidence, reason |-> <<layer, key>>, also |-> {}]
Nothing == Give("", "", "", "")  \* a nil *Decision
Unclear == Give("INCONCLUSIVE", "low", "", "inconclusive")
FirstOf(a, b) == IF a # Nothing THEN a ELSE b

OutageDecision(outage) ==
    Give("UPSTREAM_OUTAGE", IF Severe(outage) THEN "high" ELSE "medium", "outage", "confirmed")

\* Variant: anything but a good handshake convicts the system's answer.
SuspectInvalidUnlessOK(in) == in.verify.outcome # "ok"

\* The handshake with the system's own answer shows that it does not serve the host.
SuspectInvalid(in) ==
    /\ in.verify.outcome # "ok"
    /\ Reached(in.verify) \/ in.tls.real.outcome = "ok"

Mismatch(in) == in.dns.suspects # {} /\ in.verify # NoShake /\ SuspectInvalid(in)

DnsDecision(in) ==
    IF Poisoned(in.dns) \/ Mismatch(in) THEN
        IF in.intercepted \/ in.dns.injectedPublic
          THEN Give("DNS_INTERCEPTED", "high", "dns", "intercepted")
        ELSE IF in.dns.blockIPs # {} THEN Give("DNS_POISONED", "high", "dns", "block_ip")
        ELSE IF in.dns.bogons # {} THEN Give("DNS_POISONED", "high", "dns", "bogon")
        ELSE Give("DNS_POISONED", "medium", "dns", "mismatch")
    ELSE IF in.dns.systemFailure = "" THEN Nothing
    ELSE IF in.dns.systemFailure \in {"nxdomain", "noanswer"}
      THEN Give("DNS_POISONED", "medium", "dns", "nxdomain")
    ELSE Give("DNS_POISONED", "low", "dns", "failed")

TcpDecision(in) ==
    IF AnyRejected(in.tcp) THEN Give("CONNECTION_RESET", "medium", "tcp", "reset")
    ELSE IF AllAre(in.tcp, "timeout")
      THEN Give("IP_BLOCKED", IF AnyBaseline(in.local) THEN "high" ELSE "medium", "tcp", "timeout")
    ELSE IF AllAre(in.tcp, "unreachable") THEN Give("IP_BLOCKED", "medium", "tcp", "unreachable")
    ELSE Unclear

\* Variant: whatever the network did not kill goes on to the response.
HandshakeDecisionBlockedOnly(tls) ==
    IF SNIFiltered(tls) THEN Give("SNI_FILTERED", "high", "tls", "sni")
    ELSE IF tls.real.outcome = "timeout" THEN Give("IP_BLOCKED", "medium", "tls", "timeout")
    ELSE IF Blocked(tls.real) THEN Give("CONNECTION_RESET", "medium", "tls", "reset")
    ELSE Nothing

\* Nothing when the handshake completed, with a trusted certificate or not.
HandshakeDecision(tls) ==
    IF SNIFiltered(tls) THEN Give("SNI_FILTERED", "high", "tls", "sni")
    ELSE IF tls.real.outcome = "timeout" THEN Give("IP_BLOCKED", "medium", "tls", "timeout")
    ELSE IF Blocked(tls.real) THEN Give("CONNECTION_RESET", "medium", "tls", "reset")
    ELSE IF tls.real.outcome = "alert" THEN Give("INCONCLUSIVE", "low", "tls", "alert")
    ELSE IF tls.real.outcome = "failed" THEN Unclear
    ELSE Nothing

CertConfidence(problem) ==
    CASE problem = "unknown_authority" -> "high"
      [] problem = "expired" -> "low"
      [] OTHER -> "medium"

CertificateDecision(real) ==
    IF real.outcome = "cert_invalid"
      THEN Give("TLS_INTERCEPTED", CertConfidence(real.cert), "tls", "untrusted")
    ELSE IF real.inspected THEN Give("TLS_INTERCEPTED", "medium", "tls", "middlebox")
    ELSE Nothing

BlockPageDecision(http) ==
    IF http.class = "block_page" THEN Give("BLOCK_PAGE", "high", "http", "block_page") ELSE Nothing

FailedDecision(in) ==
    IF in.http.err = "reset" THEN Give("CONNECTION_RESET", "medium", "http", "reset")
    ELSE IF Confirmed(in.outage) THEN OutageDecision(in.outage)
    ELSE Give("INCONCLUSIVE", "low", "http", in.http.err)

HttpDecision(in) ==
    CASE in.http.class = "none" -> Give("OK", "medium", "ok", "tls")
      [] in.http.class = "geo_block" -> Give("PROVIDER_GEO_BLOCK", "high", "http", "geo_block")
      [] in.http.class = "legal" -> Give("PROVIDER_GEO_BLOCK", "medium", "http", "451")
      [] in.http.class = "server_error" ->
            IF Confirmed(in.outage) THEN OutageDecision(in.outage)
            ELSE Give("UPSTREAM_OUTAGE", "medium", "http", "5xx")
      [] in.http.class = "failed" -> FailedDecision(in)
      [] OTHER -> Nothing

SpeedDecision(speed) ==
    IF speed \in {"throughput", "handshake"} THEN Give("THROTTLED", "medium", "speed", speed)
    ELSE Give("OK", "high", "ok", "http")

\* Variant: the certificate is looked at after the response.
ServiceCertificateLast(in) ==
    FirstOf(BlockPageDecision(in.http),
    FirstOf(HttpDecision(in),
    FirstOf(CertificateDecision(in.tls.real), SpeedDecision(in.speed))))

\* What a completed handshake and the request over it show.
Service(in) ==
    FirstOf(BlockPageDecision(in.http),
    FirstOf(CertificateDecision(in.tls.real),
    FirstOf(HttpDecision(in), SpeedDecision(in.speed))))

PathDecision(in) ==
    IF in.tcp = <<>> THEN Nothing
    ELSE IF ~AnyWorking(in.tcp) THEN TcpDecision(in)
    ELSE IF in.tls.real = NoShake THEN Give("OK", "low", "ok", "tls")
    ELSE FirstOf(HandshakeDecision(in.tls), Service(in))

\* No connection was attempted and the answers prove nothing.
SilentDecision(in) ==
    IF in.dropped THEN Give("DNS_INTERCEPTED", "medium", "dns", "dropped")
    ELSE IF in.dns.unresolvable /\ Confirmed(in.outage) THEN OutageDecision(in.outage)
    ELSE IF in.dns.unresolvable THEN Give("INCONCLUSIVE", "low", "dns", "unresolvable")
    ELSE Unclear

\* Variants: the path's decision is returned as it is; DNS comes first whenever it is
\* wrong.
CombinePathOnly(path, dns, in) ==
    IF path = Nothing THEN FirstOf(dns, SilentDecision(in))
    ELSE IF dns # Nothing /\ path.verdict \in {"OK", "INCONCLUSIVE"} THEN dns
    ELSE path

CombineDnsFirst(path, dns, in) ==
    IF dns # Nothing THEN dns
    ELSE IF path = Nothing THEN SilentDecision(in)
    ELSE path

\* A problem on the verified path outranks one of DNS, which is then reported beside
\* it; on a path that works or is unclear the DNS problem is the verdict.
Combine(path, dns, in) ==
    IF path = Nothing THEN FirstOf(dns, SilentDecision(in))
    ELSE IF dns = Nothing THEN path
    ELSE IF path.verdict \in {"OK", "INCONCLUSIVE"} THEN dns
    ELSE [path EXCEPT !.also = @ \cup {dns.verdict}]

\* Variant: a working address does not clear the local network.
LocalDecisionAlways(in) ==
    IF DownReason(in.local) # ""
      THEN Give("LOCAL_NETWORK_DOWN",
                IF DownReason(in.local) = "unreachable" THEN "medium" ELSE "high",
                "local", DownReason(in.local))
    ELSE Nothing

LocalDecision(in) ==
    IF ~AnyWorking(in.tcp) /\ DownReason(in.local) # ""
      THEN Give("LOCAL_NETWORK_DOWN",
                IF DownReason(in.local) = "unreachable" THEN "medium" ELSE "high",
                "local", DownReason(in.local))
    ELSE Nothing

Decide(in) ==
    FirstOf(LocalDecision(in), Combine(PathDecision(in), DnsDecision(in), in))
=============================================================================
