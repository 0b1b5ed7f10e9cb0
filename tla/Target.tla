------------------------------- MODULE Target -------------------------------
(***************************************************************************)
(* probe.checkTarget and decide for one target: the layers in their order, *)
(* the goroutines that probe the addresses, try the other names and verify *)
(* a suspect answer beside them, and the verdict with its evidence.        *)
(*                                                                         *)
(* Module Dns has the lookups of the first step, module Runner what many   *)
(* targets share.                                                          *)
(***************************************************************************)
EXTENDS Verdict, FiniteSets

CONSTANTS
    Lookups,     \* the answers Resolve may return
    Locals,      \* the results the local check may end with
    MaxAddrs,    \* addresses of the reference that are probed
    Throttling,  \* --speed: the throttling layer is enabled
    Downloads,   \* how the target's download may go, and the baseline's
    Baselines,
    StatusPage   \* the target names a status page

\* IPv4 addresses are finitely many. An answer takes at least a round trip; only a
\* download that fails before it is sent takes no time.
ASSUME TargetAssumption == /\ IsFiniteSet(Addr)
                           /\ Lookups \subseteq Result
                           /\ Locals \subseteq LocalResults \cup {NoLocal}
                           /\ MaxAddrs \in Nat \ {0}
                           /\ Throttling \in BOOLEAN
                           /\ Downloads \subseteq Download
                           /\ Baselines \subseteq Download
                           /\ \A d \in Downloads \cup Baselines :
                                d.replied => d.duration > 0
                           /\ StatusPage \in BOOLEAN

VARIABLES
    step,         \* where checkTarget is
    dns,          \* st.dns, the answers
    analysis,     \* st.analysis
    control,      \* st.control: "none", or whether the control name resolved
    tcp,          \* st.tcp
    tls,          \* st.tls
    verify,       \* st.verify
    http,         \* st.http
    speed,        \* the downloads st.speed compares, <<>> without
    outage,       \* st.outage
    local,        \* the run-wide results decide reads
    intercepted,
    decision,
    dialed        \* connections opened to the target so far

layerVars == <<tcp, tls, http, speed, outage>>
runWide == <<local, intercepted, decision>>
vars == <<step, dns, analysis, control, verify, layerVars, runWide, dialed>>

NoAnswers == [system |-> Absent,
              public |-> [i \in Public |-> Absent],
              doh |-> [i \in DoH |-> Absent]]
NoTLS == [real |-> NoShake, neutral |-> NoShake, noSNI |-> NoShake]

\* A goroutine that was started and has not finished.
Running == Shake("running")
Pending == "pending"

\* sh.intercept: nil when the check is not configured, or what it found.
Interceptions == {"unchecked", "absent", "detected"}

Init ==
    /\ step = "resolve"
    /\ dns = NoAnswers
    /\ analysis = Analyze(NoAnswers)
    /\ control = "none"
    /\ tcp = <<>>
    /\ tls = NoTLS
    /\ verify = NoShake
    /\ http = NoFetch
    /\ speed = <<>>
    /\ outage = "unasked"
    /\ local = NoLocal
    /\ intercepted = "unchecked"
    /\ decision = Nothing
    /\ dialed = 0

\* len(addrs): no more than MaxAddrs of the reference are probed.
ProbeCount(as) == IF Cardinality(as) < MaxAddrs THEN Cardinality(as) ELSE MaxAddrs

\* Layer 2, and the start of the goroutines for a suspect answer and the addresses.
Resolve ==
    /\ step = "resolve"
    /\ \E r \in Lookups : dns' = r /\ analysis' = Analyze(r)
    /\ control' \in IF analysis'.unresolvable /\ analysis'.allPlainTimeout
                      THEN {"answers", "silent"} ELSE {"none"}
    /\ verify' = IF analysis'.suspects # {} THEN Running ELSE NoShake
    /\ tcp' = [i \in 1..ProbeCount(analysis'.reference) |-> Pending]
    /\ step' = "connect"
    /\ UNCHANGED <<tls, http, speed, outage, runWide, dialed>>

\* The goroutine that verifies the system's answer ends.
VerifyEnds ==
    /\ verify = Running
    /\ verify' \in {h \in RealShakes : ~h.inspected}
    /\ dialed' = dialed + 1
    /\ UNCHANGED <<step, dns, analysis, control, layerVars, runWide>>

\* Layer 3: ProbeAll's goroutine for one address ends.
Connect(i) ==
    /\ step = "connect"
    /\ tcp[i] = Pending
    /\ \E o \in TcpOutcomes : tcp' = [tcp EXCEPT ![i] = o]
    /\ dialed' = dialed + 1
    /\ UNCHANGED <<step, dns, analysis, control, verify, tls, http, speed, outage, runWide>>

Connected ==
    /\ step = "connect"
    /\ \A i \in DOMAIN tcp : tcp[i] # Pending
    /\ step' = IF AnyWorking(tcp) THEN "handshake" ELSE "join"
    /\ UNCHANGED <<dns, analysis, control, verify, layerVars, runWide, dialed>>

\* Variant: the other names are tried whenever the handshake fails.
RetriesUnlessOK(h) == h.outcome # "ok"

\* The other names are tried only when the handshake died on the network.
Retries(h) == Blocked(h)

\* A request is made when the handshake completed, with a bad certificate too.
FetchesOver(h) == h.outcome \in {"ok", "cert_invalid"}

\* Layer 4: the handshake with the real name.
Handshake ==
    /\ step = "handshake"
    /\ \E h \in RealShakes :
        /\ tls' = IF Retries(h) THEN [real |-> h, neutral |-> Running, noSNI |-> Running]
                  ELSE [NoTLS EXCEPT !.real = h]
        /\ step' = IF Retries(h) THEN "retry"
                   ELSE IF FetchesOver(h) THEN "fetch" ELSE "join"
    /\ dialed' = dialed + 1
    /\ UNCHANGED <<dns, analysis, control, verify, tcp, http, speed, outage, runWide>>

\* The goroutines of the neutral name and of no name.
Retry(name) ==
    /\ step = "retry"
    /\ tls[name] = Running
    /\ \E o \in Unnamed : tls' = [tls EXCEPT ![name] = Shake(o)]
    /\ dialed' = dialed + 1
    /\ UNCHANGED <<step, dns, analysis, control, verify, tcp, http, speed, outage, runWide>>

Retried ==
    /\ step = "retry"
    /\ tls.neutral # Running
    /\ tls.noSNI # Running
    /\ step' = "join"
    /\ UNCHANGED <<dns, analysis, control, verify, layerVars, runWide, dialed>>

\* Layer 5.
Fetch ==
    /\ step = "fetch"
    /\ http' \in Fetches
    /\ step' = IF Throttling /\ http'.class = "ok" THEN "download" ELSE "join"
    /\ dialed' = dialed + 1
    /\ UNCHANGED <<dns, analysis, control, verify, tcp, tls, speed, outage, runWide>>

\* Layer 6: the target's own download; Runner has the baseline's.
MeasureSpeed ==
    /\ step = "download"
    /\ speed' \in Downloads \X Baselines
    /\ step' = "join"
    /\ dialed' = dialed + 1
    /\ UNCHANGED <<dns, analysis, control, verify, tcp, tls, http, outage, runWide>>

PathCleanButFailing ==
    \/ analysis.unresolvable
    \/ tls.real.outcome = "ok" /\ http.class \in {"server_error", "failed"}

\* Variant: the verification is not waited for.
JoinAtOnce ==
    /\ step = "join"
    /\ step' = IF StatusPage /\ PathCleanButFailing THEN "status" ELSE "decide"
    /\ UNCHANGED <<dns, analysis, control, verify, layerVars, runWide, dialed>>

\* wg.Wait, then whether to ask the status page.
Join ==
    /\ step = "join"
    /\ verify # Running
    /\ step' = IF StatusPage /\ PathCleanButFailing THEN "status" ELSE "decide"
    /\ UNCHANGED <<dns, analysis, control, verify, layerVars, runWide, dialed>>

\* Layer 7.
AskStatus ==
    /\ step = "status"
    /\ outage' \in Indicators
    /\ step' = "decide"
    /\ UNCHANGED <<dns, analysis, control, verify, tcp, tls, http, speed, runWide, dialed>>

SpeedKind == IF speed = <<>> THEN "none" ELSE Compare(Measure(speed[1]), Measure(speed[2]))

Input == [local |-> local, intercepted |-> intercepted = "detected", dns |-> analysis,
          dropped |-> control = "answers", tcp |-> tcp, tls |-> tls, verify |-> verify,
          http |-> http, outage |-> outage, speed |-> SpeedKind]

\* decide, once the run-wide results are final.
Judge ==
    /\ step = "decide"
    /\ local' \in Locals
    /\ intercepted' \in Interceptions
    /\ step' = "done"
    /\ UNCHANGED <<dns, analysis, control, verify, layerVars, dialed>>
    /\ decision' = Decide(Input')

Decided == step = "done"

Next ==
    \/ Resolve \/ VerifyEnds
    \/ \E i \in DOMAIN tcp : Connect(i)
    \/ Connected
    \/ Handshake
    \/ \E name \in {"neutral", "noSNI"} : Retry(name)
    \/ Retried \/ Fetch \/ MeasureSpeed \/ Join \/ AskStatus \/ Judge
    \/ Decided /\ UNCHANGED vars

Spec == Init /\ [][Next]_vars

-----------------------------------------------------------------------------
(* evidence: the rows of the report, as <<layer, check, status>>, without the *)
(* rows that only inform; a host of the baseline that failed is not shown      *)
(* beside one that was reached.                                                *)

When(condition, rows) == IF condition THEN rows ELSE {}
PassIf(condition) == IF condition THEN "pass" ELSE "fail"

LocalRows ==
    When(local # NoLocal,
         {<<"local", "connectivity", PassIf(DownReason(local) = "")>>}
           \cup When(local.baseline # "untried",
                     {<<"local", "baseline", IF AnyBaseline(local) THEN "pass" ELSE "warn">>}))

ResolverStatus(a) ==
    IF OK(a) THEN PassIf(a.addrs \cap (analysis.blockIPs \cup analysis.bogons) = {}) ELSE "fail"

SystemStatus == IF analysis.suspects # {} THEN "warn" ELSE ResolverStatus(dns.system)

ResolverRows ==
    When(dns.system # Absent, {<<"dns", "resolver", SystemStatus>>})
      \cup {<<"dns", "resolver", ResolverStatus(a)>> :
                a \in {dns.public[i] : i \in Public} \cup {dns.doh[i] : i \in DoH}}

AnalysisStatus ==
    IF Poisoned(analysis) THEN "fail"
    ELSE IF analysis.suspects # {} THEN "warn"
    ELSE PassIf(~analysis.unresolvable)

DnsRows ==
    ResolverRows
      \cup When(intercepted # "unchecked",
                {<<"dns", "interception", PassIf(intercepted = "absent")>>})
      \cup {<<"dns", "analysis", AnalysisStatus>>}
      \cup When(analysis.dohUnavailable, {<<"dns", "doh", "warn">>})
      \cup When(control # "none",
                {<<"dns", "control", IF control = "answers" THEN "fail" ELSE "warn">>})
      \cup When(analysis.injectedPublic, {<<"dns", "injection", "fail">>})
      \cup When(verify # NoShake,
                {<<"dns", "verify system IP", PassIf(verify.outcome = "ok")>>})

TcpRows ==
    {<<"tcp", "address", PassIf(tcp[i] = "ok")>> : i \in DOMAIN tcp}
      \cup When(analysis.reference # {} /\ tcp = <<>>, {<<"tcp", "connect", "skip">>})

TlsRows ==
    When(tls.real # NoShake, {<<"tls", "sni", PassIf(tls.real.outcome = "ok")>>})
      \cup {<<"tls", name, PassIf(Reached(tls[name]))>> :
                name \in {n \in {"neutral", "noSNI"} : tls[n] # NoShake}}
      \cup When(SNIFiltered(tls), {<<"tls", "analysis", "fail">>})

\* Variant: a response that is not "failed" counts as an answer.
HttpRowsOnceAnswered ==
    When(http # NoFetch, {<<"http", "GET", PassIf(http.class # "failed")>>})

HttpRows == When(http # NoFetch, {<<"http", "GET", PassIf(http.class = "ok")>>})

SpeedRows ==
    When(speed # <<>>,
         {<<"speed", "analysis", PassIf(SpeedKind = "fine")>>}
           \cup When(Measure(speed[1]).err, {<<"speed", "target", "warn">>})
           \cup When(Measure(speed[2]).err, {<<"speed", "baseline", "warn">>}))

OutageRows ==
    When(outage # "unasked",
         {<<"outage", "status page",
            IF outage = "error" THEN "warn" ELSE PassIf(~Confirmed(outage))>>})

Evidence ==
    LocalRows \cup DnsRows \cup TcpRows \cup TlsRows \cup HttpRows \cup SpeedRows \cup OutageRows

-----------------------------------------------------------------------------
(* Properties. *)

Steps == {"resolve", "connect", "handshake", "retry", "fetch", "download", "join",
          "status", "decide", "done"}
Confidences == {"high", "medium", "low"}

\* tlscheck.Result, each handshake missing, running or ended.
Retryable == {Shake(o) : o \in Unnamed} \cup {Running, NoShake}
Handshakes == [real : RealShakes \cup {NoShake}, neutral : Retryable, noSNI : Retryable]

TypeOK ==
    /\ step \in Steps
    /\ dns \in Result
    /\ analysis = Analyze(dns)
    /\ control \in {"none", "answers", "silent"}
    /\ tcp \in Seq(TcpOutcomes \cup {Pending})
    /\ tls \in Handshakes
    /\ verify \in RealShakes \cup {Running, NoShake}
    /\ http \in Fetches \cup {NoFetch}
    /\ speed \in (Downloads \X Baselines) \cup {<<>>}
    /\ outage \in Indicators \cup {"unasked"}
    /\ local \in LocalResults \cup {NoLocal}
    /\ intercepted \in Interceptions
    /\ Decided => decision.confidence \in Confidences
    /\ dialed \in Nat

Problems == {"LOCAL_NETWORK_DOWN", "DNS_POISONED", "DNS_INTERCEPTED", "IP_BLOCKED",
             "CONNECTION_RESET", "SNI_FILTERED", "TLS_INTERCEPTED", "BLOCK_PAGE",
             "PROVIDER_GEO_BLOCK", "THROTTLED", "UPSTREAM_OUTAGE"}
DnsProblems == {"DNS_POISONED", "DNS_INTERCEPTED"}
\* The service answers over a trusted connection.
Healthy == tls.real.outcome = "ok" /\ ~tls.real.inspected /\ http.class = "ok"
Accused == {decision.verdict} \cup decision.also

\* Nothing is judged while it is still being measured: when the verdict is made no
\* goroutine of the target runs, and a suspect answer has been verified (probe.go:358).
JudgedWhenMeasured ==
    Decided =>
        /\ \A i \in DOMAIN tcp : tcp[i] # Pending
        /\ tls.neutral # Running
        /\ tls.noSNI # Running
        /\ verify # Running
        /\ analysis.suspects # {} <=> verify # NoShake

\* "Evidence is one observation that supports a verdict" (model.go:82): whatever is
\* wrong with a target, the layer its reason names has a failed row in the report.
\* An inspection product's valid certificate alone is a row that passed.
EveryBlameIsShown ==
    Decided /\ decision.verdict \in Problems /\ decision.reason # <<"tls", "middlebox">> =>
        \E row \in Evidence : row[1] = decision.reason[1] /\ row[3] = "fail"

\* OK is only ever said of a service that answered over a trusted certificate, never
\* from the engine's fallbacks for layers that did not run, and with no failed row of
\* the target's own but those of single resolvers and addresses.
OKMeansAnswered ==
    Decided /\ decision.verdict = "OK" =>
        /\ decision.reason = <<"ok", "http">>
        /\ tls.real.outcome = "ok"
        /\ http.class = "ok"
        /\ \A row \in Evidence :
            row[3] = "fail" => \/ row[1] = "local"
                               \/ row[2] \in {"resolver", "address", "interception"}

\* "Chera checks this only after it has confirmed a valid certificate for the real
\* service" (how-it-works.md:185): the provider is blamed only over a trusted
\* connection, or when no resolver knows the name.
ProviderBlamedOnCleanPath ==
    Decided /\ decision.verdict \in {"PROVIDER_GEO_BLOCK", "UPSTREAM_OUTAGE"} =>
        \/ tls.real.outcome = "ok" /\ ~tls.real.inspected
        \/ analysis.unresolvable /\ Confirmed(outage)

\* A suspect answer convicts DNS: its server was reached and does not serve the host,
\* or the reference address does where it did not answer.
SuspectConvicted ==
    /\ analysis.suspects # {}
    /\ verify.outcome # "ok"
    /\ Reached(verify) \/ tls.real.outcome = "ok"

DnsWrong == \/ Poisoned(analysis)
            \/ SuspectConvicted
            \/ analysis.systemFailure # ""
            \/ control = "answers"

\* A DNS problem is never lost, be it a bad answer, one that its own server disowns, an
\* error where others resolve the name, or queries that are dropped: it is the verdict
\* or stands beside it, unless the local network is down.
DnsProblemReported ==
    Decided /\ decision.verdict # "LOCAL_NETWORK_DOWN" /\ DnsWrong =>
        Accused \cap DnsProblems # {}

\* "The verified path wins over DNS" (how-it-works.md:220): DNS is the verdict only
\* when fixing it would help, never over a reference whose connection is blocked,
\* intercepted (by an inspection product too), reset at any layer, throttled, refused
\* by the service or failed in a confirmed incident.
DnsFixWouldHelp ==
    Decided /\ decision.verdict \in DnsProblems =>
        /\ ~AllAre(tcp, "timeout")
        /\ ~AllAre(tcp, "unreachable")
        /\ AnyRejected(tcp) => AnyWorking(tcp)
        /\ ~Blocked(tls.real)
        /\ tls.real.outcome # "cert_invalid"
        /\ ~tls.real.inspected
        /\ http.class \notin Classes \ {"ok"}
        /\ http.class = "failed" => http.err # "reset" /\ ~Confirmed(outage)
        /\ SpeedKind \in {"none", "fine"}

\* "Both may simply be blocked the same way (SNI filtering hits every address)"
\* (verdict.go:143): a different answer from the system resolver alone convicts DNS
\* only if its server was reached and does not serve the host, or if the reference
\* address does where the system's did not answer.
FilteringIsNotPoisoning ==
    /\ Decided
    /\ ~Poisoned(analysis)
    /\ analysis.systemFailure = ""
    /\ control # "answers"
    /\ Accused \cap DnsProblems # {}
    => /\ verify.outcome # "ok"
       /\ Blocked(verify) \/ verify.outcome = "failed" => tls.real.outcome = "ok"

\* "About 3 connections for a healthy target; at most a few more when something
\* fails" (how-it-works.md:243): one to each probed address, one handshake, one
\* request, whatever fails; one more for a suspect answer and one for the throttling
\* layer; and only a handshake that died on the network costs others.
ConnectionBudget ==
    /\ dialed <= MaxAddrs + 4
    /\ Decided /\ ~Blocked(tls.real) =>
        dialed <= Len(tcp) + 2 + (IF speed = <<>> THEN 0 ELSE 1)
                               + (IF verify = NoShake THEN 0 ELSE 1)

\* The layers run in their order, each on what the one before it found: which steps
\* come before a layer has a result, and on what that depends afterwards.
BeforeShake == {"resolve", "connect", "handshake"}
BeforeFetch == BeforeShake \cup {"retry", "fetch"}

ConnectInOrder ==
    /\ step = "resolve" => tcp = <<>>
    /\ step # "resolve" => Len(tcp) = ProbeCount(analysis.reference)
    /\ step \notin {"resolve", "connect"} => \A i \in DOMAIN tcp : tcp[i] # Pending
    /\ step = "handshake" => AnyWorking(tcp)
    /\ control # "none" => analysis.unresolvable /\ analysis.allPlainTimeout

ShakeInOrder ==
    /\ step \in BeforeShake => tls = NoTLS
    /\ step \notin BeforeShake => (tls.real # NoShake <=> AnyWorking(tcp))
    /\ step = "retry" => Blocked(tls.real)
    /\ step # "retry" => tls.neutral # Running /\ tls.noSNI # Running
    /\ Blocked(tls.real) <=> tls.neutral # NoShake
    /\ Blocked(tls.real) <=> tls.noSNI # NoShake

FetchInOrder ==
    /\ step \in BeforeFetch => http = NoFetch /\ speed = <<>>
    /\ step = "fetch" => FetchesOver(tls.real)
    /\ step \notin BeforeFetch => (http # NoFetch <=> FetchesOver(tls.real))
    /\ step = "download" => http.class = "ok" /\ speed = <<>> /\ Throttling
    /\ speed # <<>> => http.class = "ok" /\ Throttling

JudgedInOrder ==
    /\ step = "resolve" => verify = NoShake
    /\ analysis.suspects # {} <=> verify # NoShake
    /\ step \in {"status", "decide", "done"} => verify # Running
    /\ step = "status" => PathCleanButFailing
    /\ outage # "unasked" => step \in {"decide", "done"} /\ PathCleanButFailing
    /\ Decided => decision = Decide(Input)

\* What has been dialed is what has a result: the addresses, and everything after them.
Ended == {i \in DOMAIN tcp : tcp[i] # Pending}
One(dialing) == IF dialing THEN 1 ELSE 0
Beyond == One(tls.real # NoShake)
            + One(tls.neutral \notin {NoShake, Running})
            + One(tls.noSNI \notin {NoShake, Running})
            + One(http # NoFetch)
            + One(speed # <<>>)
            + One(verify \notin {NoShake, Running})

ConnectionsCounted == dialed = Cardinality(Ended) + Beyond

\* The inductive invariant: the types, the order of the layers and the connections
\* each of them has made to the target. The budget follows.
MeasuredInOrder ==
    /\ TypeOK
    /\ ConnectInOrder
    /\ ShakeInOrder
    /\ FetchInOrder
    /\ JudgedInOrder
    /\ ConnectionsCounted

TargetInv == MeasuredInOrder /\ ConnectionBudget

\* A download enough for a rate was still at it when the timeout cut it off, at a rate
\* that Compare calls slow against a baseline that answered.
Starved ==
    LET t == speed[1]
        b == speed[2]
    IN  /\ t.replied /\ Success(t.status) /\ t.end = "timeout"
        /\ t.received \in MinBytes..MaxBytes-1
        /\ b.replied /\ Success(b.status) /\ b.end = "eof" /\ b.received >= MinBytes
        /\ t.received < SlowRate * t.duration
        /\ t.received * RateRatio * b.duration <= Capped(b.received) * t.duration

\* THROTTLED is only said of a target slower than a baseline that answered, over a path
\* on which nothing else is wrong; and a download the timeout cut off, "exactly what a
\* throttled connection looks like" (speed.go:57), does not pass for a good one.
ThrottledIsSlower ==
    Decided /\ speed # <<>> =>
        /\ decision.verdict = "THROTTLED" =>
            /\ Healthy
            /\ speed[2].replied /\ Success(speed[2].status)
            /\ \/ ~AsFast(Measure(speed[1]), Measure(speed[2]))
               \/ speed[1].handshake > speed[2].handshake
        /\ Starved => decision.verdict # "OK"

\* The outcome module Runner abstracts this target to, when it has one for it.
DnsClean == /\ ~Poisoned(analysis)
            /\ analysis.systemFailure = ""
            /\ analysis.suspects # {} => verify.outcome = "ok"

HasOutcome(o) ==
    CASE o = "works" -> Healthy /\ SpeedKind \in {"none", "fine"} /\ DnsClean
      [] o = "throttled" -> Healthy /\ SpeedKind \notin {"none", "fine"}
      [] o = "dead" -> AllAre(tcp, "timeout") \/ AllAre(tcp, "unreachable")
      [] o = "poisoned" -> /\ Healthy
                           /\ SpeedKind \in {"none", "fine"}
                           /\ Poisoned(analysis)
                           /\ ~analysis.injectedPublic
      [] o = "silent" -> control = "silent" /\ ~Confirmed(outage)
      [] o = "dropped" -> control = "answers"
      [] o = "unclear" -> AllAre(tcp, "error") /\ DnsClean

Run == INSTANCE RunFacts WITH NumTargets <- 1, Checks <- {"intercept", "local"}

RunWideFacts == [f \in Run!Facts |->
    CASE f = "local" -> IF DownReason(local) = "" THEN "good" ELSE "bad"
      [] f = "intercept" -> IF intercepted = "detected" THEN "bad" ELSE "good"
      [] OTHER -> Run!Unmeasured]

\* The verdict of each of Runner's outcomes is the one the engine gives a target with
\* that outcome, whatever the run-wide checks found.
RunnerAgrees ==
    Decided => \A o \in Run!Outcomes :
        HasOutcome(o) => decision.verdict = Run!VerdictOf(o, RunWideFacts)

\* What the guide says of the status page (how-it-works.md:208-213): when TCP and TLS
\* work and the service errs after the handshake, "an active incident turns the
\* verdict into UPSTREAM_OUTAGE". A reset connection is not so turned.
IncidentDecides ==
    /\ Decided
    /\ tls.real.outcome = "ok"
    /\ ~tls.real.inspected
    /\ http.class = "failed"
    /\ Confirmed(outage)
    => "UPSTREAM_OUTAGE" = decision.verdict

\* What the row's text says (evidence.go:124: "no reference address to connect to"):
\* a target without a reference address has a skipped TCP row. The condition asks for
\* a reference address instead, and with one there is always a probe.
SkippedWithoutReference ==
    Decided /\ analysis.reference = {} => <<"tcp", "connect", "skip">> \in Evidence
=============================================================================
