---------------------------- MODULE TargetProofs ----------------------------
(***************************************************************************)
(* The verdict of one target, for every number of resolvers and addresses  *)
(* and whatever the layers are told: the layers run in their order, and    *)
(* what the engine then says follows from what they found.                 *)
(***************************************************************************)
EXTENDS Target, AnalysisProofs, FiniteSetTheorems

-----------------------------------------------------------------------------
(* What the thresholds of Speed mean, for every value they may have. *)

\* Measure gives measurements, no larger than the limit.
LEMMA MeasureType ==
    ASSUME NEW d \in Download
    PROVE  /\ Measure(d) \in Measurement
           /\ Measure(d).bytes <= MaxBytes
<1>1. Capped(d.received) \in Nat /\ Capped(d.received) <= MaxBytes
  BY SpeedAssumption DEF Capped, Download
<1>2. QED
  BY <1>1, SpeedAssumption DEF Measure, Measurement, Download

\* Products as an operator the provers do not look into: of multiplication they need
\* these few laws.
Times(a, b) == a * b

LEMMA TimesType ==
    \A a, b \in Nat : Times(a, b) \in Nat
BY SMT DEF Times

LEMMA TimesMonotone ==
    \A a, b, c \in Nat : a <= b => Times(a, c) <= Times(b, c)
BY SMT DEF Times

LEMMA TimesSwap ==
    \A a, b, c \in Nat : Times(Times(a, b), c) = Times(Times(a, c), b)
BY SMT DEF Times

LEMMA TimesOneMore ==
    \A a, b \in Nat : Times(a + 1, b) = Times(a, b) + b
BY SMT DEF Times

LEMMA TimesCancel ==
    ASSUME NEW a \in Nat, NEW b \in Nat, NEW c \in Nat, c > 0, Times(a, c) <= Times(b, c)
    PROVE  a <= b
<1>1. SUFFICES ASSUME b + 1 <= a PROVE FALSE
  OBVIOUS
<1>2. Times(b + 1, c) <= Times(a, c)
  BY <1>1, TimesMonotone
<1>3. Times(b, c) + c <= Times(b, c)
  BY <1>2, TimesOneMore, TimesType
<1>4. QED
  BY <1>3, TimesType

\* Rates as amounts over times: what is below a bound stays below it when the rate
\* falls.
LEMMA BelowIsKept ==
    ASSUME NEW ta \in Nat, NEW tt \in Nat, NEW sa \in Nat, NEW st \in Nat,
           NEW rate \in Nat, st > 0,
           Times(sa, tt) <= Times(ta, st),
           ta < Times(rate, tt)
    PROVE  sa < Times(rate, st)
<1>1. /\ Times(sa, tt) \in Nat /\ Times(ta, st) \in Nat
      /\ Times(rate, tt) \in Nat /\ Times(rate, st) \in Nat
  BY TimesType
<1>2. Times(ta + 1, st) <= Times(Times(rate, tt), st)
  BY <1>1, TimesMonotone
<1>3. Times(ta, st) + st <= Times(Times(rate, st), tt)
  BY <1>2, TimesOneMore, TimesSwap
<1>4. ASSUME Times(rate, st) <= sa PROVE FALSE
  <2>1. Times(Times(rate, st), tt) <= Times(sa, tt)
    BY <1>4, TimesMonotone, TimesType
  <2>2. Times(Times(rate, st), tt) \in Nat
    BY TimesType
  <2>3. QED
    BY <1>1, <1>3, <2>1, <2>2
<1>5. QED
  BY <1>1, <1>4

\* The same against a baseline's rate, which is ratio times as high or more.
LEMMA FarBelowIsKept ==
    ASSUME NEW ta \in Nat, NEW tt \in Nat, NEW sa \in Nat, NEW st \in Nat,
           NEW ba \in Nat, NEW bt \in Nat, NEW ratio \in Nat, tt > 0,
           Times(sa, tt) <= Times(ta, st),
           Times(Times(ta, ratio), bt) <= Times(ba, tt)
    PROVE  Times(Times(sa, ratio), bt) <= Times(ba, st)
<1>0. /\ Times(sa, tt) \in Nat /\ Times(ta, st) \in Nat
      /\ Times(ta, ratio) \in Nat /\ Times(Times(ta, ratio), bt) \in Nat
      /\ Times(ba, tt) \in Nat
  BY TimesType
<1>1. Times(Times(Times(sa, tt), ratio), bt) <= Times(Times(Times(ta, st), ratio), bt)
  BY TimesMonotone, TimesType
<1>2. \A a, t \in Nat : Times(Times(Times(a, t), ratio), bt) = Times(Times(Times(a, ratio), bt), t)
  <2> TAKE a, t \in Nat
  <2>1. Times(Times(a, t), ratio) = Times(Times(a, ratio), t)
    BY TimesSwap
  <2>2. Times(a, ratio) \in Nat
    BY TimesType
  <2>3. Times(Times(Times(a, ratio), t), bt) = Times(Times(Times(a, ratio), bt), t)
    BY <1>0, <2>2, TimesSwap
  <2>4. QED
    BY <2>1, <2>3
<1>3. Times(Times(Times(sa, ratio), bt), tt) <= Times(Times(Times(ta, ratio), bt), st)
  BY <1>1, <1>2
<1>4. Times(Times(Times(ta, ratio), bt), st) <= Times(Times(ba, tt), st)
  BY TimesMonotone, TimesType
<1>5. Times(Times(ba, tt), st) = Times(Times(ba, st), tt)
  BY TimesSwap
<1>6. Times(Times(Times(sa, ratio), bt), tt) <= Times(Times(ba, st), tt)
  <2>1. /\ Times(Times(Times(sa, ratio), bt), tt) \in Nat
        /\ Times(Times(Times(ta, ratio), bt), st) \in Nat
        /\ Times(Times(ba, st), tt) \in Nat
    BY TimesType
  <2>2. QED
    BY <1>0, <1>3, <1>4, <1>5, <2>1
<1>7. QED
  BY <1>6, TimesCancel, TimesType

LEMMA RateType ==
    ASSUME NEW m \in Measurement
    PROVE  Amount(m) \in Nat /\ Time(m) \in Nat \ {0}
BY DEF Measurement, Amount, Time

\* Whatever the thresholds, a target with the baseline's rate and handshake, or better
\* ones, is not throttled: the network both go through is to blame (speed.go:106-124).
\* Its duration is positive, as a download's always is.
THEOREM AsFastIsFine ==
    ASSUME NEW target \in Measurement, NEW baseline \in Measurement,
           target.duration > 0,
           AsFast(target, baseline),
           target.handshake <= baseline.handshake
    PROVE  Compare(target, baseline) = "fine"
<1>1. ~SlowThroughput(target, baseline)
  <2>1. SUFFICES ASSUME SlowThroughput(target, baseline) PROVE FALSE
    OBVIOUS
  <2> DEFINE a == Times(Amount(target), Time(baseline))
  <2>2. /\ Amount(target) \in Nat /\ Amount(target) > 0
        /\ Time(baseline) \in Nat /\ Time(baseline) > 0
    BY <2>1, RateType, SpeedAssumption DEF SlowThroughput, Amount, Measurement
  <2>3. Times(Times(Amount(target), RateRatio), Time(baseline)) <= a
    <3>1. /\ (Amount(target) * RateRatio) * Time(baseline) <= Amount(baseline) * Time(target)
          /\ Amount(baseline) * Time(target) <= Amount(target) * Time(baseline)
      BY <2>1 DEF SlowThroughput, FarBelow, AsFast
    <3>2. /\ Times(Times(Amount(target), RateRatio), Time(baseline)) \in Nat
          /\ Times(Amount(baseline), Time(target)) \in Nat
          /\ Times(Amount(target), Time(baseline)) \in Nat
      BY RateType, TimesType, SpeedAssumption
    <3>3. QED
      BY <3>1, <3>2 DEF Times
  <2>4. Times(a, RateRatio) <= a
    BY <2>2, <2>3, TimesSwap, SpeedAssumption
  <2>5. a \in Nat /\ a > 0
    <3>1. Times(1, Time(baseline)) <= a
      BY <2>2, TimesMonotone
    <3>2. QED
      BY <2>2, <3>1, TimesType DEF Times
  <2> HIDE DEF a
  <2>6. Times(2, a) <= Times(RateRatio, a)
    BY <2>5, TimesMonotone, SpeedAssumption
  <2>7. Times(RateRatio, a) = Times(a, RateRatio) /\ Times(2, a) = a + a
    BY <2>5, SpeedAssumption DEF Times
  <2>8. Times(a, RateRatio) \in Nat
    BY <2>5, TimesType, SpeedAssumption
  <2>9. QED
    BY <2>4, <2>5, <2>6, <2>7, <2>8
<1>2. ~SlowShake(target, baseline)
  <2>1. baseline.handshake \in Nat /\ target.handshake \in Nat
    BY DEF Measurement
  <2>2. Times(1, baseline.handshake) <= Times(HandshakeRatio, baseline.handshake)
    BY <2>1, TimesMonotone, SpeedAssumption
  <2>3. baseline.handshake <= HandshakeRatio * baseline.handshake
    BY <2>1, <2>2 DEF Times
  <2>4. HandshakeRatio * baseline.handshake \in Nat
    BY <2>1, SpeedAssumption
  <2>5. QED
    BY <2>1, <2>3, <2>4 DEF SlowShake
<1>3. QED
  BY <1>1, <1>2 DEF Compare

\* A target whose download is as meaningful but slower than a throttled one's is
\* throttled too: there is no rate at which the verdict comes back to OK. Fewer than
\* MinBytes are another matter, whatever the rate.
THEOREM SlowerIsThrottled ==
    ASSUME NEW target \in Measurement, NEW slower \in Measurement, NEW baseline \in Measurement,
           Compare(target, baseline) = "throughput",
           ~slower.err, Success(slower.status), slower.bytes >= MinBytes,
           AsFast(target, slower)
    PROVE  Compare(slower, baseline) = "throughput"
<1>1. Comparable(target, baseline) /\ SlowThroughput(target, baseline)
  BY DEF Compare
<1>2. /\ Amount(target) \in Nat /\ Amount(slower) \in Nat /\ Amount(baseline) \in Nat
      /\ Time(target) \in Nat /\ Time(slower) \in Nat /\ Time(baseline) \in Nat
      /\ Time(target) > 0 /\ Time(slower) > 0
  BY RateType
<1>3. BelowSlowRate(slower)
  BY <1>1, <1>2, BelowIsKept, SpeedAssumption DEF SlowThroughput, BelowSlowRate, AsFast, Times
<1>4. FarBelow(slower, baseline)
  BY <1>1, <1>2, FarBelowIsKept, SpeedAssumption DEF SlowThroughput, FarBelow, AsFast, Times
<1>5. SlowThroughput(slower, baseline) /\ Comparable(slower, baseline)
  BY <1>1, <1>3, <1>4 DEF SlowThroughput, Comparable
<1>6. QED
  BY <1>5 DEF Compare

-----------------------------------------------------------------------------
(* What the operators of the layers return. *)

LEMMA TcpOutcomesAre ==
    TcpOutcomes \subseteq {"ok", "rejected", "timeout", "unreachable", "error"}
BY DEF TcpOutcomes, TcpOutcome

LEMMA PendingIsNoOutcome == Pending \notin TcpOutcomes
BY TcpOutcomesAre DEF Pending

LEMMA UnnamedAre == Unnamed \subseteq {"ok", "alert", "reset", "timeout", "failed"}
BY DEF Unnamed, ShakeOutcome

LEMMA ShakeFields ==
    \A o : /\ Shake(o).outcome = o
           /\ Shake(o).inspected = FALSE
           /\ Shake(o).cert = ""
BY DEF Shake

\* A handshake without a name has an outcome of its own, it is neither missing nor still
\* running.
LEMMA UnnamedShakes ==
    ASSUME NEW o \in Unnamed
    PROVE  /\ Shake(o) # NoShake
           /\ Shake(o) # Running
           /\ Shake(o).outcome \in {"ok", "alert", "reset", "timeout", "failed"}
<1>1. o # "none" /\ o # "running"
  BY UnnamedAre
<1>2. QED
  BY <1>1, UnnamedAre, ShakeFields DEF NoShake, Running

LEMMA NotRunning == NoShake # Running
BY ShakeFields DEF NoShake, Running

LEMMA RealShakeFacts ==
    ASSUME NEW h \in RealShakes
    PROVE  /\ h.outcome \in {"ok", "alert", "reset", "timeout", "failed", "cert_invalid"}
           /\ h.inspected \in BOOLEAN
           /\ h.inspected => h.outcome = "ok"
           /\ h # NoShake
           /\ h # Running
<1>1. CASE h \in {Shake(o) : o \in Unnamed}
  <2>1. PICK o \in Unnamed : h = Shake(o)
    BY <1>1
  <2>2. h.inspected = FALSE
    BY <2>1, ShakeFields
  <2>3. QED
    BY <2>1, <2>2, UnnamedShakes
<1>2. CASE h = [Shake("ok") EXCEPT !.inspected = TRUE]
  BY <1>2, ShakeFields DEF Shake, NoShake, Running
<1>3. CASE \E p \in CertProblems : h = [Shake("cert_invalid") EXCEPT !.cert = p]
  <2>1. PICK p \in CertProblems : h = [Shake("cert_invalid") EXCEPT !.cert = p]
    BY <1>3
  <2>2. h.outcome = "cert_invalid" /\ h.inspected = FALSE
    BY <2>1 DEF Shake
  <2>3. QED
    BY <2>2, ShakeFields DEF NoShake, Running
<1>4. QED
  BY <1>1, <1>2, <1>3 DEF RealShakes

LEMMA FetchFacts ==
    ASSUME NEW result \in Fetches
    PROVE  result.class \in Classes \cup {"failed"} /\ result # NoFetch
<1>1. PICK x \in Exchanges : result = FetchResult(x)
  BY DEF Fetches
<1>2. ResponseClass(x.response) \in Classes
  BY DEF ResponseClass, Classes
<1>3. result.class \in Classes \cup {"failed"}
  <2>1. CASE x.err # NoError
    BY <1>1, <2>1 DEF FetchResult
  <2>2. CASE x.err = NoError
    BY <1>1, <1>2, <2>2 DEF FetchResult
  <2>3. QED
    BY <2>1, <2>2
<1>4. ASSUME result = NoFetch PROVE FALSE
  <2>1. result.class = "none"
    BY <1>4 DEF NoFetch, Fetched
  <2>2. QED
    BY <1>3, <2>1 DEF Classes
<1>5. QED
  BY <1>3, <1>4

LEMMA IndicatorsAre == "unasked" \notin Indicators
BY DEF Indicators, Indicator, Words, StatusPages

-----------------------------------------------------------------------------
(* What each part of verdict.Decide says, and of which input. *)

Says(d, verdict, layer, key) ==
    /\ d.verdict = verdict
    /\ d.reason = <<layer, key>>
    /\ d.also = {}
    /\ d.confidence \in Confidences

LEMMA GiveSays ==
    ASSUME NEW v, NEW c \in Confidences, NEW layer, NEW key
    PROVE  Says(Give(v, c, layer, key), v, layer, key)
BY DEF Says, Give

LEMMA NothingSays == Nothing.verdict = ""
BY DEF Nothing, Give

LEMMA UnclearSays == Says(Unclear, "INCONCLUSIVE", "", "inconclusive")
BY GiveSays DEF Unclear, Confidences

LEMMA OutageSays ==
    ASSUME NEW o
    PROVE  Says(OutageDecision(o), "UPSTREAM_OUTAGE", "outage", "confirmed")
BY GiveSays DEF OutageDecision, Confidences

LEMMA LocalSays ==
    ASSUME NEW in
    PROVE  \/ LocalDecision(in) = Nothing
           \/ /\ ~AnyWorking(in.tcp)
              /\ DownReason(in.local) # ""
              /\ Says(LocalDecision(in), "LOCAL_NETWORK_DOWN", "local", DownReason(in.local))
BY GiveSays DEF LocalDecision, Confidences

LEMMA DnsSays ==
    ASSUME NEW in
    PROVE  \/ /\ Poisoned(in.dns) \/ Mismatch(in)
              /\ in.intercepted \/ in.dns.injectedPublic
              /\ Says(DnsDecision(in), "DNS_INTERCEPTED", "dns", "intercepted")
           \/ /\ Poisoned(in.dns) \/ Mismatch(in)
              /\ ~(in.intercepted \/ in.dns.injectedPublic)
              /\ \E key : Says(DnsDecision(in), "DNS_POISONED", "dns", key)
           \/ /\ ~Poisoned(in.dns) /\ ~Mismatch(in)
              /\ in.dns.systemFailure # ""
              /\ \E key : Says(DnsDecision(in), "DNS_POISONED", "dns", key)
           \/ /\ ~Poisoned(in.dns) /\ ~Mismatch(in)
              /\ in.dns.systemFailure = ""
              /\ DnsDecision(in) = Nothing
BY GiveSays DEF DnsDecision, Confidences

LEMMA TcpSays ==
    ASSUME NEW in, NEW d, d = TcpDecision(in)
    PROVE  \/ AnyRejected(in.tcp) /\ Says(d, "CONNECTION_RESET", "tcp", "reset")
           \/ /\ ~AnyRejected(in.tcp) /\ AllAre(in.tcp, "timeout")
              /\ Says(d, "IP_BLOCKED", "tcp", "timeout")
           \/ /\ ~AnyRejected(in.tcp) /\ AllAre(in.tcp, "unreachable")
              /\ Says(d, "IP_BLOCKED", "tcp", "unreachable")
           \/ /\ ~AnyRejected(in.tcp)
              /\ ~AllAre(in.tcp, "timeout")
              /\ ~AllAre(in.tcp, "unreachable")
              /\ Says(d, "INCONCLUSIVE", "", "inconclusive")
BY GiveSays, UnclearSays DEF TcpDecision, Confidences

LEMMA HandshakeSays ==
    ASSUME NEW shakes, NEW d, d = HandshakeDecision(shakes)
    PROVE  \/ SNIFiltered(shakes) /\ Says(d, "SNI_FILTERED", "tls", "sni")
           \/ Blocked(shakes.real) /\ Says(d, "IP_BLOCKED", "tls", "timeout")
           \/ Blocked(shakes.real) /\ Says(d, "CONNECTION_RESET", "tls", "reset")
           \/ shakes.real.outcome = "alert" /\ Says(d, "INCONCLUSIVE", "tls", "alert")
           \/ shakes.real.outcome = "failed" /\ Says(d, "INCONCLUSIVE", "", "inconclusive")
           \/ ~Blocked(shakes.real) /\ shakes.real.outcome \notin {"alert", "failed"} /\ d = Nothing
BY GiveSays, UnclearSays DEF HandshakeDecision, SNIFiltered, Blocked, Confidences

LEMMA SilentSays ==
    ASSUME NEW in, NEW d, d = SilentDecision(in)
    PROVE  \/ in.dropped /\ Says(d, "DNS_INTERCEPTED", "dns", "dropped")
           \/ /\ ~in.dropped /\ in.dns.unresolvable /\ Confirmed(in.outage)
              /\ Says(d, "UPSTREAM_OUTAGE", "outage", "confirmed")
           \/ ~in.dropped /\ Says(d, "INCONCLUSIVE", "dns", "unresolvable")
           \/ ~in.dropped /\ Says(d, "INCONCLUSIVE", "", "inconclusive")
BY GiveSays, UnclearSays, OutageSays DEF SilentDecision, Confidences

LEMMA HttpSays ==
    ASSUME NEW in, NEW d, d = HttpDecision(in)
    PROVE  \/ in.http.class = "none" /\ Says(d, "OK", "ok", "tls")
           \/ in.http.class = "geo_block" /\ Says(d, "PROVIDER_GEO_BLOCK", "http", "geo_block")
           \/ in.http.class = "legal" /\ Says(d, "PROVIDER_GEO_BLOCK", "http", "451")
           \/ /\ in.http.class \in {"server_error", "failed"} /\ Confirmed(in.outage)
              /\ Says(d, "UPSTREAM_OUTAGE", "outage", "confirmed")
           \/ in.http.class = "server_error" /\ Says(d, "UPSTREAM_OUTAGE", "http", "5xx")
           \/ in.http.class = "failed" /\ Says(d, "CONNECTION_RESET", "http", "reset")
           \/ /\ in.http.class = "failed"
              /\ in.http.err # "reset" /\ ~Confirmed(in.outage)
              /\ Says(d, "INCONCLUSIVE", "http", in.http.err)
           \/ /\ in.http.class \notin {"none", "geo_block", "legal", "server_error", "failed"}
              /\ d = Nothing
<1>1. CASE in.http.class = "failed"
  BY <1>1, GiveSays, OutageSays DEF HttpDecision, FailedDecision, Confidences
<1>2. CASE in.http.class # "failed"
  BY <1>2, GiveSays, OutageSays DEF HttpDecision, Confidences
<1>3. QED
  BY <1>1, <1>2

\* Saying something is not saying nothing.
LEMMA SaysSomething ==
    ASSUME NEW d, d.verdict # ""
    PROVE  d # Nothing
BY NothingSays

\* What the certificate and the response of a completed handshake amount to.
LEMMA ServiceSays ==
    ASSUME NEW in, NEW d, d = Service(in), in.tls.real \in RealShakes
    PROVE  \/ in.http.class = "block_page" /\ Says(d, "BLOCK_PAGE", "http", "block_page")
           \/ in.tls.real.outcome = "cert_invalid" /\ Says(d, "TLS_INTERCEPTED", "tls", "untrusted")
           \/ in.tls.real.inspected /\ Says(d, "TLS_INTERCEPTED", "tls", "middlebox")
           \/ /\ in.http.class # "block_page"
              /\ in.tls.real.outcome # "cert_invalid"
              /\ ~in.tls.real.inspected
              /\ \/ d = HttpDecision(in) /\ d # Nothing
                 \/ /\ HttpDecision(in) = Nothing
                    /\ in.speed \in {"throughput", "handshake"}
                    /\ Says(d, "THROTTLED", "speed", in.speed)
                 \/ /\ HttpDecision(in) = Nothing
                    /\ in.speed \notin {"throughput", "handshake"}
                    /\ Says(d, "OK", "ok", "http")
<1> DEFINE page == BlockPageDecision(in.http)
           cert == CertificateDecision(in.tls.real)
<1>1. \/ in.http.class = "block_page" /\ Says(page, "BLOCK_PAGE", "http", "block_page")
      \/ in.http.class # "block_page" /\ page = Nothing
  BY GiveSays DEF BlockPageDecision, Confidences
<1>2. CertConfidence(in.tls.real.cert) \in Confidences
  BY DEF CertConfidence, Confidences
<1>3. \/ in.tls.real.outcome = "cert_invalid" /\ Says(cert, "TLS_INTERCEPTED", "tls", "untrusted")
      \/ in.tls.real.inspected /\ Says(cert, "TLS_INTERCEPTED", "tls", "middlebox")
      \/ in.tls.real.outcome # "cert_invalid" /\ ~in.tls.real.inspected /\ cert = Nothing
  BY <1>2, GiveSays, RealShakeFacts DEF CertificateDecision, Confidences
<1>4. \/ in.speed \in {"throughput", "handshake"}
           /\ Says(SpeedDecision(in.speed), "THROTTLED", "speed", in.speed)
      \/ in.speed \notin {"throughput", "handshake"}
           /\ Says(SpeedDecision(in.speed), "OK", "ok", "http")
  BY GiveSays DEF SpeedDecision, Confidences
<1>5. d = FirstOf(page, FirstOf(cert, FirstOf(HttpDecision(in), SpeedDecision(in.speed))))
  BY DEF Service
<1>6. /\ Says(page, "BLOCK_PAGE", "http", "block_page") => page # Nothing
      /\ \A key : Says(cert, "TLS_INTERCEPTED", "tls", key) => cert # Nothing
  BY NothingSays DEF Says
<1> HIDE DEF page, cert
<1>7. QED
  BY <1>1, <1>3, <1>4, <1>5, <1>6 DEF FirstOf

\* The path's decision, by how far the layers came.
LEMMA PathSays ==
    ASSUME NEW in, NEW d, d = PathDecision(in), in.tls.real \in RealShakes \cup {NoShake}
    PROVE  \/ in.tcp = <<>> /\ d = Nothing
           \/ in.tcp # <<>> /\ ~AnyWorking(in.tcp) /\ d = TcpDecision(in)
           \/ in.tls.real = NoShake /\ Says(d, "OK", "ok", "tls") /\ AnyWorking(in.tcp)
           \/ /\ AnyWorking(in.tcp)
              /\ in.tls.real \in RealShakes
              /\ \/ d = HandshakeDecision(in.tls) /\ d # Nothing
                 \/ HandshakeDecision(in.tls) = Nothing /\ d = Service(in)
BY GiveSays DEF PathDecision, FirstOf, Confidences

-----------------------------------------------------------------------------
(* The invariant, action by action. *)

LEMMA ProbeCountType ==
    ASSUME NEW r \in Result
    PROVE  ProbeCount(Analyze(r).reference) \in 0..MaxAddrs
<1>1. Analyze(r).reference \subseteq Addr
  BY AnalyzeExcludes
<1>2. Cardinality(Analyze(r).reference) \in Nat
  BY <1>1, FS_Subset, FS_CardinalityType, TargetAssumption
<1>3. QED
  BY <1>2, TargetAssumption DEF ProbeCount

LEMMA NoAnswersType == NoAnswers \in Result
BY DEF NoAnswers, Result, MaybeAnswer

\* The counts are numbers.
LEMMA BeyondType == Beyond \in Nat
BY DEF Beyond, One

LEMMA EndedCount ==
    ASSUME TypeOK
    PROVE  /\ IsFiniteSet(Ended)
           /\ Cardinality(Ended) \in 0..Len(tcp)
<1>1. DOMAIN tcp = 1..Len(tcp) /\ Len(tcp) \in Nat
  BY DEF TypeOK
<1>2. /\ IsFiniteSet(1..Len(tcp))
      /\ Cardinality(1..Len(tcp)) = IF 1 > Len(tcp) THEN 0 ELSE Len(tcp) - 1 + 1
  BY <1>1, FS_Interval
<1>3. Ended \subseteq 1..Len(tcp)
  BY <1>1 DEF Ended
<1>4. /\ IsFiniteSet(Ended)
      /\ Cardinality(Ended) <= Cardinality(1..Len(tcp))
  BY <1>2, <1>3, FS_Subset
<1>5. QED
  BY <1>1, <1>2, <1>4, FS_CardinalityType

LEMMA InitKeeps == Init => MeasuredInOrder
<1> SUFFICES ASSUME Init PROVE MeasuredInOrder
  OBVIOUS
<1>1. TypeOK
  <2>1. /\ dns \in Result /\ analysis = Analyze(dns)
        /\ local \in LocalResults \cup {NoLocal}
    BY NoAnswersType DEF Init
  <2>2. tcp \in Seq(TcpOutcomes \cup {Pending})
    BY DEF Init
  <2>3. tls \in Handshakes
    BY DEF Init, NoTLS, Handshakes, Retryable
  <2>4. QED
    BY <2>1, <2>2, <2>3 DEF Init, TypeOK, Steps, Decided, Interceptions
<1>2. ConnectInOrder
  BY DEF Init, ConnectInOrder, AnyWorking
<1>3. ShakeInOrder
  BY NotRunning, ShakeFields DEF Init, ShakeInOrder, BeforeShake, NoTLS, Blocked, NoShake
<1>4. FetchInOrder
  BY DEF Init, FetchInOrder, BeforeFetch, BeforeShake
<1>5. JudgedInOrder
  <2>1. analysis.suspects = {}
    BY DEF Init, NoAnswers, Analyze, Suspects, OK, Absent
  <2>2. QED
    BY <2>1 DEF Init, JudgedInOrder, Decided
<1>6. ConnectionsCounted
  <2>1. Ended = {}
    BY DEF Init, Ended
  <2>2. QED
    BY <2>1, FS_EmptySet DEF Init, ConnectionsCounted, Beyond, One, NoTLS
<1>7. QED
  BY <1>1, <1>2, <1>3, <1>4, <1>5, <1>6 DEF MeasuredInOrder

LEMMA ResolveKeeps == MeasuredInOrder /\ Resolve => MeasuredInOrder'
<1> SUFFICES ASSUME MeasuredInOrder, Resolve PROVE MeasuredInOrder'
  OBVIOUS
<1>1. PICK r \in Lookups : dns' = r /\ analysis' = Analyze(r)
  BY DEF Resolve
<1>2. r \in Result
  BY TargetAssumption
<1> DEFINE n == ProbeCount(analysis'.reference)
<1>3. n \in 0..MaxAddrs
  BY <1>1, <1>2, ProbeCountType
<1>4. tcp' = [i \in 1..n |-> Pending] /\ Len(tcp') = n /\ tcp' \in Seq(TcpOutcomes \cup {Pending})
  BY <1>3 DEF Resolve
<1>5. step = "resolve" /\ step' = "connect" /\ tls = NoTLS /\ http = NoFetch /\ speed = <<>>
  BY DEF Resolve, MeasuredInOrder, ShakeInOrder, FetchInOrder, BeforeFetch, BeforeShake
<1> HIDE DEF n
<1>6. TypeOK'
  BY <1>1, <1>2, <1>3, <1>4, <1>5, TargetAssumption
  DEF MeasuredInOrder, TypeOK, Resolve, Steps, Decided, layerVars, runWide
<1>7. ConnectInOrder'
  BY <1>4, <1>5 DEF Resolve, ConnectInOrder, n
<1>8. ShakeInOrder'
  BY <1>5 DEF MeasuredInOrder, Resolve, ShakeInOrder, BeforeShake, NoTLS
<1>9. FetchInOrder'
  BY <1>5 DEF MeasuredInOrder, Resolve, FetchInOrder, BeforeFetch, BeforeShake
<1>10. JudgedInOrder'
  BY <1>5, NotRunning DEF MeasuredInOrder, Resolve, JudgedInOrder, Decided
<1>11. ConnectionsCounted'
  <2>1. Ended' = {}
    BY <1>4 DEF Ended
  <2>2. Ended = {}
    BY <1>5 DEF MeasuredInOrder, ConnectInOrder, Ended
  <2>3. verify' \in {NoShake, Running} /\ verify \in {NoShake, Running}
    BY <1>5 DEF Resolve, MeasuredInOrder, JudgedInOrder
  <2>4. QED
    BY <2>1, <2>2, <2>3 DEF Resolve, MeasuredInOrder, ConnectionsCounted, Beyond
<1>12. QED
  BY <1>6, <1>7, <1>8, <1>9, <1>10, <1>11 DEF MeasuredInOrder

LEMMA VerifyEndsKeeps == MeasuredInOrder /\ VerifyEnds => MeasuredInOrder'
<1> SUFFICES ASSUME MeasuredInOrder, VerifyEnds PROVE MeasuredInOrder'
  OBVIOUS
<1>1. /\ verify = Running
      /\ verify' \in RealShakes /\ verify' # NoShake /\ verify' # Running
      /\ dialed' = dialed + 1
  BY RealShakeFacts DEF VerifyEnds
<1>2. UNCHANGED <<step, dns, analysis, control, tcp, tls, http, speed, outage,
                  local, intercepted, decision>>
  BY DEF VerifyEnds, layerVars, runWide
<1>3. step \notin {"status", "decide", "done"}
  BY <1>1 DEF MeasuredInOrder, JudgedInOrder
<1>4. TypeOK'
  BY <1>1, <1>2 DEF MeasuredInOrder, TypeOK, Decided
<1>5. ConnectInOrder' /\ ShakeInOrder' /\ FetchInOrder'
  BY <1>2 DEF MeasuredInOrder, ConnectInOrder, ShakeInOrder, FetchInOrder
<1>6. JudgedInOrder'
  BY <1>1, <1>2, <1>3, NotRunning DEF MeasuredInOrder, JudgedInOrder, Decided, PathCleanButFailing
<1>7. ConnectionsCounted'
  <2>1. Ended' = Ended /\ Beyond' = Beyond + 1
    BY <1>1, <1>2 DEF Ended, Beyond, One
  <2>2. QED
    BY <1>1, <2>1, EndedCount, BeyondType DEF MeasuredInOrder, ConnectionsCounted
<1>8. QED
  BY <1>4, <1>5, <1>6, <1>7 DEF MeasuredInOrder

LEMMA ConnectKeeps == MeasuredInOrder /\ (\E i \in DOMAIN tcp : Connect(i)) => MeasuredInOrder'
<1> SUFFICES ASSUME MeasuredInOrder, NEW i \in DOMAIN tcp, Connect(i) PROVE MeasuredInOrder'
  OBVIOUS
<1>1. PICK o \in TcpOutcomes : tcp' = [tcp EXCEPT ![i] = o]
  BY DEF Connect
<1>2. step = "connect" /\ tcp[i] = Pending /\ dialed' = dialed + 1
  BY DEF Connect
<1>3. UNCHANGED <<step, dns, analysis, control, verify, tls, http, speed, outage,
                  local, intercepted, decision>>
  BY DEF Connect, runWide
<1>4. /\ tcp \in Seq(TcpOutcomes \cup {Pending}) /\ tcp' \in Seq(TcpOutcomes \cup {Pending})
      /\ Len(tcp') = Len(tcp) /\ Len(tcp) \in Nat
      /\ DOMAIN tcp = 1..Len(tcp) /\ DOMAIN tcp' = DOMAIN tcp
  BY <1>1 DEF MeasuredInOrder, TypeOK
<1>5. TypeOK'
  BY <1>2, <1>3, <1>4 DEF MeasuredInOrder, TypeOK, Decided
<1>6. ConnectInOrder'
  BY <1>2, <1>3, <1>4 DEF MeasuredInOrder, ConnectInOrder
<1>7. ShakeInOrder'
  BY <1>2, <1>3 DEF MeasuredInOrder, ShakeInOrder, BeforeShake
<1>8. FetchInOrder'
  BY <1>2, <1>3 DEF MeasuredInOrder, FetchInOrder
<1>9. JudgedInOrder'
  BY <1>2, <1>3 DEF MeasuredInOrder, JudgedInOrder, Decided, PathCleanButFailing
<1>10. ConnectionsCounted'
  <2>1. Ended' = Ended \cup {i}
    BY <1>1, <1>4, PendingIsNoOutcome DEF Ended
  <2>2. i \notin Ended
    BY <1>2 DEF Ended
  <2>3. IsFiniteSet(Ended) /\ Cardinality(Ended) \in Nat
    BY EndedCount DEF MeasuredInOrder
  <2>4. Cardinality(Ended') = Cardinality(Ended) + 1
    BY <2>1, <2>2, <2>3, FS_AddElement
  <2>5. Beyond' = Beyond
    BY <1>3 DEF Beyond
  <2>6. QED
    BY <1>2, <2>3, <2>4, <2>5, BeyondType DEF MeasuredInOrder, ConnectionsCounted
<1>11. QED
  BY <1>5, <1>6, <1>7, <1>8, <1>9, <1>10 DEF MeasuredInOrder

LEMMA ConnectedKeeps == MeasuredInOrder /\ Connected => MeasuredInOrder'
<1> SUFFICES ASSUME MeasuredInOrder, Connected PROVE MeasuredInOrder'
  OBVIOUS
<1>1. /\ step = "connect" /\ \A i \in DOMAIN tcp : tcp[i] # Pending
      /\ step' \in {"handshake", "join"}
      /\ step' = "handshake" <=> AnyWorking(tcp)
  BY DEF Connected
<1>2. UNCHANGED <<dns, analysis, control, verify, tcp, tls, http, speed, outage,
                  local, intercepted, decision, dialed>>
  BY DEF Connected, layerVars, runWide
<1>3. tls = NoTLS /\ http = NoFetch /\ speed = <<>>
  BY <1>1 DEF MeasuredInOrder, ShakeInOrder, FetchInOrder, BeforeFetch, BeforeShake
<1>4. ~Blocked(NoShake) /\ ~FetchesOver(NoShake)
  BY ShakeFields DEF NoShake, Blocked, FetchesOver
<1>5. TypeOK'
  BY <1>1, <1>2 DEF MeasuredInOrder, TypeOK, Steps, Decided
<1>6. ConnectInOrder'
  BY <1>1, <1>2 DEF MeasuredInOrder, ConnectInOrder, AnyWorking
<1>7. ShakeInOrder'
  BY <1>1, <1>2, <1>3, <1>4, NotRunning DEF ShakeInOrder, BeforeShake, NoTLS, AnyWorking
<1>8. FetchInOrder'
  BY <1>1, <1>2, <1>3, <1>4 DEF FetchInOrder, BeforeFetch, BeforeShake, NoTLS
<1>9. JudgedInOrder'
  BY <1>1, <1>2 DEF MeasuredInOrder, JudgedInOrder, Decided
<1>10. ConnectionsCounted'
  BY <1>2 DEF MeasuredInOrder, ConnectionsCounted, Ended, Beyond
<1>11. QED
  BY <1>5, <1>6, <1>7, <1>8, <1>9, <1>10 DEF MeasuredInOrder

LEMMA HandshakeKeeps == MeasuredInOrder /\ Handshake => MeasuredInOrder'
<1> SUFFICES ASSUME MeasuredInOrder, Handshake PROVE MeasuredInOrder'
  OBVIOUS
<1>1. PICK h \in RealShakes :
        /\ tls' = IF Retries(h) THEN [real |-> h, neutral |-> Running, noSNI |-> Running]
                  ELSE [NoTLS EXCEPT !.real = h]
        /\ step' = IF Retries(h) THEN "retry"
                   ELSE IF FetchesOver(h) THEN "fetch" ELSE "join"
  BY DEF Handshake
<1>2. step = "handshake" /\ dialed' = dialed + 1
  BY DEF Handshake
<1>3. UNCHANGED <<dns, analysis, control, verify, tcp, http, speed, outage,
                  local, intercepted, decision>>
  BY DEF Handshake, runWide
<1>4. tls = NoTLS /\ http = NoFetch /\ speed = <<>> /\ AnyWorking(tcp)
  BY <1>2 DEF MeasuredInOrder, ConnectInOrder, ShakeInOrder, FetchInOrder, BeforeFetch, BeforeShake
<1>5. h # NoShake
  BY RealShakeFacts
<1>6. \/ /\ Blocked(h) /\ step' = "retry"
         /\ tls' = [real |-> h, neutral |-> Running, noSNI |-> Running]
      \/ /\ ~Blocked(h) /\ step' \in {"fetch", "join"} /\ (step' = "fetch" <=> FetchesOver(h))
         /\ tls' = [real |-> h, neutral |-> NoShake, noSNI |-> NoShake]
  BY <1>1 DEF Retries, NoTLS
<1>7. TypeOK'
  <2>1. tls' \in Handshakes
    BY <1>6 DEF Handshakes, Retryable
  <2>2. QED
    BY <1>2, <1>3, <1>6, <2>1 DEF MeasuredInOrder, TypeOK, Steps, Decided
<1>8. ConnectInOrder'
  BY <1>2, <1>3, <1>6 DEF MeasuredInOrder, ConnectInOrder
<1>9. ShakeInOrder'
  BY <1>3, <1>4, <1>5, <1>6, NotRunning DEF ShakeInOrder, BeforeShake, AnyWorking
<1>10. FetchInOrder'
  BY <1>3, <1>4, <1>6 DEF FetchInOrder, BeforeFetch, BeforeShake
<1>11. JudgedInOrder'
  BY <1>2, <1>3, <1>6 DEF MeasuredInOrder, JudgedInOrder, Decided
<1>12. ConnectionsCounted'
  <2>1. Ended' = Ended
    BY <1>3 DEF Ended
  <2>2. Beyond' = Beyond + 1
    BY <1>3, <1>4, <1>5, <1>6 DEF Beyond, One, NoTLS
  <2>3. QED
    BY <1>2, <2>1, <2>2, EndedCount, BeyondType DEF MeasuredInOrder, ConnectionsCounted
<1>13. QED
  BY <1>7, <1>8, <1>9, <1>10, <1>11, <1>12 DEF MeasuredInOrder

LEMMA RetryKeeps ==
    MeasuredInOrder /\ (\E name \in {"neutral", "noSNI"} : Retry(name)) => MeasuredInOrder'
<1> SUFFICES ASSUME MeasuredInOrder, NEW name \in {"neutral", "noSNI"}, Retry(name)
             PROVE  MeasuredInOrder'
  OBVIOUS
<1>1. PICK o \in Unnamed : tls' = [tls EXCEPT ![name] = Shake(o)]
  BY DEF Retry
<1>2. step = "retry" /\ tls[name] = Running /\ dialed' = dialed + 1
  BY DEF Retry
<1>3. UNCHANGED <<step, dns, analysis, control, verify, tcp, http, speed, outage,
                  local, intercepted, decision>>
  BY DEF Retry, runWide
<1>4. Shake(o) # NoShake /\ Shake(o) # Running
  BY UnnamedShakes
<1>5. tls \in Handshakes
  BY DEF MeasuredInOrder, TypeOK
<1>6. \/ /\ tls.neutral = Running /\ tls'.neutral = Shake(o)
         /\ UNCHANGED <<tls.real, tls.noSNI>>
      \/ /\ tls.noSNI = Running /\ tls'.noSNI = Shake(o)
         /\ UNCHANGED <<tls.real, tls.neutral>>
  BY <1>1, <1>2, <1>5 DEF Handshakes
<1>7. tls' \in Handshakes
  BY <1>1, <1>5 DEF Handshakes, Retryable
<1>8. TypeOK'
  BY <1>2, <1>3, <1>7 DEF MeasuredInOrder, TypeOK, Decided
<1>9. ConnectInOrder' /\ FetchInOrder' /\ JudgedInOrder'
  BY <1>2, <1>3, <1>6 DEF MeasuredInOrder, ConnectInOrder, FetchInOrder, JudgedInOrder, Decided,
                     BeforeFetch, BeforeShake, PathCleanButFailing
<1>10. ShakeInOrder'
  BY <1>2, <1>3, <1>4, <1>6, NotRunning DEF MeasuredInOrder, ShakeInOrder, BeforeShake
<1>11. ConnectionsCounted'
  <2>1. Ended' = Ended
    BY <1>3 DEF Ended
  <2>2. Beyond' = Beyond + 1
    BY <1>3, <1>4, <1>6 DEF Beyond, One
  <2>3. QED
    BY <1>2, <2>1, <2>2, EndedCount, BeyondType DEF MeasuredInOrder, ConnectionsCounted
<1>12. QED
  BY <1>8, <1>9, <1>10, <1>11 DEF MeasuredInOrder

LEMMA RetriedKeeps == MeasuredInOrder /\ Retried => MeasuredInOrder'
<1> SUFFICES ASSUME MeasuredInOrder, Retried PROVE MeasuredInOrder'
  OBVIOUS
<1>1. /\ step = "retry" /\ step' = "join"
      /\ tls.neutral # Running /\ tls.noSNI # Running
  BY DEF Retried
<1>2. UNCHANGED <<dns, analysis, control, verify, tcp, tls, http, speed, outage,
                  local, intercepted, decision, dialed>>
  BY DEF Retried, layerVars, runWide
<1>3. http = NoFetch /\ speed = <<>> /\ Blocked(tls.real)
  BY <1>1 DEF MeasuredInOrder, ShakeInOrder, FetchInOrder, BeforeFetch, BeforeShake
<1>4. TypeOK'
  BY <1>1, <1>2 DEF MeasuredInOrder, TypeOK, Steps, Decided
<1>5. ConnectInOrder'
  BY <1>1, <1>2 DEF MeasuredInOrder, ConnectInOrder
<1>6. ShakeInOrder'
  BY <1>1, <1>2 DEF MeasuredInOrder, ShakeInOrder, BeforeShake, AnyWorking
<1>7. FetchInOrder'
  BY <1>1, <1>2, <1>3 DEF FetchInOrder, BeforeFetch, BeforeShake, Blocked, FetchesOver
<1>8. JudgedInOrder'
  BY <1>1, <1>2 DEF MeasuredInOrder, JudgedInOrder, Decided
<1>9. ConnectionsCounted'
  BY <1>2 DEF MeasuredInOrder, ConnectionsCounted, Ended, Beyond
<1>10. QED
  BY <1>4, <1>5, <1>6, <1>7, <1>8, <1>9 DEF MeasuredInOrder

LEMMA FetchKeeps == MeasuredInOrder /\ Fetch => MeasuredInOrder'
<1> SUFFICES ASSUME MeasuredInOrder, Fetch PROVE MeasuredInOrder'
  OBVIOUS
<1>1. /\ step = "fetch" /\ http' \in Fetches /\ dialed' = dialed + 1
      /\ \/ step' = "download" /\ http'.class = "ok" /\ Throttling
         \/ step' = "join"
  BY DEF Fetch
<1>2. UNCHANGED <<dns, analysis, control, verify, tcp, tls, speed, outage,
                  local, intercepted, decision>>
  BY DEF Fetch, runWide
<1>3. http = NoFetch /\ speed = <<>> /\ FetchesOver(tls.real) /\ http' # NoFetch
  BY <1>1, FetchFacts DEF MeasuredInOrder, FetchInOrder, BeforeFetch
<1>4. TypeOK'
  BY <1>1, <1>2 DEF MeasuredInOrder, TypeOK, Steps, Decided
<1>5. ConnectInOrder'
  BY <1>1, <1>2 DEF MeasuredInOrder, ConnectInOrder
<1>6. ShakeInOrder'
  BY <1>1, <1>2 DEF MeasuredInOrder, ShakeInOrder, BeforeShake, AnyWorking
<1>7. FetchInOrder'
  BY <1>1, <1>2, <1>3 DEF FetchInOrder, BeforeFetch, BeforeShake
<1>8. JudgedInOrder'
  BY <1>1, <1>2 DEF MeasuredInOrder, JudgedInOrder, Decided
<1>9. ConnectionsCounted'
  <2>1. Ended' = Ended
    BY <1>2 DEF Ended
  <2>2. Beyond' = Beyond + 1
    BY <1>2, <1>3 DEF Beyond, One
  <2>3. QED
    BY <1>1, <2>1, <2>2, EndedCount, BeyondType DEF MeasuredInOrder, ConnectionsCounted
<1>10. QED
  BY <1>4, <1>5, <1>6, <1>7, <1>8, <1>9 DEF MeasuredInOrder

LEMMA MeasureSpeedKeeps == MeasuredInOrder /\ MeasureSpeed => MeasuredInOrder'
<1> SUFFICES ASSUME MeasuredInOrder, MeasureSpeed PROVE MeasuredInOrder'
  OBVIOUS
<1>1. /\ step = "download" /\ step' = "join" /\ dialed' = dialed + 1
      /\ speed' \in Downloads \X Baselines
  BY DEF MeasureSpeed
<1>2. UNCHANGED <<dns, analysis, control, verify, tcp, tls, http, outage,
                  local, intercepted, decision>>
  BY DEF MeasureSpeed, runWide
<1>3. /\ http.class = "ok" /\ speed = <<>> /\ speed' # <<>> /\ Throttling
      /\ http # NoFetch <=> FetchesOver(tls.real)
  <2>1. step = "download" /\ step \notin BeforeFetch
    BY <1>1 DEF BeforeFetch, BeforeShake
  <2>2. FetchInOrder
    BY DEF MeasuredInOrder
  <2>3. /\ http.class = "ok" /\ speed = <<>> /\ Throttling
        /\ http # NoFetch <=> FetchesOver(tls.real)
    BY <2>1, <2>2 DEF FetchInOrder
  <2>4. speed' # <<>>
    BY <1>1
  <2>5. QED
    BY <2>3, <2>4
<1>4. TypeOK'
  BY <1>1, <1>2 DEF MeasuredInOrder, TypeOK, Steps, Decided
<1>5. ConnectInOrder'
  BY <1>1, <1>2 DEF MeasuredInOrder, ConnectInOrder
<1>6. ShakeInOrder'
  BY <1>1, <1>2 DEF MeasuredInOrder, ShakeInOrder, BeforeShake, AnyWorking
<1>7. FetchInOrder'
  BY <1>1, <1>2, <1>3 DEF FetchInOrder, BeforeFetch, BeforeShake
<1>8. JudgedInOrder'
  BY <1>1, <1>2 DEF MeasuredInOrder, JudgedInOrder, Decided
<1>9. ConnectionsCounted'
  <2>1. Ended' = Ended
    BY <1>2 DEF Ended
  <2>2. Beyond' = Beyond + 1
    BY <1>2, <1>3 DEF Beyond, One
  <2>3. QED
    BY <1>1, <2>1, <2>2, EndedCount, BeyondType DEF MeasuredInOrder, ConnectionsCounted
<1>10. QED
  BY <1>4, <1>5, <1>6, <1>7, <1>8, <1>9 DEF MeasuredInOrder

LEMMA JoinKeeps == MeasuredInOrder /\ Join => MeasuredInOrder'
<1> SUFFICES ASSUME MeasuredInOrder, Join PROVE MeasuredInOrder'
  OBVIOUS
<1>1. /\ step = "join" /\ verify # Running
      /\ step' \in {"status", "decide"}
      /\ step' = "status" => PathCleanButFailing
  BY DEF Join
<1>2. UNCHANGED <<dns, analysis, control, verify, tcp, tls, http, speed, outage,
                  local, intercepted, decision, dialed>>
  BY DEF Join, layerVars, runWide
<1>3. TypeOK'
  BY <1>1, <1>2 DEF MeasuredInOrder, TypeOK, Steps, Decided
<1>4. ConnectInOrder'
  BY <1>1, <1>2 DEF MeasuredInOrder, ConnectInOrder
<1>5. ShakeInOrder'
  BY <1>1, <1>2 DEF MeasuredInOrder, ShakeInOrder, BeforeShake, AnyWorking
<1>6. FetchInOrder'
  BY <1>1, <1>2 DEF MeasuredInOrder, FetchInOrder, BeforeFetch, BeforeShake
<1>7. JudgedInOrder'
  BY <1>1, <1>2 DEF MeasuredInOrder, JudgedInOrder, Decided, PathCleanButFailing
<1>8. ConnectionsCounted'
  BY <1>2 DEF MeasuredInOrder, ConnectionsCounted, Ended, Beyond
<1>9. QED
  BY <1>3, <1>4, <1>5, <1>6, <1>7, <1>8 DEF MeasuredInOrder

LEMMA AskStatusKeeps == MeasuredInOrder /\ AskStatus => MeasuredInOrder'
<1> SUFFICES ASSUME MeasuredInOrder, AskStatus PROVE MeasuredInOrder'
  OBVIOUS
<1>1. step = "status" /\ step' = "decide" /\ outage' \in Indicators
  BY DEF AskStatus
<1>2. UNCHANGED <<dns, analysis, control, verify, tcp, tls, http, speed,
                  local, intercepted, decision, dialed>>
  BY DEF AskStatus, runWide
<1>3. TypeOK'
  BY <1>1, <1>2 DEF MeasuredInOrder, TypeOK, Steps, Decided
<1>4. ConnectInOrder'
  BY <1>1, <1>2 DEF MeasuredInOrder, ConnectInOrder
<1>5. ShakeInOrder'
  BY <1>1, <1>2 DEF MeasuredInOrder, ShakeInOrder, BeforeShake, AnyWorking
<1>6. FetchInOrder'
  BY <1>1, <1>2 DEF MeasuredInOrder, FetchInOrder, BeforeFetch, BeforeShake
<1>7. JudgedInOrder'
  BY <1>1, <1>2 DEF MeasuredInOrder, JudgedInOrder, Decided, PathCleanButFailing
<1>8. ConnectionsCounted'
  BY <1>2 DEF MeasuredInOrder, ConnectionsCounted, Ended, Beyond
<1>9. QED
  BY <1>3, <1>4, <1>5, <1>6, <1>7, <1>8 DEF MeasuredInOrder

\* Every verdict is given with a confidence.
LEMMA DecideIsConfident ==
    ASSUME NEW in, in.tls.real \in RealShakes \cup {NoShake}
    PROVE  Decide(in).confidence \in Confidences
<1> DEFINE home == LocalDecision(in)
           path == PathDecision(in)
           names == DnsDecision(in)
           silent == SilentDecision(in)
<1>1. home = Nothing \/ home.confidence \in Confidences
  BY LocalSays DEF Says
<1>2. names = Nothing \/ names.confidence \in Confidences
  BY DEF names, DnsDecision, Give, Confidences
<1>3. silent.confidence \in Confidences
  BY SilentSays DEF Says
<1>4. path = Nothing \/ path.confidence \in Confidences
  <2>1. TcpDecision(in).confidence \in Confidences
    BY TcpSays DEF Says
  <2>2. HandshakeDecision(in.tls) = Nothing \/ HandshakeDecision(in.tls).confidence \in Confidences
    BY DEF HandshakeDecision, Unclear, Give, Confidences
  <2>3. HttpDecision(in) = Nothing \/ HttpDecision(in).confidence \in Confidences
    BY HttpSays DEF Says
  <2>4. in.tls.real \in RealShakes => Service(in).confidence \in Confidences
    BY <2>3, ServiceSays DEF Says
  <2>5. QED
    BY <2>1, <2>2, <2>4, PathSays DEF Says
<1>5. [path EXCEPT !.also = @ \cup {names.verdict}].confidence = path.confidence
  OBVIOUS
<1> HIDE DEF home, path, names, silent
<1>6. Combine(path, names, in).confidence \in Confidences
  BY <1>2, <1>3, <1>4, <1>5 DEF Combine, FirstOf, silent
<1>7. QED
  BY <1>1, <1>6 DEF Decide, FirstOf, home, path, names

LEMMA JudgeKeeps == MeasuredInOrder /\ Judge => MeasuredInOrder'
<1> SUFFICES ASSUME MeasuredInOrder, Judge PROVE MeasuredInOrder'
  OBVIOUS
<1>1. /\ step = "decide" /\ step' = "done"
      /\ local' \in LocalResults \cup {NoLocal}
      /\ intercepted' \in Interceptions
      /\ decision' = Decide(Input')
  BY TargetAssumption DEF Judge
<1>2. UNCHANGED <<dns, analysis, control, verify, tcp, tls, http, speed, outage, dialed>>
  BY DEF Judge, layerVars
<1>3. TypeOK'
  <2>1. tls'.real \in RealShakes \cup {NoShake}
    BY <1>2 DEF MeasuredInOrder, TypeOK, Handshakes
  <2>2. decision'.confidence \in Confidences
    <3>1. Input'.tls.real \in RealShakes \cup {NoShake}
      BY <2>1 DEF Input
    <3>2. QED
      BY <1>1, <3>1, DecideIsConfident
  <2>3. QED
    BY <1>1, <1>2, <2>2 DEF MeasuredInOrder, TypeOK, Steps, Decided
<1>4. ConnectInOrder'
  BY <1>1, <1>2 DEF MeasuredInOrder, ConnectInOrder
<1>5. ShakeInOrder'
  BY <1>1, <1>2 DEF MeasuredInOrder, ShakeInOrder, BeforeShake, AnyWorking
<1>6. FetchInOrder'
  BY <1>1, <1>2 DEF MeasuredInOrder, FetchInOrder, BeforeFetch, BeforeShake
<1>7. JudgedInOrder'
  BY <1>1, <1>2 DEF MeasuredInOrder, JudgedInOrder, Decided, PathCleanButFailing
<1>8. ConnectionsCounted'
  BY <1>2 DEF MeasuredInOrder, ConnectionsCounted, Ended, Beyond
<1>9. QED
  BY <1>3, <1>4, <1>5, <1>6, <1>7, <1>8 DEF MeasuredInOrder

LEMMA StutterKeeps == MeasuredInOrder /\ UNCHANGED vars => MeasuredInOrder'
BY DEF vars, layerVars, runWide, MeasuredInOrder, TypeOK, Decided, ConnectInOrder, ShakeInOrder,
       FetchInOrder, JudgedInOrder, PathCleanButFailing, Input, SpeedKind, AnyWorking,
       ConnectionsCounted, Ended, Beyond

LEMMA NextKeeps == MeasuredInOrder /\ [Next]_vars => MeasuredInOrder'
BY ResolveKeeps, VerifyEndsKeeps, ConnectKeeps, ConnectedKeeps, HandshakeKeeps, RetryKeeps,
   RetriedKeeps, FetchKeeps, MeasureSpeedKeeps, JoinKeeps, AskStatusKeeps, JudgeKeeps,
   StutterKeeps DEF Next

\* At every moment the layers have run in their order, each on what the one before it
\* found, and every connection made to the target has left its result.
THEOREM InductiveInvariant == Spec => []MeasuredInOrder
BY InitKeeps, NextKeeps, PTL DEF Spec

-----------------------------------------------------------------------------
(* What the invariant says of a target that is being judged. *)

LEMMA BudgetFollows == MeasuredInOrder => ConnectionBudget
<1> SUFFICES ASSUME MeasuredInOrder PROVE ConnectionBudget
  OBVIOUS
<1>1. Len(tcp) \in 0..MaxAddrs
  <2>1. CASE step = "resolve"
    BY <2>1, TargetAssumption DEF MeasuredInOrder, ConnectInOrder
  <2>2. CASE step # "resolve"
    BY <2>2, ProbeCountType DEF MeasuredInOrder, TypeOK, ConnectInOrder
  <2>3. QED
    BY <2>1, <2>2
<1>2. /\ Blocked(tls.real) => http = NoFetch /\ speed = <<>>
      /\ ~Blocked(tls.real) => tls.neutral = NoShake /\ tls.noSNI = NoShake
  <2>1. NoFetch.class # "ok"
    BY DEF NoFetch, Fetched
  <2>2. QED
    BY <2>1 DEF MeasuredInOrder, ShakeInOrder, FetchInOrder, Blocked, FetchesOver
<1>3. Beyond <= 4
  BY <1>2 DEF Beyond, One
<1>4. ~Blocked(tls.real) =>
        Beyond <= 2 + (IF speed = <<>> THEN 0 ELSE 1) + (IF verify = NoShake THEN 0 ELSE 1)
  BY <1>2 DEF Beyond, One
<1>5. dialed = Cardinality(Ended) + Beyond /\ Cardinality(Ended) \in 0..Len(tcp)
  BY EndedCount DEF MeasuredInOrder, ConnectionsCounted
<1>6. QED
  BY <1>1, <1>3, <1>4, <1>5, BeyondType, TargetAssumption DEF ConnectionBudget

\* The connections to the target are bounded: one to each probed address, a handshake
\* and a request, and at most two more (how-it-works.md:243).
THEOREM Bounded == Spec => []TargetInv
BY InductiveInvariant, BudgetFollows, PTL DEF TargetInv

\* checkTarget judges nothing it is still measuring: every goroutine has ended, and a
\* suspect answer has been verified (probe.go:358).
THEOREM NothingPending == Spec => []JudgedWhenMeasured
<1>1. MeasuredInOrder => JudgedWhenMeasured
  BY DEF MeasuredInOrder, ConnectInOrder, ShakeInOrder, JudgedInOrder, JudgedWhenMeasured, Decided
<1>2. QED
  BY <1>1, InductiveInvariant, PTL

\* A layer has a result exactly when the one before it calls for it.
LEMMA LayersOfDecided ==
    ASSUME MeasuredInOrder, Decided
    PROVE  /\ decision = Decide(Input)
           /\ tls.real \in RealShakes \cup {NoShake}
           /\ tls.real # NoShake <=> AnyWorking(tcp)
           /\ http \in Fetches \cup {NoFetch}
           /\ http # NoFetch <=> FetchesOver(tls.real)
           /\ speed # <<>> => http.class = "ok"
           /\ tcp \in Seq(TcpOutcomes)
BY DEF MeasuredInOrder, TypeOK, Decided, Handshakes, ConnectInOrder, ShakeInOrder, FetchInOrder,
       JudgedInOrder, BeforeShake, BeforeFetch

\* What verdict.Decide makes of the path to a target, with what was measured of it: the
\* engine's fallbacks for layers that did not run are never used.
PathFindings(d) ==
    \/ tcp = <<>> /\ d = Nothing
    \/ /\ tcp # <<>>
       /\ tls.real = NoShake
       /\ http = NoFetch
       /\ ~AnyWorking(tcp)
       /\ \/ AnyRejected(tcp) /\ Says(d, "CONNECTION_RESET", "tcp", "reset")
          \/ AllAre(tcp, "timeout") /\ Says(d, "IP_BLOCKED", "tcp", "timeout")
          \/ AllAre(tcp, "unreachable") /\ Says(d, "IP_BLOCKED", "tcp", "unreachable")
          \/ /\ ~AnyRejected(tcp) /\ ~AllAre(tcp, "timeout") /\ ~AllAre(tcp, "unreachable")
             /\ Says(d, "INCONCLUSIVE", "", "inconclusive")
    \/ /\ AnyWorking(tcp)
       /\ tls.real \in RealShakes
       /\ http = NoFetch
       /\ \/ SNIFiltered(tls) /\ Says(d, "SNI_FILTERED", "tls", "sni")
          \/ Blocked(tls.real) /\ Says(d, "IP_BLOCKED", "tls", "timeout")
          \/ Blocked(tls.real) /\ Says(d, "CONNECTION_RESET", "tls", "reset")
          \/ tls.real.outcome = "alert" /\ Says(d, "INCONCLUSIVE", "tls", "alert")
          \/ tls.real.outcome = "failed" /\ Says(d, "INCONCLUSIVE", "", "inconclusive")
    \/ /\ AnyWorking(tcp)
       /\ tls.real \in RealShakes
       /\ tls.real.outcome \in {"ok", "cert_invalid"}
       /\ http \in Fetches
       /\ \/ http.class = "block_page" /\ Says(d, "BLOCK_PAGE", "http", "block_page")
          \/ tls.real.outcome = "cert_invalid" /\ Says(d, "TLS_INTERCEPTED", "tls", "untrusted")
          \/ tls.real.inspected /\ Says(d, "TLS_INTERCEPTED", "tls", "middlebox")
    \/ /\ AnyWorking(tcp)
       /\ tls.real \in RealShakes
       /\ tls.real.outcome = "ok"
       /\ ~tls.real.inspected
       /\ http \in Fetches
       /\ \/ http.class = "geo_block" /\ Says(d, "PROVIDER_GEO_BLOCK", "http", "geo_block")
          \/ http.class = "legal" /\ Says(d, "PROVIDER_GEO_BLOCK", "http", "451")
          \/ /\ http.class \in {"server_error", "failed"} /\ Confirmed(outage)
             /\ Says(d, "UPSTREAM_OUTAGE", "outage", "confirmed")
          \/ http.class = "server_error" /\ Says(d, "UPSTREAM_OUTAGE", "http", "5xx")
          \/ http.class = "failed" /\ Says(d, "CONNECTION_RESET", "http", "reset")
          \/ /\ http.class = "failed" /\ http.err # "reset" /\ ~Confirmed(outage)
             /\ Says(d, "INCONCLUSIVE", "http", http.err)
          \/ /\ http.class = "ok" /\ SpeedKind \in {"throughput", "handshake"}
             /\ Says(d, "THROTTLED", "speed", SpeedKind)
          \/ /\ http.class = "ok" /\ SpeedKind \notin {"throughput", "handshake"}
             /\ Says(d, "OK", "ok", "http")

LEMMA PathFound ==
    ASSUME MeasuredInOrder, Decided
    PROVE  PathFindings(PathDecision(Input))
<1> SUFFICES ASSUME NEW d, d = PathDecision(Input) PROVE PathFindings(d)
  OBVIOUS
<1>1. /\ Input.tcp = tcp /\ Input.tls = tls /\ Input.http = http
      /\ Input.outage = outage /\ Input.speed = SpeedKind
  BY DEF Input
<1>2. /\ tls.real \in RealShakes \cup {NoShake}
      /\ tls.real # NoShake <=> AnyWorking(tcp)
      /\ http \in Fetches \cup {NoFetch}
      /\ http # NoFetch <=> FetchesOver(tls.real)
  BY LayersOfDecided
<1>3. tcp = <<>> => ~AnyWorking(tcp)
  BY DEF AnyWorking
<1>4. NoShake \notin RealShakes /\ ~FetchesOver(NoShake)
  BY RealShakeFacts, ShakeFields DEF NoShake, FetchesOver
<1>5. \/ tcp = <<>> /\ d = Nothing
      \/ tcp # <<>> /\ ~AnyWorking(tcp) /\ d = TcpDecision(Input)
      \/ /\ AnyWorking(tcp)
         /\ tls.real \in RealShakes
         /\ \/ d = HandshakeDecision(tls) /\ d # Nothing
            \/ HandshakeDecision(tls) = Nothing /\ d = Service(Input)
  BY <1>1, <1>2, PathSays
<1>6. CASE tcp = <<>> /\ d = Nothing
  BY <1>6 DEF PathFindings
<1>7. CASE tcp # <<>> /\ ~AnyWorking(tcp) /\ d = TcpDecision(Input)
  BY <1>1, <1>2, <1>4, <1>7, TcpSays DEF PathFindings
<1>8. CASE /\ AnyWorking(tcp) /\ tls.real \in RealShakes
           /\ d = HandshakeDecision(tls) /\ d # Nothing
  <2>1. \/ SNIFiltered(tls) /\ Says(d, "SNI_FILTERED", "tls", "sni")
        \/ Blocked(tls.real) /\ Says(d, "IP_BLOCKED", "tls", "timeout")
        \/ Blocked(tls.real) /\ Says(d, "CONNECTION_RESET", "tls", "reset")
        \/ tls.real.outcome = "alert" /\ Says(d, "INCONCLUSIVE", "tls", "alert")
        \/ tls.real.outcome = "failed" /\ Says(d, "INCONCLUSIVE", "", "inconclusive")
    BY <1>8, GiveSays, UnclearSays DEF HandshakeDecision, SNIFiltered, Blocked, Confidences
  <2>2. http = NoFetch
    BY <1>2, <2>1 DEF SNIFiltered, Blocked, FetchesOver
  <2>3. QED
    BY <1>8, <2>1, <2>2 DEF PathFindings
<1>9. CASE /\ AnyWorking(tcp) /\ tls.real \in RealShakes
           /\ HandshakeDecision(tls) = Nothing /\ d = Service(Input)
  <2>1. tls.real.outcome \in {"ok", "cert_invalid"}
    <3>1. HandshakeDecision(tls).verdict = ""
      BY <1>9, NothingSays
    <3>2. ~Blocked(tls.real) /\ tls.real.outcome \notin {"alert", "failed"}
      BY <3>1, HandshakeSays DEF Says, SNIFiltered
    <3>3. QED
      BY <1>9, <3>2, RealShakeFacts DEF Blocked
  <2>2. http \in Fetches /\ http.class \in Classes \cup {"failed"}
    BY <1>2, <2>1, FetchFacts DEF FetchesOver
  <2>3. \/ http.class = "block_page" /\ Says(d, "BLOCK_PAGE", "http", "block_page")
        \/ tls.real.outcome = "cert_invalid" /\ Says(d, "TLS_INTERCEPTED", "tls", "untrusted")
        \/ tls.real.inspected /\ Says(d, "TLS_INTERCEPTED", "tls", "middlebox")
        \/ /\ http.class # "block_page"
           /\ tls.real.outcome # "cert_invalid"
           /\ ~tls.real.inspected
           /\ \/ d = HttpDecision(Input) /\ d # Nothing
              \/ /\ HttpDecision(Input) = Nothing
                 /\ SpeedKind \in {"throughput", "handshake"}
                 /\ Says(d, "THROTTLED", "speed", SpeedKind)
              \/ /\ HttpDecision(Input) = Nothing
                 /\ SpeedKind \notin {"throughput", "handshake"}
                 /\ Says(d, "OK", "ok", "http")
    BY <1>1, <1>9, ServiceSays
  <2>4. \/ http.class = "geo_block" /\ Says(HttpDecision(Input), "PROVIDER_GEO_BLOCK", "http", "geo_block")
        \/ http.class = "legal" /\ Says(HttpDecision(Input), "PROVIDER_GEO_BLOCK", "http", "451")
        \/ /\ http.class \in {"server_error", "failed"} /\ Confirmed(outage)
           /\ Says(HttpDecision(Input), "UPSTREAM_OUTAGE", "outage", "confirmed")
        \/ http.class = "server_error" /\ Says(HttpDecision(Input), "UPSTREAM_OUTAGE", "http", "5xx")
        \/ http.class = "failed" /\ Says(HttpDecision(Input), "CONNECTION_RESET", "http", "reset")
        \/ /\ http.class = "failed" /\ http.err # "reset" /\ ~Confirmed(outage)
           /\ Says(HttpDecision(Input), "INCONCLUSIVE", "http", http.err)
        \/ http.class \in {"ok", "block_page"} /\ HttpDecision(Input) = Nothing
    BY <1>1, <2>2, HttpSays DEF Classes
  <2>5. Nothing.verdict = ""
    BY NothingSays
  <2>6. QED
    <3>1. CASE http.class = "block_page" /\ Says(d, "BLOCK_PAGE", "http", "block_page")
      BY <1>9, <2>1, <2>2, <3>1 DEF PathFindings
    <3>2. CASE tls.real.outcome = "cert_invalid" /\ Says(d, "TLS_INTERCEPTED", "tls", "untrusted")
      BY <1>9, <2>1, <2>2, <3>2 DEF PathFindings
    <3>3. CASE tls.real.inspected /\ Says(d, "TLS_INTERCEPTED", "tls", "middlebox")
      BY <1>9, <2>1, <2>2, <3>3 DEF PathFindings
    <3>4. CASE /\ http.class # "block_page"
               /\ tls.real.outcome = "ok"
               /\ ~tls.real.inspected
               /\ d = HttpDecision(Input) /\ d # Nothing
      <4>1. http.class \in {"geo_block", "legal", "server_error", "failed"}
        BY <2>4, <3>4
      <4>2. QED
        BY <1>9, <2>2, <2>4, <3>4, <4>1 DEF PathFindings
    <3>5. CASE /\ http.class # "block_page"
               /\ tls.real.outcome = "ok" /\ ~tls.real.inspected
               /\ HttpDecision(Input) = Nothing
      <4>1. http.class = "ok"
        BY <2>4, <2>5, <3>5 DEF Says
      <4>2. QED
        BY <1>9, <2>2, <2>3, <3>5, <4>1 DEF PathFindings
    <3>6. QED
      BY <2>1, <2>3, <3>1, <3>2, <3>3, <3>4, <3>5
<1>10. QED
  BY <1>5, <1>6, <1>7, <1>8, <1>9

\* What it makes of the answers.
DnsFindings(d) ==
    \/ /\ Poisoned(analysis) \/ SuspectConvicted \/ analysis.systemFailure # ""
       /\ d.verdict \in DnsProblems
       /\ d.reason[1] = "dns"
       /\ d.also = {}
    \/ /\ ~Poisoned(analysis) /\ ~SuspectConvicted /\ analysis.systemFailure = ""
       /\ d = Nothing

LEMMA DnsFound ==
    ASSUME MeasuredInOrder
    PROVE  DnsFindings(DnsDecision(Input))
<1> DEFINE d == DnsDecision(Input)
<1>1. /\ Input.dns = analysis /\ Input.verify = verify /\ Input.tls = tls
      /\ Input.intercepted = (intercepted = "detected")
  BY DEF Input
<1>2. Mismatch(Input) <=> SuspectConvicted
  <2>1. analysis.suspects # {} <=> verify # NoShake
    BY DEF MeasuredInOrder, JudgedInOrder
  <2>2. QED
    BY <1>1, <2>1 DEF Mismatch, SuspectInvalid, SuspectConvicted
<1>3. \A key : /\ Says(d, "DNS_INTERCEPTED", "dns", key) => d.verdict \in DnsProblems
               /\ Says(d, "DNS_POISONED", "dns", key) => d.verdict \in DnsProblems
  BY DEF Says, DnsProblems
<1>4. \A v, key : Says(d, v, "dns", key) => d.reason[1] = "dns" /\ d.also = {}
  BY DEF Says
<1>5. QED
  BY <1>1, <1>2, <1>3, <1>4, DnsSays DEF DnsFindings

\* What it says when the path and the answers show nothing.
SilentFindings(d) ==
    \/ control = "answers" /\ Says(d, "DNS_INTERCEPTED", "dns", "dropped")
    \/ /\ control # "answers" /\ analysis.unresolvable /\ Confirmed(outage)
       /\ Says(d, "UPSTREAM_OUTAGE", "outage", "confirmed")
    \/ control # "answers" /\ Says(d, "INCONCLUSIVE", "dns", "unresolvable")
    \/ control # "answers" /\ Says(d, "INCONCLUSIVE", "", "inconclusive")

\* How the three make one decision.
LEMMA DecisionFound ==
    ASSUME MeasuredInOrder, Decided, NEW path, NEW names,
           path = PathDecision(Input), names = DnsDecision(Input)
    PROVE  \/ /\ ~AnyWorking(tcp) /\ DownReason(local) # ""
              /\ Says(decision, "LOCAL_NETWORK_DOWN", "local", DownReason(local))
           \/ path = Nothing /\ names # Nothing /\ decision = names
           \/ path = Nothing /\ names = Nothing /\ SilentFindings(decision)
           \/ path # Nothing /\ names = Nothing /\ decision = path
           \/ /\ path # Nothing /\ names # Nothing
              /\ path.verdict \in {"OK", "INCONCLUSIVE"}
              /\ decision = names
           \/ /\ path # Nothing /\ names # Nothing
              /\ path.verdict \notin {"OK", "INCONCLUSIVE"}
              /\ decision.verdict = path.verdict
              /\ decision.reason = path.reason
              /\ names.verdict \in decision.also
<1> DEFINE home == LocalDecision(Input)
<1>1. /\ Input.tcp = tcp /\ Input.local = local /\ Input.dns = analysis
      /\ Input.outage = outage
  BY DEF Input
<1>2. \/ home = Nothing
      \/ /\ ~AnyWorking(tcp) /\ DownReason(local) # ""
         /\ Says(home, "LOCAL_NETWORK_DOWN", "local", DownReason(local))
  BY <1>1, LocalSays
<1>3. decision = FirstOf(home, Combine(path, names, Input))
  BY LayersOfDecided DEF Decide
<1>4. SilentFindings(SilentDecision(Input))
  <2>1. Input.dropped = (control = "answers")
    BY DEF Input
  <2>2. QED
  BY <1>1, <2>1, GiveSays, UnclearSays, OutageSays DEF SilentFindings, SilentDecision, Confidences
<1>5. DEFINE both == [path EXCEPT !.also = @ \cup {names.verdict}]
<1>6. path # Nothing => /\ both.verdict = path.verdict
                       /\ both.reason = path.reason
                       /\ names.verdict \in both.also
  OBVIOUS
<1> HIDE DEF home, both
<1>7. QED
  BY <1>2, <1>3, <1>4, <1>6 DEF FirstOf, Combine, both

-----------------------------------------------------------------------------
(* The verdicts. *)

LEMMA ProviderOnCleanPath == MeasuredInOrder => ProviderBlamedOnCleanPath
<1> SUFFICES ASSUME MeasuredInOrder, Decided,
                    decision.verdict \in {"PROVIDER_GEO_BLOCK", "UPSTREAM_OUTAGE"}
             PROVE  \/ tls.real.outcome = "ok" /\ ~tls.real.inspected
                    \/ analysis.unresolvable /\ Confirmed(outage)
  BY DEF ProviderBlamedOnCleanPath
<1> DEFINE path == PathDecision(Input)
           names == DnsDecision(Input)
<1>1. PathFindings(path) /\ DnsFindings(names)
  BY PathFound, DnsFound
<1>2. names # Nothing => decision # names
  BY <1>1 DEF DnsFindings, DnsProblems
<1>3. \/ SilentFindings(decision)
      \/ path # Nothing /\ decision.verdict = path.verdict
  BY <1>2, DecisionFound DEF Says
<1> HIDE DEF path, names
<1>4. CASE SilentFindings(decision)
  BY <1>4 DEF SilentFindings, Says
<1>5. CASE path # Nothing /\ path.verdict \in {"PROVIDER_GEO_BLOCK", "UPSTREAM_OUTAGE"}
  BY <1>1, <1>5 DEF PathFindings, Says
<1>6. QED
  BY <1>3, <1>4, <1>5

\* verdict.Decide blames the provider only over a connection whose certificate is
\* trusted, or when no resolver knows the name and the status page confirms an incident.
THEOREM ProviderBlamed == Spec => []ProviderBlamedOnCleanPath
BY ProviderOnCleanPath, InductiveInvariant, PTL

\* An unresolvable name has no address to probe.
LEMMA UnresolvableUnprobed ==
    ASSUME MeasuredInOrder, Decided, analysis.unresolvable
    PROVE  tcp = <<>>
<1>1. analysis.reference = {}
  BY AnalyzeExcludes DEF MeasuredInOrder, TypeOK
<1>2. ProbeCount(analysis.reference) = 0
  BY <1>1, FS_EmptySet, TargetAssumption DEF ProbeCount
<1>3. Len(tcp) = 0 /\ tcp \in Seq(TcpOutcomes)
  BY <1>2, LayersOfDecided DEF MeasuredInOrder, ConnectInOrder, Decided
<1>4. QED
  BY <1>3

LEMMA DnsIsReported == MeasuredInOrder => DnsProblemReported
<1> SUFFICES ASSUME MeasuredInOrder, Decided,
                    decision.verdict # "LOCAL_NETWORK_DOWN",
                    DnsWrong
             PROVE  Accused \cap DnsProblems # {}
  BY DEF DnsProblemReported
<1> DEFINE path == PathDecision(Input)
           names == DnsDecision(Input)
<1>1. CASE names # Nothing
  <2>1. names.verdict \in DnsProblems
    BY <1>1, DnsFound DEF DnsFindings
  <2>2. names.verdict \in {decision.verdict} \cup decision.also
    BY <1>1, DecisionFound DEF Says
  <2>3. QED
    BY <2>1, <2>2 DEF Accused
<1>2. CASE names = Nothing
  <2>1. control = "answers"
    <3>1. names.verdict \notin DnsProblems
      BY <1>2, NothingSays DEF DnsProblems
    <3>2. QED
      BY <3>1, DnsFound DEF DnsFindings, DnsWrong
  <2>2. path = Nothing
    <3>1. tcp = <<>>
      BY <2>1, UnresolvableUnprobed DEF MeasuredInOrder, ConnectInOrder
    <3>2. Input.tcp = <<>>
      BY <3>1 DEF Input
    <3>3. QED
      BY <3>2 DEF PathDecision
  <2>3. Says(decision, "DNS_INTERCEPTED", "dns", "dropped")
    BY <1>2, <2>1, <2>2, DecisionFound DEF SilentFindings, Says
  <2>4. QED
    BY <2>3 DEF Says, Accused, DnsProblems
<1>3. QED
  BY <1>1, <1>2

\* verdict.Decide never loses a DNS problem, be it a bad answer, one that its own server
\* disowns, an error where others resolve the name, or queries that are dropped: it is the
\* verdict or is reported beside it, unless the local network is down.
THEOREM DnsReported == Spec => []DnsProblemReported
BY DnsIsReported, InductiveInvariant, PTL

\* A DNS problem is the verdict only for want of a path or over one that works or is
\* unclear; a dropped answer only for want of both.
LEMMA DnsIsDecision ==
    ASSUME MeasuredInOrder, Decided, decision.verdict \in DnsProblems,
           NEW path, path = PathDecision(Input)
    PROVE  \/ path = Nothing
           \/ path.verdict \in {"OK", "INCONCLUSIVE"}
<1> DEFINE names == DnsDecision(Input)
<1>1. PathFindings(path)
  BY PathFound
<1>2. path.verdict \notin DnsProblems
  BY <1>1, NothingSays DEF PathFindings, Says, DnsProblems
<1>3. QED
  BY <1>2, DecisionFound DEF Says, DnsProblems

LEMMA SpeedKinds == speed # <<>> => SpeedKind \in {"fine", "throughput", "handshake"}
BY DEF SpeedKind, Compare

LEMMA DnsOnlyIfItHelps == MeasuredInOrder => DnsFixWouldHelp
<1> SUFFICES ASSUME MeasuredInOrder, Decided, decision.verdict \in DnsProblems
             PROVE  /\ ~AllAre(tcp, "timeout")
                    /\ ~AllAre(tcp, "unreachable")
                    /\ AnyRejected(tcp) => AnyWorking(tcp)
                    /\ ~Blocked(tls.real)
                    /\ tls.real.outcome # "cert_invalid"
                    /\ ~tls.real.inspected
                    /\ http.class \notin Classes \ {"ok"}
                    /\ http.class = "failed" => http.err # "reset" /\ ~Confirmed(outage)
                    /\ SpeedKind \in {"none", "fine"}
  BY DEF DnsFixWouldHelp
<1> DEFINE path == PathDecision(Input)
<1>1. PathFindings(path)
  BY PathFound
<1>2. path = Nothing \/ path.verdict \in {"OK", "INCONCLUSIVE"}
  BY DnsIsDecision
<1>3. /\ tls.real # NoShake <=> AnyWorking(tcp)
      /\ http # NoFetch <=> FetchesOver(tls.real)
      /\ tcp \in Seq(TcpOutcomes)
  BY LayersOfDecided
<1>4. /\ NoShake.outcome = "none" /\ NoFetch.class = "none"
      /\ Nothing.verdict = ""
  BY ShakeFields, NothingSays DEF NoShake, NoFetch, Fetched
<1>5. AnyWorking(tcp) => ~AllAre(tcp, "timeout") /\ ~AllAre(tcp, "unreachable")
  BY DEF AnyWorking, AllAre
<1>6. tcp = <<>> => ~AnyWorking(tcp) /\ ~AnyRejected(tcp)
  BY DEF AnyWorking, AnyRejected
<1>7. /\ ~NoShake.inspected
      /\ \A h \in RealShakes : h.inspected => h.outcome = "ok"
      /\ http.class # "ok" => SpeedKind = "none"
  BY ShakeFields, RealShakeFacts, LayersOfDecided DEF NoShake, SpeedKind
<1>8. SpeedKind \in {"none", "fine", "throughput", "handshake"}
  BY SpeedKinds DEF SpeedKind
<1> HIDE DEF path
<1>9. CASE tcp = <<>> /\ path = Nothing
  BY <1>3, <1>4, <1>6, <1>7, <1>9 DEF AllAre, Blocked, FetchesOver, Classes
<1>10. CASE ~(tcp = <<>> /\ path = Nothing)
  <2>1. CASE tls.real = NoShake /\ http = NoFetch
    BY <1>1, <1>2, <1>3, <1>4, <1>5, <1>7, <1>10, <2>1
       DEF PathFindings, Says, Blocked, Classes
  <2>2. CASE tls.real \in RealShakes /\ http = NoFetch
    BY <1>1, <1>2, <1>4, <1>5, <1>7, <1>10, <2>2
       DEF PathFindings, Says, Blocked, Classes, SNIFiltered
  <2>3. CASE tls.real \in RealShakes /\ http \in Fetches
    BY <1>1, <1>2, <1>4, <1>5, <1>7, <1>8, <1>10, <2>3
       DEF PathFindings, Says, Blocked, Classes, SNIFiltered
  <2>4. QED
    BY <1>1, <1>10, <2>1, <2>2, <2>3 DEF PathFindings
<1>11. QED
  BY <1>9, <1>10

\* DNS is the verdict only when fixing it would help: never over a reference whose
\* connection is blocked, intercepted, reset at any layer, throttled, refused by the
\* service or failed in a confirmed incident.
THEOREM DnsHelps == Spec => []DnsFixWouldHelp
BY DnsOnlyIfItHelps, InductiveInvariant, PTL

LEMMA SuspectsAreTried == MeasuredInOrder => FilteringIsNotPoisoning
<1> SUFFICES ASSUME MeasuredInOrder, Decided, ~Poisoned(analysis),
                    analysis.systemFailure = "", control # "answers",
                    Accused \cap DnsProblems # {}
             PROVE  /\ verify.outcome # "ok"
                    /\ Blocked(verify) \/ verify.outcome = "failed" => tls.real.outcome = "ok"
  BY DEF FilteringIsNotPoisoning
<1> DEFINE path == PathDecision(Input)
           names == DnsDecision(Input)
<1>1. PathFindings(path) /\ DnsFindings(names)
  BY PathFound, DnsFound
<1> HIDE DEF path, names
<1>2. /\ path = Nothing \/ path.verdict \notin DnsProblems
      /\ path = Nothing \/ path.also = {}
  BY <1>1 DEF PathFindings, Says, DnsProblems
<1>3. names # Nothing
  <2>1. SUFFICES ASSUME names = Nothing PROVE FALSE
    OBVIOUS
  <2>2. \/ Says(decision, "LOCAL_NETWORK_DOWN", "local", DownReason(local))
        \/ SilentFindings(decision)
        \/ path # Nothing /\ decision = path
    BY <2>1, DecisionFound DEF path, names
  <2>3. decision.also = {} /\ decision.verdict \notin DnsProblems
    BY <1>2, <2>2 DEF SilentFindings, Says, DnsProblems
  <2>4. QED
    BY <2>3 DEF Accused
<1>4. SuspectConvicted
  BY <1>1, <1>3 DEF DnsFindings
<1>5. QED
  BY <1>4 DEF SuspectConvicted, Reached, Blocked

\* A different answer convicts DNS only if its server was reached and does not serve the
\* host, or if the reference address does where it did not answer.
THEOREM FilteringCleared == Spec => []FilteringIsNotPoisoning
BY SuspectsAreTried, InductiveInvariant, PTL

\* What an OK rests on.
LEMMA OKFound ==
    ASSUME MeasuredInOrder, Decided, decision.verdict = "OK"
    PROVE  /\ decision.reason = <<"ok", "http">>
           /\ AnyWorking(tcp)
           /\ tls.real.outcome = "ok" /\ ~tls.real.inspected
           /\ http.class = "ok"
           /\ SpeedKind \notin {"throughput", "handshake"}
           /\ ~Poisoned(analysis) /\ ~SuspectConvicted /\ analysis.systemFailure = ""
           /\ ~analysis.unresolvable
<1> DEFINE path == PathDecision(Input)
           names == DnsDecision(Input)
<1>1. PathFindings(path) /\ DnsFindings(names)
  BY PathFound, DnsFound
<1>2. path # Nothing /\ names = Nothing /\ decision = path
  <2>1. names # Nothing => decision # names
    BY <1>1 DEF DnsFindings, DnsProblems
  <2>2. ~SilentFindings(decision)
    BY DEF SilentFindings, Says
  <2>3. QED
    BY <2>1, <2>2, DecisionFound DEF Says
<1> HIDE DEF path, names
<1>3. /\ decision.reason = <<"ok", "http">>
      /\ AnyWorking(tcp)
      /\ tls.real.outcome = "ok" /\ ~tls.real.inspected
      /\ http.class = "ok"
      /\ SpeedKind \notin {"throughput", "handshake"}
  BY <1>1, <1>2 DEF PathFindings, Says
<1>4. names.verdict = ""
  BY <1>2, NothingSays
<1>5. ~Poisoned(analysis) /\ ~SuspectConvicted /\ analysis.systemFailure = ""
  BY <1>1, <1>4 DEF DnsFindings, DnsProblems
<1>6. ~analysis.unresolvable
  BY <1>3, UnresolvableUnprobed DEF AnyWorking
<1>7. QED
  BY <1>3, <1>5, <1>6

LEMMA OKIsAnswered == MeasuredInOrder => OKMeansAnswered
<1> SUFFICES ASSUME MeasuredInOrder, Decided, decision.verdict = "OK"
             PROVE  /\ decision.reason = <<"ok", "http">>
                    /\ tls.real.outcome = "ok"
                    /\ http.class = "ok"
                    /\ \A row \in Evidence :
                        row[3] = "fail" => \/ row[1] = "local"
                                           \/ row[2] \in {"resolver", "address", "interception"}
  BY DEF OKMeansAnswered
<1>1. /\ decision.reason = <<"ok", "http">>
      /\ tls.real.outcome = "ok"
      /\ http.class = "ok"
  BY OKFound
<1>2. ASSUME NEW row \in Evidence, row[3] = "fail"
      PROVE  row[1] = "local" \/ row[2] \in {"resolver", "address", "interception"}
  <2>1. CASE row \in LocalRows
    <3>1. PICK status : row = <<"local", "connectivity", status>> \/ row = <<"local", "baseline", status>>
      BY <2>1, Zenon DEF LocalRows, When
    <3>2. QED
      BY <3>1
  <2>2. CASE row \in DnsRows
    <3>1. row \in ResolverRows => row[2] = "resolver"
      BY DEF ResolverRows, When
    <3>2. control = "none"
      BY OKFound DEF MeasuredInOrder, ConnectInOrder
    <3>3. ~analysis.injectedPublic
      BY OKFound, AnalyzeExcludes DEF MeasuredInOrder, TypeOK
    <3>4. AnalysisStatus # "fail"
      BY OKFound DEF AnalysisStatus, PassIf
    <3>5. verify = NoShake \/ verify.outcome = "ok"
      BY OKFound DEF SuspectConvicted, MeasuredInOrder, JudgedInOrder
    <3>6. verify # NoShake => PassIf(verify.outcome = "ok") = "pass"
      BY <3>5 DEF PassIf
    <3>7. \/ row \in ResolverRows
          \/ \E status : row = <<"dns", "interception", status>>
          \/ row = <<"dns", "analysis", AnalysisStatus>>
          \/ row = <<"dns", "doh", "warn">>
          \/ row = <<"dns", "verify system IP", "pass">>
      BY <2>2, <3>2, <3>3, <3>6, Zenon DEF DnsRows, When
    <3>8. \A layer, check, status :
            row = <<layer, check, status>> => row[2] = check /\ row[3] = status
      OBVIOUS
    <3>9. QED
      BY <1>2, <3>1, <3>4, <3>7, <3>8, Zenon
  <2>3. CASE row \in TcpRows
    BY <1>2, <2>3 DEF TcpRows, When
  <2>4. CASE row \in TlsRows
    <3>1. ~Blocked(tls.real)
      BY <1>1 DEF Blocked
    <3>2. tls.neutral = NoShake /\ tls.noSNI = NoShake
      BY <3>1 DEF MeasuredInOrder, ShakeInOrder
    <3>3. {n \in {"neutral", "noSNI"} : tls[n] # NoShake} = {}
      BY <3>2
    <3>4. QED
      BY <1>1, <1>2, <2>4, <3>1, <3>3 DEF TlsRows, When, PassIf, SNIFiltered
  <2>5. CASE row \in HttpRows
    BY <1>1, <1>2, <2>5 DEF HttpRows, When, PassIf
  <2>6. CASE row \in SpeedRows
    <3>1. /\ speed # <<>>
          /\ \/ row = <<"speed", "analysis", PassIf(SpeedKind = "fine")>>
             \/ row = <<"speed", "target", "warn">>
             \/ row = <<"speed", "baseline", "warn">>
      BY <2>6, Zenon DEF SpeedRows, When
    <3>2. PassIf(SpeedKind = "fine") = "pass"
      BY <3>1, OKFound, SpeedKinds DEF PassIf
    <3>3. QED
      BY <1>2, <3>1, <3>2
  <2>7. CASE row \in OutageRows
    <3>1. outage = "unasked"
      BY OKFound DEF MeasuredInOrder, JudgedInOrder, PathCleanButFailing
    <3>2. QED
      BY <2>7, <3>1 DEF OutageRows, When
  <2>8. QED
    BY <2>1, <2>2, <2>3, <2>4, <2>5, <2>6, <2>7 DEF Evidence
<1>3. QED
  BY <1>1, <1>2

\* OK is only said of a service that answered over a trusted certificate, and never with
\* a failed row but those of single resolvers, single addresses and the network's own.
THEOREM OKAnswered == Spec => []OKMeansAnswered
BY OKIsAnswered, InductiveInvariant, PTL

\* A row of the report that shows something wrong with a layer.
Shown(layer) == \E row \in Evidence : row[1] = layer /\ row[3] = "fail"

LEMMA FailedRow ==
    ASSUME NEW layer, NEW check, <<layer, check, "fail">> \in Evidence
    PROVE  Shown(layer)
BY DEF Shown

LEMMA LocalShown ==
    ASSUME DownReason(local) # ""
    PROVE  Shown("local")
<1>1. DownReason(NoLocal) = ""
  BY DEF DownReason, NoLocal
<1>2. local # NoLocal
  BY <1>1
<1>3. PassIf(DownReason(local) = "") = "fail"
  BY DEF PassIf
<1>4. <<"local", "connectivity", "fail">> \in LocalRows
  BY <1>2, <1>3, Zenon DEF LocalRows, When
<1>5. QED
  BY <1>4, FailedRow DEF Evidence

LEMMA DnsShown ==
    ASSUME MeasuredInOrder,
           Poisoned(analysis) \/ SuspectConvicted \/ analysis.systemFailure # ""
    PROVE  Shown("dns")
<1>1. CASE Poisoned(analysis)
  <2>1. AnalysisStatus = "fail"
    BY <1>1 DEF AnalysisStatus
  <2>2. <<"dns", "analysis", "fail">> \in DnsRows
    BY <2>1, Zenon DEF DnsRows
  <2>3. QED
    BY <2>2, FailedRow DEF Evidence
<1>2. CASE SuspectConvicted
  <2>1. verify # NoShake /\ PassIf(verify.outcome = "ok") = "fail"
    BY <1>2 DEF SuspectConvicted, PassIf, MeasuredInOrder, JudgedInOrder
  <2>2. <<"dns", "verify system IP", "fail">> \in DnsRows
    BY <2>1, Zenon DEF DnsRows, When
  <2>3. QED
    BY <2>2, FailedRow DEF Evidence
<1>3. CASE analysis.systemFailure # ""
  <2>1. dns \in Result /\ analysis = Analyze(dns)
    BY DEF MeasuredInOrder, TypeOK
  <2>2. ~OK(dns.system) /\ dns.system # Absent /\ analysis.suspects = {}
    BY <1>3, <2>1, AnalyzeExcludes
  <2>3. SystemStatus = "fail"
    BY <2>2 DEF SystemStatus, ResolverStatus
  <2>4. <<"dns", "resolver", "fail">> \in ResolverRows
    BY <2>2, <2>3, Zenon DEF ResolverRows, When
  <2>5. <<"dns", "resolver", "fail">> \in DnsRows
    BY <2>4, Zenon DEF DnsRows
  <2>6. QED
    BY <2>5, FailedRow DEF Evidence
<1>4. QED
  BY <1>1, <1>2, <1>3

LEMMA DroppedShown ==
    ASSUME control = "answers"
    PROVE  Shown("dns")
<1>1. <<"dns", "control", "fail">> \in When(control # "none",
        {<<"dns", "control", IF control = "answers" THEN "fail" ELSE "warn">>})
  BY DEF When
<1>2. <<"dns", "control", "fail">> \in DnsRows
  BY <1>1, Zenon DEF DnsRows
<1>3. QED
  BY <1>2, FailedRow DEF Evidence

LEMMA TcpShown ==
    ASSUME NEW i \in DOMAIN tcp, tcp[i] # "ok"
    PROVE  Shown("tcp")
<1>1. PassIf(tcp[i] = "ok") = "fail"
  BY DEF PassIf
<1>2. <<"tcp", "address", "fail">> \in TcpRows
  BY <1>1, Zenon DEF TcpRows
<1>3. QED
  BY <1>2, FailedRow DEF Evidence

LEMMA TlsShown ==
    ASSUME tls.real # NoShake, tls.real.outcome # "ok"
    PROVE  Shown("tls")
<1>1. PassIf(tls.real.outcome = "ok") = "fail"
  BY DEF PassIf
<1>2. <<"tls", "sni", "fail">> \in TlsRows
  BY <1>1, Zenon DEF TlsRows, When
<1>3. QED
  BY <1>2, FailedRow DEF Evidence

LEMMA HttpShown ==
    ASSUME http # NoFetch, http.class # "ok"
    PROVE  Shown("http")
<1>1. PassIf(http.class = "ok") = "fail"
  BY DEF PassIf
<1>2. <<"http", "GET", "fail">> \in HttpRows
  BY <1>1, Zenon DEF HttpRows, When
<1>3. QED
  BY <1>2, FailedRow DEF Evidence

LEMMA SpeedShown ==
    ASSUME SpeedKind \in {"throughput", "handshake"}
    PROVE  Shown("speed")
<1>1. speed # <<>> /\ PassIf(SpeedKind = "fine") = "fail"
  BY DEF SpeedKind, PassIf
<1>2. <<"speed", "analysis", "fail">> \in SpeedRows
  BY <1>1, Zenon DEF SpeedRows, When
<1>3. QED
  BY <1>2, FailedRow DEF Evidence

LEMMA OutageShown ==
    ASSUME Confirmed(outage)
    PROVE  Shown("outage")
<1>1. outage # "unasked" /\ outage # "error" /\ PassIf(~Confirmed(outage)) = "fail"
  BY DEF Confirmed, PassIf
<1>2. <<"outage", "status page", "fail">> \in OutageRows
  BY <1>1, Zenon DEF OutageRows, When
<1>3. QED
  BY <1>2, FailedRow DEF Evidence

\* Whatever the path's decision accuses has a failed row.
LEMMA PathShown ==
    ASSUME MeasuredInOrder, Decided, NEW d, PathFindings(d), d.verdict \in Problems,
           d.reason # <<"tls", "middlebox">>
    PROVE  Shown(d.reason[1])
<1>1. \A v, layer, key : Says(d, v, layer, key) =>
            d.verdict = v /\ d.reason = <<layer, key>> /\ d.reason[1] = layer
  BY DEF Says
<1>2. /\ "" \notin Problems /\ "OK" \notin Problems /\ "INCONCLUSIVE" \notin Problems
      /\ Nothing.verdict = ""
  BY NothingSays DEF Problems
<1>3. NoShake \notin RealShakes /\ NoFetch \notin Fetches
  BY RealShakeFacts, FetchFacts
<1>4. AnyRejected(tcp) => Shown("tcp")
  BY TcpShown DEF AnyRejected
<1>5. AllAre(tcp, "timeout") \/ AllAre(tcp, "unreachable") => Shown("tcp")
  <2>1. tcp \in Seq(TcpOutcomes)
    BY LayersOfDecided
  <2>2. tcp # <<>> => 1 \in DOMAIN tcp
    BY <2>1
  <2>3. QED
    BY <2>2, TcpShown DEF AllAre
<1>6. tls.real \in RealShakes /\ tls.real.outcome # "ok" => Shown("tls")
  BY <1>3, TlsShown
<1>7. http \in Fetches /\ http.class # "ok" => Shown("http")
  BY <1>3, HttpShown
<1>8. CASE /\ tcp # <<>>
           /\ \/ AnyRejected(tcp) /\ Says(d, "CONNECTION_RESET", "tcp", "reset")
              \/ AllAre(tcp, "timeout") /\ Says(d, "IP_BLOCKED", "tcp", "timeout")
              \/ AllAre(tcp, "unreachable") /\ Says(d, "IP_BLOCKED", "tcp", "unreachable")
  BY <1>1, <1>4, <1>5, <1>8
<1>9. CASE /\ tls.real \in RealShakes
           /\ \E v, key : Says(d, v, "tls", key)
           /\ tls.real.outcome # "ok"
  BY <1>1, <1>6, <1>9
<1>10. CASE /\ http \in Fetches /\ http.class # "ok"
            /\ \E v, key : Says(d, v, "http", key)
  BY <1>1, <1>7, <1>10
<1>11. CASE Confirmed(outage) /\ Says(d, "UPSTREAM_OUTAGE", "outage", "confirmed")
  BY <1>1, <1>11, OutageShown
<1>12. CASE /\ SpeedKind \in {"throughput", "handshake"}
            /\ Says(d, "THROTTLED", "speed", SpeedKind)
  BY <1>1, <1>12, SpeedShown
<1>13. QED
  <2>1. Blocked(tls.real) \/ SNIFiltered(tls) => tls.real.outcome # "ok"
    BY DEF Blocked, SNIFiltered
  <2>2. \A v, layer, key : Says(d, v, layer, key) => d.verdict = v
    BY <1>1
  <2>3. ~Says(d, "TLS_INTERCEPTED", "tls", "middlebox")
    BY <1>1
  <2>4. d # Nothing
    BY <1>2
  <2>5. /\ ~Says(d, "OK", "ok", "http")
        /\ ~Says(d, "INCONCLUSIVE", "", "inconclusive")
        /\ ~Says(d, "INCONCLUSIVE", "tls", "alert")
        /\ ~Says(d, "INCONCLUSIVE", "http", http.err)
    BY <1>1, <1>2
  <2>6. QED
    BY <1>8, <1>9, <1>10, <1>11, <1>12, <2>1, <2>3, <2>4, <2>5 DEF PathFindings

LEMMA BlameIsShown == MeasuredInOrder => EveryBlameIsShown
<1> SUFFICES ASSUME MeasuredInOrder, Decided, decision.verdict \in Problems,
                    decision.reason # <<"tls", "middlebox">>
             PROVE  Shown(decision.reason[1])
  BY DEF EveryBlameIsShown, Shown
<1> DEFINE path == PathDecision(Input)
           names == DnsDecision(Input)
<1>1. PathFindings(path) /\ DnsFindings(names)
  BY PathFound, DnsFound
<1>2. \/ /\ DownReason(local) # ""
         /\ Says(decision, "LOCAL_NETWORK_DOWN", "local", DownReason(local))
      \/ names # Nothing /\ decision = names
      \/ SilentFindings(decision)
      \/ decision.verdict = path.verdict /\ decision.reason = path.reason
  BY DecisionFound
<1>0. \A v, layer, key : Says(decision, v, layer, key) =>
            decision.verdict = v /\ decision.reason[1] = layer
  BY DEF Says
<1> HIDE DEF path, names
<1>3. CASE /\ DownReason(local) # ""
           /\ Says(decision, "LOCAL_NETWORK_DOWN", "local", DownReason(local))
  BY <1>0, <1>3, LocalShown
<1>4. CASE names # Nothing /\ decision = names
  BY <1>1, <1>4, DnsShown DEF DnsFindings
<1>5. CASE SilentFindings(decision)
  <2>1. decision.verdict # "INCONCLUSIVE"
    BY DEF Problems
  <2>2. \/ control = "answers" /\ Says(decision, "DNS_INTERCEPTED", "dns", "dropped")
        \/ Confirmed(outage) /\ Says(decision, "UPSTREAM_OUTAGE", "outage", "confirmed")
    BY <1>0, <1>5, <2>1 DEF SilentFindings
  <2>3. QED
    BY <1>0, <2>2, DroppedShown, OutageShown
<1>6. CASE decision.verdict = path.verdict /\ decision.reason = path.reason
  BY <1>1, <1>6, PathShown
<1>7. QED
  BY <1>2, <1>3, <1>4, <1>5, <1>6

\* Every problem in the report is supported: the layer that the reason names has a failed
\* row, but for an inspection product's valid certificate (evidence.go).
THEOREM BlameShown == Spec => []EveryBlameIsShown
BY BlameIsShown, InductiveInvariant, PTL

-----------------------------------------------------------------------------
(* The throttling layer. *)

LEMMA ThrottledFound ==
    ASSUME MeasuredInOrder, Decided, decision.verdict = "THROTTLED"
    PROVE  Healthy /\ SpeedKind \in {"throughput", "handshake"}
<1> DEFINE path == PathDecision(Input)
           names == DnsDecision(Input)
<1>1. PathFindings(path) /\ DnsFindings(names)
  BY PathFound, DnsFound
<1>2. decision.verdict = path.verdict
  <2>1. names # Nothing => decision # names
    BY <1>1 DEF DnsFindings, DnsProblems
  <2>2. ~SilentFindings(decision)
    BY DEF SilentFindings, Says
  <2>3. QED
    BY <2>1, <2>2, DecisionFound DEF Says
<1> HIDE DEF path, names
<1>3. QED
  BY <1>1, <1>2, NothingSays DEF PathFindings, Says, Healthy

\* Of two downloads, the one Compare calls throttled is the slower or has the longer
\* handshake.
LEMMA ThrottledDownload ==
    ASSUME NEW t \in Download, NEW b \in Download,
           t.replied => t.duration > 0,
           b.replied => b.duration > 0,
           Compare(Measure(t), Measure(b)) \in {"throughput", "handshake"}
    PROVE  /\ b.replied /\ Success(b.status)
           /\ ~AsFast(Measure(t), Measure(b)) \/ t.handshake > b.handshake
<1>1. /\ Measure(t) \in Measurement /\ Measure(b) \in Measurement
      /\ Measure(t).duration = t.duration
      /\ Measure(t).handshake = t.handshake /\ Measure(b).handshake = b.handshake
  BY MeasureType DEF Measure
<1>2. t.handshake \in Nat /\ b.handshake \in Nat
  BY DEF Download
<1>3. Comparable(Measure(t), Measure(b))
  BY DEF Compare
<1>4. t.replied /\ b.replied /\ Success(b.status)
  BY <1>3 DEF Comparable, Measure, Success
<1>5. ASSUME AsFast(Measure(t), Measure(b)), ~(t.handshake > b.handshake) PROVE FALSE
  <2>1. Compare(Measure(t), Measure(b)) = "fine"
    BY <1>1, <1>2, <1>4, <1>5, AsFastIsFine
  <2>2. QED
    BY <2>1
<1>6. QED
  BY <1>4, <1>5

\* A download that was slow when the timeout cut it off is throttled throughput.
LEMMA StarvedDownload ==
    ASSUME speed # <<>>, Starved,
           speed[1] \in Download, speed[2] \in Download,
           speed[2].replied => speed[2].duration > 0
    PROVE  SpeedKind = "throughput"
<1> DEFINE t == speed[1]
           b == speed[2]
<1>1. /\ t.received \in Nat /\ t.duration \in Nat /\ b.received \in Nat /\ b.duration \in Nat
      /\ b.replied => b.duration > 0
  BY DEF Download
<1>2. /\ t.replied /\ Success(t.status) /\ t.end = "timeout"
      /\ t.received \in MinBytes..MaxBytes-1
      /\ b.replied /\ Success(b.status) /\ b.end = "eof" /\ b.received >= MinBytes
      /\ t.received < SlowRate * t.duration
      /\ t.received * RateRatio * b.duration <= Capped(b.received) * t.duration
  BY DEF Starved
<1> HIDE DEF t, b
<1>3. t.duration > 0
  BY <1>1, <1>2, SpeedAssumption
<1>4. Capped(t.received) = t.received /\ t.received < MaxBytes /\ t.received > 0
  BY <1>1, <1>2, SpeedAssumption DEF Capped
<1>5. /\ Measure(t).status = t.status /\ Measure(t).bytes = t.received
      /\ Measure(t).duration = t.duration /\ ~Measure(t).err
  BY <1>2, <1>4 DEF Measure
<1>6. /\ Measure(b).status = b.status /\ Measure(b).bytes = Capped(b.received)
      /\ Measure(b).duration = b.duration /\ ~Measure(b).err
  BY <1>2 DEF Measure
<1>7. Comparable(Measure(t), Measure(b))
  BY <1>2, <1>5, <1>6 DEF Comparable
<1>8. /\ Amount(Measure(t)) = t.received /\ Time(Measure(t)) = t.duration
      /\ Amount(Measure(b)) = Capped(b.received) /\ Time(Measure(b)) = b.duration
  BY <1>1, <1>2, <1>3, <1>5, <1>6 DEF Amount, Time
<1>9. Capped(b.received) >= MinBytes
  BY <1>1, <1>2, <1>4, SpeedAssumption DEF Capped
<1>10. SlowThroughput(Measure(t), Measure(b))
  BY <1>2, <1>5, <1>6, <1>8, <1>9 DEF SlowThroughput, BelowSlowRate, FarBelow
<1>11. QED
  BY <1>7, <1>10 DEF SpeedKind, Compare, t, b

LEMMA SlowerWhenThrottled == MeasuredInOrder => ThrottledIsSlower
<1> SUFFICES ASSUME MeasuredInOrder, Decided, speed # <<>>
             PROVE  /\ decision.verdict = "THROTTLED" =>
                        /\ Healthy
                        /\ speed[2].replied /\ Success(speed[2].status)
                        /\ \/ ~AsFast(Measure(speed[1]), Measure(speed[2]))
                           \/ speed[1].handshake > speed[2].handshake
                    /\ Starved => decision.verdict # "OK"
  BY DEF ThrottledIsSlower
<1>1. /\ speed[1] \in Download /\ speed[2] \in Download
      /\ speed[1].replied => speed[1].duration > 0
      /\ speed[2].replied => speed[2].duration > 0
  BY TargetAssumption DEF MeasuredInOrder, TypeOK
<1>2. ASSUME decision.verdict = "THROTTLED"
      PROVE  /\ Healthy
             /\ speed[2].replied /\ Success(speed[2].status)
             /\ \/ ~AsFast(Measure(speed[1]), Measure(speed[2]))
                \/ speed[1].handshake > speed[2].handshake
  <2>1. Healthy /\ SpeedKind \in {"throughput", "handshake"}
    BY <1>2, ThrottledFound
  <2>2. Compare(Measure(speed[1]), Measure(speed[2])) \in {"throughput", "handshake"}
    BY <2>1 DEF SpeedKind
  <2>3. QED
    BY <1>1, <2>1, <2>2, ThrottledDownload
<1>3. Starved => decision.verdict # "OK"
  BY <1>1, StarvedDownload, OKFound
<1>4. QED
  BY <1>2, <1>3

\* THROTTLED is only said of a target over a healthy path that was slower than a baseline
\* that answered, and a download that was slow when the timeout cut it off is never OK.
THEOREM Slower == Spec => []ThrottledIsSlower
BY SlowerWhenThrottled, InductiveInvariant, PTL

-----------------------------------------------------------------------------
(* Module Runner's outcomes. *)

LEMMA DownIsDecision ==
    ASSUME MeasuredInOrder, Decided, ~AnyWorking(tcp), DownReason(local) # ""
    PROVE  decision.verdict = "LOCAL_NETWORK_DOWN"
<1>1. Input.tcp = tcp /\ Input.local = local
  BY DEF Input
<1>2. LocalDecision(Input).verdict = "LOCAL_NETWORK_DOWN"
  BY <1>1 DEF LocalDecision, Give
<1>3. LocalDecision(Input) # Nothing
  BY <1>2, NothingSays
<1>4. QED
  BY <1>2, <1>3, LayersOfDecided DEF Decide, FirstOf

\* The path of a healthy target.
LEMMA HealthyPath ==
    ASSUME MeasuredInOrder, Decided, Healthy, NEW path, path = PathDecision(Input)
    PROVE  /\ AnyWorking(tcp)
           /\ path # Nothing
           /\ SpeedKind \in {"throughput", "handshake"} => path.verdict = "THROTTLED"
           /\ SpeedKind \notin {"throughput", "handshake"} => path.verdict = "OK"
<1>1. PathFindings(path)
  BY PathFound
<1>2. NoShake.outcome = "none" /\ NoFetch.class = "none"
  BY ShakeFields DEF NoShake, NoFetch, Fetched
<1>3. AnyWorking(tcp)
  BY <1>2, LayersOfDecided DEF Healthy
<1>4. tcp # <<>> /\ tls.real # NoShake /\ http # NoFetch
  BY <1>2, <1>3 DEF Healthy, AnyWorking
<1>5. \/ SpeedKind \in {"throughput", "handshake"} /\ Says(path, "THROTTLED", "speed", SpeedKind)
      \/ SpeedKind \notin {"throughput", "handshake"} /\ Says(path, "OK", "ok", "http")
  BY <1>1, <1>4 DEF PathFindings, Healthy
<1>6. QED
  BY <1>3, <1>5, NothingSays DEF Says

\* Of a name that nobody could resolve there is neither a path nor a DNS decision.
LEMMA UnresolvableDecision ==
    ASSUME MeasuredInOrder, Decided, analysis.unresolvable
    PROVE  /\ ~AnyWorking(tcp)
           /\ DownReason(local) = "" => SilentFindings(decision)
<1>1. tcp = <<>> /\ ~AnyWorking(tcp)
  BY UnresolvableUnprobed DEF AnyWorking
<1>2. PathDecision(Input) = Nothing
  BY <1>1 DEF PathDecision, Input
<1>3. ~Poisoned(analysis) /\ analysis.suspects = {} /\ analysis.systemFailure = ""
  BY AnalyzeExcludes DEF MeasuredInOrder, TypeOK
<1>4. DnsDecision(Input) = Nothing
  BY <1>3, DnsFound DEF DnsFindings, SuspectConvicted
<1>5. QED
  BY <1>1, <1>2, <1>4, DecisionFound

LEMMA RunWide ==
    /\ Run!LocalDown(RunWideFacts) <=> DownReason(local) # ""
    /\ Run!Intercepted(RunWideFacts) <=> intercepted = "detected"
BY DEF RunWideFacts, Run!LocalDown, Run!Intercepted, Run!Facts, Run!OnceFacts, Run!Unmeasured

LEMMA WorksAgrees ==
    ASSUME MeasuredInOrder, Decided, Healthy, SpeedKind \in {"none", "fine"}, DnsClean
    PROVE  decision.verdict = "OK"
<1> DEFINE path == PathDecision(Input)
           names == DnsDecision(Input)
<1>1. AnyWorking(tcp) /\ path # Nothing /\ path.verdict = "OK"
  BY HealthyPath
<1>2. ~SuspectConvicted
  BY DEF DnsClean, SuspectConvicted
<1>3. names = Nothing
  BY <1>2, DnsFound DEF DnsFindings, DnsClean
<1>4. QED
  BY <1>1, <1>3, DecisionFound

LEMMA ThrottledAgrees ==
    ASSUME MeasuredInOrder, Decided, Healthy, SpeedKind \notin {"none", "fine"}
    PROVE  decision.verdict = "THROTTLED"
<1> DEFINE path == PathDecision(Input)
<1>1. SpeedKind \in {"throughput", "handshake"}
  BY DEF SpeedKind, Compare
<1>2. AnyWorking(tcp) /\ path # Nothing /\ path.verdict = "THROTTLED"
  BY <1>1, HealthyPath
<1> HIDE DEF path
<1>3. QED
  BY <1>2, DecisionFound DEF path

LEMMA FirstIn ==
    ASSUME NEW S, NEW q \in Seq(S), q # <<>>
    PROVE  1 \in DOMAIN q
OBVIOUS

LEMMA DeadSays ==
    ASSUME NEW in, ~AnyRejected(in.tcp),
           AllAre(in.tcp, "timeout") \/ AllAre(in.tcp, "unreachable")
    PROVE  TcpDecision(in).verdict = "IP_BLOCKED"
<1>1. \E c \in Confidences, key \in {"timeout", "unreachable"} :
        TcpDecision(in) = Give("IP_BLOCKED", c, "tcp", key)
  BY Zenon DEF TcpDecision, Confidences
<1>2. QED
  BY <1>1 DEF Give

LEMMA UnclearTcp ==
    ASSUME NEW in, ~AnyRejected(in.tcp),
           ~AllAre(in.tcp, "timeout"), ~AllAre(in.tcp, "unreachable")
    PROVE  TcpDecision(in).verdict = "INCONCLUSIVE"
<1>1. TcpDecision(in) = Unclear
  BY Zenon DEF TcpDecision
<1>2. Unclear.verdict = "INCONCLUSIVE"
  BY UnclearSays DEF Says
<1>3. QED
  BY <1>1, <1>2, Zenon

LEMMA DeadAgrees ==
    ASSUME MeasuredInOrder, Decided, AllAre(tcp, "timeout") \/ AllAre(tcp, "unreachable"),
           DownReason(local) = ""
    PROVE  decision.verdict = "IP_BLOCKED"
<1> DEFINE path == PathDecision(Input)
<1>1. tcp # <<>> /\ ~AnyRejected(tcp) /\ ~AnyWorking(tcp)
  <2>1. tcp \in Seq(TcpOutcomes)
    BY LayersOfDecided
  <2>2. QED
    BY <2>1 DEF AllAre, AnyRejected, AnyWorking
<1>2. path.verdict = "IP_BLOCKED"
  <2>1. path = TcpDecision(Input) /\ Input.tcp = tcp
    BY <1>1 DEF PathDecision, Input
  <2> HIDE DEF path
  <2>2. TcpDecision(Input).verdict = "IP_BLOCKED"
    BY <1>1, <2>1, DeadSays
  <2>3. QED
    BY <2>1, <2>2
<1>3. path # Nothing
  BY <1>2, NothingSays
<1> HIDE DEF path
<1>4. QED
  BY <1>2, <1>3, DecisionFound DEF path

LEMMA PoisonedAgrees ==
    ASSUME MeasuredInOrder, Decided, Healthy, SpeedKind \in {"none", "fine"},
           Poisoned(analysis), ~analysis.injectedPublic
    PROVE  decision.verdict = IF intercepted = "detected" THEN "DNS_INTERCEPTED" ELSE "DNS_POISONED"
<1> DEFINE path == PathDecision(Input)
           names == DnsDecision(Input)
<1>1. AnyWorking(tcp) /\ path # Nothing /\ path.verdict = "OK"
  BY HealthyPath
<1>2. names.verdict = IF intercepted = "detected" THEN "DNS_INTERCEPTED" ELSE "DNS_POISONED"
  <2>1. Input.dns = analysis /\ Input.intercepted = (intercepted = "detected")
    BY DEF Input
  <2>2. QED
    BY <2>1 DEF DnsDecision, Give
<1>3. names # Nothing
  BY <1>2, NothingSays
<1> HIDE DEF path, names
<1>4. QED
  BY <1>1, <1>2, <1>3, DecisionFound DEF path, names

LEMMA SilentAgrees ==
    ASSUME MeasuredInOrder, Decided, control \in {"answers", "silent"}, DownReason(local) = "",
           control = "silent" => ~Confirmed(outage)
    PROVE  decision.verdict = IF control = "answers" THEN "DNS_INTERCEPTED" ELSE "INCONCLUSIVE"
<1>1. analysis.unresolvable
  BY DEF MeasuredInOrder, ConnectInOrder
<1>2. SilentFindings(decision)
  BY <1>1, UnresolvableDecision
<1>3. QED
  BY <1>2 DEF SilentFindings, Says

LEMMA UnclearAgrees ==
    ASSUME MeasuredInOrder, Decided, AllAre(tcp, "error"), DnsClean, DownReason(local) = ""
    PROVE  decision.verdict = "INCONCLUSIVE"
<1> DEFINE path == PathDecision(Input)
           names == DnsDecision(Input)
<1>1. /\ tcp # <<>> /\ ~AnyRejected(tcp) /\ ~AnyWorking(tcp)
      /\ ~AllAre(tcp, "timeout") /\ ~AllAre(tcp, "unreachable")
  <2>1. tcp \in Seq(TcpOutcomes) /\ tcp # <<>>
    BY LayersOfDecided DEF AllAre
  <2>2. 1 \in DOMAIN tcp
    BY <2>1, FirstIn
  <2>3. QED
    BY <2>1, <2>2 DEF AllAre, AnyRejected, AnyWorking
<1>2. path.verdict = "INCONCLUSIVE"
  <2>1. path = TcpDecision(Input) /\ Input.tcp = tcp
    BY <1>1 DEF PathDecision, Input
  <2> HIDE DEF path
  <2>2. TcpDecision(Input).verdict = "INCONCLUSIVE"
    BY <1>1, <2>1, UnclearTcp
  <2>3. QED
    BY <2>1, <2>2
<1>3. path # Nothing
  BY <1>2, NothingSays
<1>4. names = Nothing
  BY DnsFound DEF DnsFindings, DnsClean, SuspectConvicted
<1> HIDE DEF path, names
<1>5. QED
  BY <1>2, <1>3, <1>4, DecisionFound DEF path, names

LEMMA AgreesWithRunner == MeasuredInOrder => RunnerAgrees
<1> SUFFICES ASSUME MeasuredInOrder, Decided, NEW o \in Run!Outcomes, HasOutcome(o)
             PROVE  decision.verdict = Run!VerdictOf(o, RunWideFacts)
  BY DEF RunnerAgrees
<1> DEFINE down == Run!LocalDown(RunWideFacts)
<1>1. down <=> DownReason(local) # ""
  BY RunWide
<1>2. Run!Intercepted(RunWideFacts) <=> intercepted = "detected"
  BY RunWide
<1> HIDE DEF down
<1>3. Run!VerdictOf(o, RunWideFacts) =
        IF o \in Run!NoConnection /\ down THEN "LOCAL_NETWORK_DOWN"
        ELSE CASE o = "works" -> "OK"
               [] o = "throttled" -> "THROTTLED"
               [] o = "dead" -> "IP_BLOCKED"
               [] o = "poisoned" -> IF intercepted = "detected" THEN "DNS_INTERCEPTED" ELSE "DNS_POISONED"
               [] o = "dropped" -> "DNS_INTERCEPTED"
               [] OTHER -> "INCONCLUSIVE"
  BY <1>2 DEF Run!VerdictOf, down
<1>4. CASE o \in Run!NoConnection /\ down
  <2>1. ~AnyWorking(tcp)
    <3>1. CASE o \in {"dead", "unclear"}
      BY <3>1 DEF HasOutcome, AllAre, AnyWorking
    <3>2. CASE o \in {"silent", "dropped"}
      BY <3>2, UnresolvableDecision DEF HasOutcome, MeasuredInOrder, ConnectInOrder
    <3>3. QED
      BY <1>4, <3>1, <3>2 DEF Run!NoConnection
  <2>2. QED
    BY <1>1, <1>3, <1>4, <2>1, DownIsDecision
<1>5. CASE o = "works"
  BY <1>3, <1>5, WorksAgrees DEF HasOutcome, Run!NoConnection
<1>6. CASE o = "throttled"
  BY <1>3, <1>6, ThrottledAgrees DEF HasOutcome, Run!NoConnection
<1>7. CASE o = "poisoned"
  BY <1>3, <1>7, PoisonedAgrees DEF HasOutcome, Run!NoConnection
<1>8. CASE o = "dead" /\ ~down
  BY <1>1, <1>3, <1>8, DeadAgrees DEF HasOutcome
<1>9. CASE o = "silent" /\ ~down
  BY <1>1, <1>3, <1>9, SilentAgrees DEF HasOutcome
<1>10. CASE o = "dropped" /\ ~down
  BY <1>1, <1>3, <1>10, SilentAgrees DEF HasOutcome
<1>11. CASE o = "unclear" /\ ~down
  BY <1>1, <1>3, <1>11, UnclearAgrees DEF HasOutcome
<1>12. QED
  BY <1>4, <1>5, <1>6, <1>7, <1>8, <1>9, <1>10, <1>11 DEF Run!Outcomes, Run!NoConnection

\* The outcomes module Runner knows a target by stand for this pipeline: the verdict it
\* gives each of them is the engine's, whatever the run-wide checks found.
THEOREM RunnerAbstracts == Spec => []RunnerAgrees
BY AgreesWithRunner, InductiveInvariant, PTL
=============================================================================
