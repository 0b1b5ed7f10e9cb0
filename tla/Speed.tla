------------------------------- MODULE Speed --------------------------------
(***************************************************************************)
(* speed.Measure and speed.Compare: one timed download, and the thresholds *)
(* that tell a throttled target from a slow network. Rates are compared as *)
(* fractions, bytes over time, multiplied crosswise.                       *)
(***************************************************************************)
EXTENDS Integers

CONSTANTS
    MinBytes,       \* the smallest download with a meaningful rate
    MaxBytes,       \* where a download is cut
    SlowRate,       \* bytes per unit of time
    RateRatio,
    SlowHandshake,
    HandshakeRatio

ASSUME SpeedAssumption ==
    /\ MinBytes \in Nat \ {0}
    /\ MaxBytes \in Nat \ {0}
    /\ SlowRate \in Nat \ {0}
    /\ RateRatio \in Nat \ {0, 1}
    /\ SlowHandshake \in Nat
    /\ HandshakeRatio \in Nat \ {0}

\* How a download goes: whether a response begins, its status, the bytes that come
\* before the body's end, the timeout or an error, and the times on the clock. The
\* handshake of a reused connection takes none.
Download ==
    [replied : BOOLEAN, status : Nat, received : Nat, end : {"eof", "timeout", "error"},
     duration : Nat, handshake : Nat]

Measurement ==
    [status : Nat, bytes : Nat, duration : Nat, handshake : Nat, err : BOOLEAN]

\* Bytes beyond the limit are not read, nor what ends them.
Capped(n) == IF n < MaxBytes THEN n ELSE MaxBytes

\* Variant: a download cut off by the timeout has failed.
MeasureWhole(d) ==
    [status |-> IF d.replied THEN d.status ELSE 0,
     bytes |-> IF d.replied THEN Capped(d.received) ELSE 0,
     duration |-> d.duration,
     handshake |-> d.handshake,
     err |-> ~d.replied \/ (d.received < MaxBytes /\ d.end # "eof")]

\* A download the timeout cuts off counts, if anything arrived.
Measure(d) ==
    [status |-> IF d.replied THEN d.status ELSE 0,
     bytes |-> IF d.replied THEN Capped(d.received) ELSE 0,
     duration |-> d.duration,
     handshake |-> d.handshake,
     err |-> \/ ~d.replied
             \/ /\ d.received < MaxBytes
                /\ \/ d.end = "error"
                   \/ d.end = "timeout" /\ d.received = 0]

Success(status) == status \in 200..299

\* Measurement.Rate, as its numerator and denominator: none without time.
Amount(m) == IF m.duration <= 0 THEN 0 ELSE m.bytes
Time(m) == IF m.duration <= 0 THEN 1 ELSE m.duration

\* Compare's comparisons of a target's rate: with SlowRate, with the baseline's.
BelowSlowRate(m) == Amount(m) < SlowRate * Time(m)
FarBelow(target, baseline) ==
    (Amount(target) * RateRatio) * Time(baseline) <= Amount(baseline) * Time(target)

Comparable(target, baseline) == ~target.err /\ ~baseline.err /\ Success(baseline.status)

SlowThroughput(target, baseline) ==
    /\ Success(target.status)
    /\ target.bytes >= MinBytes
    /\ baseline.bytes >= MinBytes
    /\ BelowSlowRate(target)
    /\ FarBelow(target, baseline)

SlowShake(target, baseline) ==
    /\ target.handshake > SlowHandshake
    /\ baseline.handshake > 0
    /\ target.handshake > HandshakeRatio * baseline.handshake

\* Compare's Kind, "fine" when Throttled is false.
Compare(target, baseline) ==
    IF ~Comparable(target, baseline) THEN "fine"
    ELSE IF SlowThroughput(target, baseline) THEN "throughput"
    ELSE IF SlowShake(target, baseline) THEN "handshake"
    ELSE "fine"

-----------------------------------------------------------------------------
\* What the thresholds are about: the target's rate is at least the baseline's.
AsFast(target, baseline) ==
    Amount(target) * Time(baseline) >= Amount(baseline) * Time(target)
=============================================================================
