------------------------------ MODULE RunFacts ------------------------------
(***************************************************************************)
(* The vocabulary shared by the abstract run (RunPromise) and the detailed *)
(* one (Runner): what is measured once per run, what one target's layers   *)
(* can conclude on their own, and the verdict the two give together.       *)
(***************************************************************************)
EXTENDS Integers, FiniteSets

CONSTANTS
    NumTargets,  \* len(targets)
    Checks       \* the run-wide checks that are configured

ASSUME RunAssumption == /\ NumTargets \in Nat
                        /\ Checks \subseteq {"intercept", "local"}

Targets == 1..NumTargets

\* Measured at most once per run: the checks of probe.Run's own goroutines,
\* and the two lookups behind a sync.Once in the shared struct.
OnceFacts == {"control", "baseline"}
Facts == {"intercept", "local"} \cup OnceFacts

\* "good": nothing answered the probe, the connection is up, the control name
\* resolved, the baseline downloaded. "cut": stopped by the user's Ctrl-C.
Unmeasured == "unmeasured"
Values == {"good", "bad", "cut"}

\* What a target's own layers show, before the run-wide results are known.
\*   works / throttled  HTTP answered normally (and slowly against the baseline)
\*   dead               no reference address accepted a connection
\*   poisoned           plain DNS was wrong, the reference address works
\*   silent / dropped   no resolver answered; the control name did not / did
\*   unclear            no connection, for a reason netx.Classify calls "other"
Outcomes == {"works", "throttled", "dead", "poisoned", "silent", "dropped", "unclear"}

\* The outcomes in which tcpcheck.Summarize finds no working address.
NoConnection == {"dead", "silent", "dropped", "unclear"}

Verdicts == {"OK", "THROTTLED", "IP_BLOCKED", "DNS_POISONED", "DNS_INTERCEPTED",
             "INCONCLUSIVE", "LOCAL_NETWORK_DOWN"}

\* A check that is not configured leaves a nil pointer and accuses nobody. A cut
\* local check has failed baseline probes, so Down() holds; a cut interception
\* probe is an error, not an answer.
LocalDown(f) == f["local"] \in {"bad", "cut"}
Intercepted(f) == f["intercept"] = "bad"

\* verdict.Decide, on the outcomes above.
VerdictOf(o, f) ==
    IF o \in NoConnection /\ LocalDown(f) THEN "LOCAL_NETWORK_DOWN"
    ELSE CASE o = "works" -> "OK"
           [] o = "throttled" -> "THROTTLED"
           [] o = "dead" -> "IP_BLOCKED"
           [] o = "poisoned" -> IF Intercepted(f) THEN "DNS_INTERCEPTED" ELSE "DNS_POISONED"
           [] o = "dropped" -> "DNS_INTERCEPTED"
           [] OTHER -> "INCONCLUSIVE"

\* A report also remembers whether an interruption stopped a layer it rests on;
\* nothing in the code can tell, a cut layer looks like a failed one.
NoReport == [outcome |-> "none", cut |-> FALSE, verdict |-> "none"]
Reports == [outcome : Outcomes, cut : BOOLEAN, verdict : Verdicts]

\* How the process ended: still running, or one of cli's exit codes.
Exits == {"running", "ok", "problems", "interrupted"}
=============================================================================
