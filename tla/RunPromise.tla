----------------------------- MODULE RunPromise -----------------------------
(***************************************************************************)
(* What a run of chera promises, without goroutines, channels or slots:    *)
(* every run-wide fact is measured at most once; a target is judged once,  *)
(* and only from run-wide results that are final; the process reports      *)
(* success or problems only with every target judged and nothing cut       *)
(* short, and its exit code is the one the verdicts call for.              *)
(***************************************************************************)
EXTENDS RunFacts

VARIABLES
    measured,  \* the run-wide facts
    judged,    \* the targets' reports
    ended      \* how the process ended

Init ==
    /\ measured = [f \in Facts |-> Unmeasured]
    /\ judged = [t \in Targets |-> NoReport]
    /\ ended = "running"

Measure(f, v) ==
    /\ measured[f] = Unmeasured
    /\ measured' = [measured EXCEPT ![f] = v]
    /\ UNCHANGED <<judged, ended>>

\* The facts an outcome was derived from agree with the run's.
Grounded(o) ==
    /\ o = "dropped" => measured["control"] = "good"
    /\ o = "silent" => measured["control"] \in {"bad", "cut"}
    /\ o = "throttled" => measured["baseline"] = "good"

Judge(t, o, cut) ==
    /\ judged[t] = NoReport
    /\ \A c \in Checks : measured[c] # Unmeasured
    /\ Grounded(o)
    /\ judged' = [judged EXCEPT ![t] = [outcome |-> o, cut |-> cut,
                                             verdict |-> VerdictOf(o, measured)]]
    /\ UNCHANGED <<measured, ended>>

Uncut == /\ \A f \in Facts : measured[f] # "cut"
         /\ \A t \in Targets : ~judged[t].cut

End(code) ==
    /\ ended = "running"
    /\ \A t \in Targets : judged[t] # NoReport
    /\ code # "interrupted" => Uncut
    /\ code = "ok" => \A t \in Targets : judged[t].verdict = "OK"
    /\ code = "problems" => \E t \in Targets : judged[t].verdict # "OK"
    /\ ended' = code
    /\ UNCHANGED <<measured, judged>>

Next ==
    \/ \E f \in Facts, v \in Values : Measure(f, v)
    \/ \E t \in Targets, o \in Outcomes, cut \in BOOLEAN : Judge(t, o, cut)
    \/ \E code \in Exits \ {"running"} : End(code)

vars == <<measured, judged, ended>>

Spec == Init /\ [][Next]_vars
=============================================================================
