------------------------------- MODULE Runner -------------------------------
(***************************************************************************)
(* probe.Runner.Run and the part of cli.Main around it: one goroutine per  *)
(* run-wide check, a closer, one goroutine per target behind a semaphore,  *)
(* two sync.Once lookups, and Ctrl-C at any moment.                        *)
(*                                                                         *)
(* Goroutines interleave at their blocking points and at every access to   *)
(* shared state. A target's layers are abstracted to their outcome; module *)
(* Target has them in full.                                                *)
(***************************************************************************)
EXTENDS RunFacts

CONSTANTS
    Concurrency,  \* cap(sem)
    Speed         \* cfg.Speed: the throttling layer is enabled

ASSUME RunnerAssumption == /\ Concurrency \in Nat \ {0}
                           /\ Speed \in BOOLEAN

VARIABLES
    main,     \* where Run's own goroutine and its caller in cli.Main are
    spawned,  \* targets 1..spawned have a goroutine
    wg,       \* the targets' WaitGroup
    swg,      \* the run-wide checks' WaitGroup
    done,     \* sh.done is closed
    sem,      \* items in the semaphore channel
    phase,    \* the run-wide goroutines and the two sync.Once
    facts,    \* sh.intercept, sh.local, sh.control, sh.baseline
    pc,       \* where each target's goroutine is
    st,       \* what it has found: checkTarget's *run
    dohDown,
    report,   \* rep.Targets
    summary,  \* rep.Local
    ctx,      \* "live", or "cancelled" by Ctrl-C
    exit      \* the process's exit code

targetVars == <<pc, st, dohDown, report, wg, sem>>
mainVars == <<main, spawned, summary, exit>>
factVars == <<phase, facts, swg, done>>
vars == <<targetVars, mainVars, factVars, ctx>>

\* The steps of a target's goroutine. A target in Slotted holds a semaphore slot.
Calling == [control |-> "callControl", baseline |-> "callBaseline"]
Inside == [control |-> "inControl", baseline |-> "inBaseline"]
After == [control |-> "checked", baseline |-> "compare"]
Slotted == {"resolve", "callControl", "inControl", "layers",
            "callBaseline", "inBaseline", "compare", "checked"}
Steps == Slotted \cup {"unborn", "acquire", "await", "finished"}

NoSummary == [up |-> TRUE, intercepted |-> FALSE, dohUnreachable |-> FALSE]

Init ==
    /\ main = "spawn"
    /\ spawned = 0
    /\ wg = 0
    /\ swg = Cardinality(Checks)
    /\ done = FALSE
    /\ sem = 0
    /\ phase = [f \in Facts |-> IF f \in Checks THEN "running" ELSE "idle"]
    /\ facts = [f \in Facts |-> Unmeasured]
    /\ pc = [t \in Targets |-> "unborn"]
    /\ st = [t \in Targets |-> [outcome |-> "unclear", cut |-> FALSE]]
    /\ dohDown = [t \in Targets |-> FALSE]
    /\ report = [t \in Targets |-> NoReport]
    /\ summary = NoSummary
    /\ ctx = "live"
    /\ exit = "running"

\* What an operation can return: under a cancelled context it may be cut short.
Measured == {"good", "bad"} \cup (IF ctx = "cancelled" THEN {"cut"} ELSE {})
MayBeCut == IF ctx = "cancelled" THEN BOOLEAN ELSE {FALSE}

Goto(t, next) == pc' = [pc EXCEPT ![t] = next]

-----------------------------------------------------------------------------
(* The run-wide checks. *)

\* A check's goroutine stores its result and calls swg.Done.
CheckEnds(c) ==
    /\ phase[c] = "running"
    /\ \E v \in Measured : facts' = [facts EXCEPT ![c] = v]
    /\ phase' = [phase EXCEPT ![c] = "done"]
    /\ swg' = swg - 1
    /\ UNCHANGED <<done, targetVars, mainVars, ctx>>

\* The closer: swg.Wait(); close(sh.done).
Close ==
    /\ swg = 0
    /\ ~done
    /\ done' = TRUE
    /\ UNCHANGED <<phase, facts, swg, targetVars, mainVars, ctx>>

-----------------------------------------------------------------------------
(* Run's own goroutine. *)

\* One turn of the loop: wg.Add(1), then go.
Spawn ==
    /\ main = "spawn"
    /\ spawned < NumTargets
    /\ spawned' = spawned + 1
    /\ wg' = wg + 1
    /\ Goto(spawned + 1, "acquire")
    /\ UNCHANGED <<st, dohDown, report, sem, main, summary, exit, factVars, ctx>>

LoopEnds ==
    /\ main = "spawn"
    /\ spawned = NumTargets
    /\ main' = "wait"
    /\ UNCHANGED <<spawned, summary, exit, targetVars, factVars, ctx>>

\* Variant: the summary is built without waiting for the targets.
ReturnWithoutWait ==
    /\ main = "wait"
    /\ done
    /\ summary' = [up |-> ~LocalDown(facts),
                   intercepted |-> Intercepted(facts),
                   dohUnreachable |-> NumTargets > 0 /\ \A t \in Targets : dohDown[t]]
    /\ main' = "returned"
    /\ UNCHANGED <<spawned, exit, targetVars, factVars, ctx>>

\* wg.Wait(); <-sh.done; localSummary and DoHUnreachable.
Return ==
    /\ main = "wait"
    /\ wg = 0
    /\ done
    /\ summary' = [up |-> ~LocalDown(facts),
                   intercepted |-> Intercepted(facts),
                   dohUnreachable |-> NumTargets > 0 /\ \A t \in Targets : dohDown[t]]
    /\ main' = "returned"
    /\ UNCHANGED <<spawned, exit, targetVars, factVars, ctx>>

-----------------------------------------------------------------------------
(* A target's goroutine. *)

\* Variant: the semaphore is not waited for.
AcquireUnbounded(t) ==
    /\ pc[t] = "acquire"
    /\ sem' = sem + 1
    /\ Goto(t, "resolve")
    /\ UNCHANGED <<st, dohDown, report, wg, mainVars, factVars, ctx>>

\* sem <- struct{}{}
Acquire(t) ==
    /\ pc[t] = "acquire"
    /\ sem < Concurrency
    /\ sem' = sem + 1
    /\ Goto(t, "resolve")
    /\ UNCHANGED <<st, dohDown, report, wg, mainVars, factVars, ctx>>

\* Resolve and Analyze. When no resolver answered and every plain one timed
\* out, the control name decides; any other target goes on to its layers.
ResolveHost(t) ==
    /\ pc[t] = "resolve"
    /\ \E silent \in BOOLEAN, cut \in MayBeCut :
        /\ Goto(t, IF silent THEN Calling["control"] ELSE "layers")
        /\ st' = [st EXCEPT ![t] = [outcome |-> IF silent THEN "silent" ELSE "unclear",
                                    cut |-> cut]]
    /\ UNCHANGED <<dohDown, report, wg, sem, mainVars, factVars, ctx>>

\* Variant: "not done yet" is tested instead of "not begun yet".
OnceBeginsTwice(t, f) ==
    /\ pc[t] = Calling[f]
    /\ phase[f] # "done"
    /\ phase' = [phase EXCEPT ![f] = "running"]
    /\ Goto(t, Inside[f])
    /\ UNCHANGED <<facts, swg, done, st, dohDown, report, wg, sem, mainVars, ctx>>

\* sync.Once: the first caller runs the function, the others wait for it.
OnceBegins(t, f) ==
    /\ pc[t] = Calling[f]
    /\ phase[f] = "idle"
    /\ phase' = [phase EXCEPT ![f] = "running"]
    /\ Goto(t, Inside[f])
    /\ UNCHANGED <<facts, swg, done, st, dohDown, report, wg, sem, mainVars, ctx>>

\* What a caller makes of the value: Dropped for the control name; the baseline
\* is read later, when the target's own download is compared with it.
Learn(t, f, v) ==
    st' = IF f = "control" /\ v = "good"
            THEN [st EXCEPT ![t].outcome = "dropped"] ELSE st

OnceEnds(t, f) ==
    /\ pc[t] = Inside[f]
    /\ \E v \in Measured :
        /\ facts' = [facts EXCEPT ![f] = v]
        /\ Learn(t, f, v)
    /\ phase' = [phase EXCEPT ![f] = "done"]
    /\ Goto(t, After[f])
    /\ UNCHANGED <<swg, done, dohDown, report, wg, sem, mainVars, ctx>>

OnceJoins(t, f) ==
    /\ pc[t] = Calling[f]
    /\ phase[f] = "done"
    /\ Learn(t, f, facts[f])
    /\ Goto(t, After[f])
    /\ UNCHANGED <<dohDown, report, wg, sem, mainVars, factVars, ctx>>

\* TCP, TLS and HTTP; a target that answers normally goes on to the throttling layer.
Layers(t) ==
    /\ pc[t] = "layers"
    /\ \E o \in {"works", "dead", "poisoned", "unclear"}, cut \in MayBeCut :
        /\ st' = [st EXCEPT ![t] = [outcome |-> o, cut |-> @.cut \/ cut]]
        /\ Goto(t, IF Speed /\ o \in {"works", "poisoned"} THEN Calling["baseline"]
                   ELSE "checked")
    /\ UNCHANGED <<dohDown, report, wg, sem, mainVars, factVars, ctx>>

\* The target's own download, and speed.Compare, which accuses nobody without a
\* baseline. THROTTLED is a path verdict, so it outranks a DNS problem.
Compare(t) ==
    /\ pc[t] = "compare"
    /\ \E slow \in BOOLEAN, cut \in MayBeCut :
        st' = [st EXCEPT ![t] =
                [outcome |-> IF slow /\ facts["baseline"] = "good" THEN "throttled" ELSE @.outcome,
                 cut |-> @.cut \/ cut]]
    /\ Goto(t, "checked")
    /\ UNCHANGED <<dohDown, report, wg, sem, mainVars, factVars, ctx>>

\* checkTarget has returned: whether its analysis found every DoH resolver out of reach.
NoteDoH(t) == \E down \in BOOLEAN : dohDown' = [dohDown EXCEPT ![t] = down]

\* Variant: the slot is never given back.
ReleaseForgotten(t) ==
    /\ pc[t] = "checked"
    /\ NoteDoH(t)
    /\ Goto(t, "await")
    /\ UNCHANGED <<st, report, wg, sem, mainVars, factVars, ctx>>

\* Variant: the slot is kept while waiting for the run-wide results.
ReleaseAfterDone(t) ==
    /\ pc[t] = "checked"
    /\ done
    /\ NoteDoH(t)
    /\ sem' = sem - 1
    /\ Goto(t, "await")
    /\ UNCHANGED <<st, report, wg, mainVars, factVars, ctx>>

\* dohDown[i] is set, then <-sem, before the wait for the run-wide results.
Release(t) ==
    /\ pc[t] = "checked"
    /\ NoteDoH(t)
    /\ sem' = sem - 1
    /\ Goto(t, "await")
    /\ UNCHANGED <<st, report, wg, mainVars, factVars, ctx>>

\* Variant: the verdict does not wait for the run-wide results.
DecideEarly(t) ==
    /\ pc[t] = "await"
    /\ report' = [report EXCEPT ![t] = [outcome |-> st[t].outcome, cut |-> st[t].cut,
                                        verdict |-> VerdictOf(st[t].outcome, facts)]]
    /\ wg' = wg - 1
    /\ Goto(t, "finished")
    /\ UNCHANGED <<st, dohDown, sem, mainVars, factVars, ctx>>

\* <-sh.done; decide; rep.Targets[i] = tr; wg.Done.
Decide(t) ==
    /\ pc[t] = "await"
    /\ done
    /\ report' = [report EXCEPT ![t] = [outcome |-> st[t].outcome, cut |-> st[t].cut,
                                        verdict |-> VerdictOf(st[t].outcome, facts)]]
    /\ wg' = wg - 1
    /\ Goto(t, "finished")
    /\ UNCHANGED <<st, dohDown, sem, mainVars, factVars, ctx>>

-----------------------------------------------------------------------------
(* The process around the run. *)

\* Ctrl-C before cli.Main has looked at ctx.
Interrupt ==
    /\ ctx = "live"
    /\ exit = "running"
    /\ ctx' = "cancelled"
    /\ UNCHANGED <<targetVars, mainVars, factVars>>

\* Variants: the interruption goes unnoticed; one healthy target is enough.
ExitCodeUnaware ==
    IF \A t \in Targets : report[t].verdict = "OK" THEN "ok" ELSE "problems"

ExitCodeAnyOK ==
    IF ctx = "cancelled" THEN "interrupted"
    ELSE IF \E t \in Targets : report[t].verdict = "OK" THEN "ok" ELSE "problems"

\* cli.Main after Run: an interrupted run prints nothing, any other its report.
ExitCode ==
    IF ctx = "cancelled" THEN "interrupted"
    ELSE IF \A t \in Targets : report[t].verdict = "OK" THEN "ok" ELSE "problems"

Exit ==
    /\ main = "returned"
    /\ exit = "running"
    /\ exit' = ExitCode
    /\ UNCHANGED <<main, spawned, summary, targetVars, factVars, ctx>>

\* The process is gone.
Ended == exit # "running" /\ UNCHANGED vars

TargetStep(t) ==
    \/ Acquire(t) \/ ResolveHost(t) \/ Layers(t) \/ Compare(t) \/ Release(t) \/ Decide(t)
    \/ \E f \in OnceFacts : OnceBegins(t, f) \/ OnceEnds(t, f) \/ OnceJoins(t, f)

MainStep == Spawn \/ LoopEnds \/ Return \/ Exit

SharedStep == Close \/ \E c \in Checks : CheckEnds(c)

Next ==
    \/ MainStep
    \/ SharedStep
    \/ \E t \in Targets : TargetStep(t)
    \/ Interrupt
    \/ Ended

Spec == Init /\ [][Next]_vars

\* Every operation of a target is bounded by a timeout, and Go's scheduler and
\* channels are fair to a goroutine that stays runnable.
TargetFairness == /\ WF_vars(MainStep)
                  /\ \A t \in Targets : WF_vars(TargetStep(t))

\* So is every operation of the run-wide checks.
SharedFairness == WF_vars(SharedStep)

\* The run-wide checks may hang for ever.
HangingSpec == Spec /\ TargetFairness

-----------------------------------------------------------------------------
(* Properties. *)

TypeOK ==
    /\ main \in {"spawn", "wait", "returned"}
    /\ spawned \in 0..NumTargets
    /\ wg \in Nat
    /\ swg \in Nat
    /\ done \in BOOLEAN
    /\ sem \in 0..Concurrency
    /\ phase \in [Facts -> {"idle", "running", "done"}]
    /\ facts \in [Facts -> Values \cup {Unmeasured}]
    /\ pc \in [Targets -> Steps]
    /\ st \in [Targets -> [outcome : Outcomes, cut : BOOLEAN]]
    /\ dohDown \in [Targets -> BOOLEAN]
    /\ report \in [Targets -> Reports \cup {NoReport}]
    /\ summary \in [up : BOOLEAN, intercepted : BOOLEAN, dohUnreachable : BOOLEAN]
    /\ ctx \in {"live", "cancelled"}
    /\ exit \in Exits

Holding == {t \in Targets : pc[t] \in Slotted}
Alive == {t \in Targets : pc[t] \notin {"unborn", "finished"}}
Pending == {c \in Checks : phase[c] = "running"}

\* Concurrency is the number of targets checked in parallel (probe.go:34): no
\* interleaving of acquires and releases lets more of them work on the network.
ConcurrencyBound ==
    Cardinality(Holding) <= Concurrency

\* decide "must only be called after the shared checks are done" (probe.go:371):
\* every verdict rests on the run-wide results as they stand at the end of the
\* run, so that no two targets are judged by different ones.
VerdictsFromFinalFacts ==
    \A t \in Targets : report[t] # NoReport =>
        /\ \A c \in Checks : facts[c] # Unmeasured
        /\ report[t].verdict = VerdictOf(report[t].outcome, facts)

\* "It is looked up at most once per run" (probe.go:156), and the same for every
\* run-wide result: a value somebody may have read is never replaced.
OncePerRun ==
    [][\A f \in Facts : facts[f] # Unmeasured => facts'[f] = facts[f]]_facts

\* Targets that consult the control name or the baseline believe the one answer
\* of the run: queries are never called dropped for one and lost for another.
OneAnswerForAll ==
    \A t \in Targets : pc[t] \in {"checked", "await", "finished"} =>
        /\ st[t].outcome = "dropped" => facts["control"] = "good"
        /\ st[t].outcome = "silent" => facts["control"] \in {"bad", "cut"}
        /\ st[t].outcome = "throttled" => facts["baseline"] = "good"

\* The report Run returns has every target, and its summary agrees with the
\* verdicts: no target is blamed on a local network the summary calls up, and DoH
\* is called unreachable exactly when it was so for every target.
SummaryComplete ==
    main = "returned" =>
        /\ \A t \in Targets :
            /\ report[t] # NoReport
            /\ report[t].verdict = "LOCAL_NETWORK_DOWN" => ~summary.up
        /\ summary.dohUnreachable <=> NumTargets > 0 /\ \A t \in Targets : dohDown[t]

\* "Checks cut short by Ctrl-C look like timeouts; a report built from them would
\* blame the network for the interruption" (cli.go:284): none is ever printed.
PrintedUncut ==
    exit \in {"ok", "problems"} =>
        /\ \A f \in Facts : facts[f] # "cut"
        /\ \A t \in Targets : ~report[t].cut

\* The inductive invariant. The three counters count what they stand for: the
\* slots taken, the targets still alive, the run-wide checks still running.
Counted ==
    /\ sem = Cardinality(Holding)
    /\ wg = Cardinality(Alive)
    /\ swg = Cardinality(Pending)

\* Run's goroutine leaves its loop with every target started, and returns with
\* every target finished.
MainInOrder ==
    /\ \A t \in Targets : pc[t] = "unborn" <=> t > spawned
    /\ main # "spawn" => spawned = NumTargets
    /\ main = "returned" => \A t \in Targets : pc[t] = "finished"
    /\ exit # "running" => main = "returned"

\* A run-wide result exists exactly when what measures it is over, and at most one
\* target is inside each sync.Once.
SharedInOrder ==
    /\ \A f \in Facts : phase[f] = "done" <=> facts[f] # Unmeasured
    /\ \A c \in Checks : phase[c] # "idle"
    /\ done => \A c \in Checks : phase[c] = "done"
    /\ \A f \in OnceFacts, t \in Targets :
        pc[t] = Inside[f] =>
            /\ phase[f] = "running"
            /\ \A u \in Targets : pc[u] = Inside[f] => u = t

\* What each target holds at each of its steps.
TargetsInOrder ==
    \A t \in Targets :
        /\ pc[t] \in {"callControl", "inControl"} => st[t].outcome = "silent"
        /\ pc[t] \in {"callBaseline", "inBaseline", "compare"} =>
            st[t].outcome \in {"works", "poisoned"}
        /\ pc[t] = "finished" <=> report[t] # NoReport
        /\ pc[t] = "finished" =>
            /\ done
            /\ report[t].outcome = st[t].outcome
            /\ report[t].cut = st[t].cut

\* Nothing is cut short under a live context.
CutOnlyByCtrlC ==
    ctx = "live" => /\ \A f \in Facts : facts[f] # "cut"
                    /\ \A t \in Targets : ~st[t].cut

\* The printed report was decided on under a live context.
PrintedLive == exit \in {"ok", "problems"} => ctx = "live"

\* Slots, counters, goroutines and facts fit together (probe.go:185-227).
IInv ==
    /\ TypeOK
    /\ Counted
    /\ MainInOrder
    /\ SharedInOrder
    /\ TargetsInOrder
    /\ OneAnswerForAll
    /\ VerdictsFromFinalFacts
    /\ SummaryComplete
    /\ CutOnlyByCtrlC
    /\ PrintedLive

\* The run implements what RunPromise promises.
Promise == INSTANCE RunPromise WITH measured <- facts, judged <- report, ended <- exit
KeepsPromise == Promise!Spec

\* Every run ends, interrupted or not, whatever its targets find: of the run-wide
\* checks it needs only that they end too.
Terminates == SharedFairness => <>(exit # "running")

\* A run-wide check that hangs delays the verdicts and nothing else: every target
\* still gets through all of its layers, however few the slots are.
LayersDontWait == <>(\A t \in Targets : pc[t] \in {"await", "finished"})
=============================================================================
