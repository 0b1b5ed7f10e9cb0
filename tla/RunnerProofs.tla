---------------------------- MODULE RunnerProofs ----------------------------
(***************************************************************************)
(* Proofs about module Runner, for every number of targets and slots.      *)
(***************************************************************************)
EXTENDS Runner, FiniteSetTheorems, TLAPS

USE DEF Targets

-----------------------------------------------------------------------------
(* Counting. *)

\* What a target at step p adds to each count.
InSlot(p) == IF p \in Slotted THEN 1 ELSE 0
IsAlive(p) == IF p \in {"unborn", "finished"} THEN 0 ELSE 1

\* Moving one target to another step changes the number of slot holders and of
\* live targets by exactly that target.
LEMMA MoveCounts ==
    ASSUME NEW t \in Targets, NEW next \in Steps,
           pc \in [Targets -> Steps], pc' = [pc EXCEPT ![t] = next]
    PROVE  /\ Cardinality(Holding') = Cardinality(Holding) + InSlot(next) - InSlot(pc[t])
           /\ Cardinality(Alive') = Cardinality(Alive) + IsAlive(next) - IsAlive(pc[t])
           /\ Cardinality(Holding) \in Nat /\ Cardinality(Holding') \in Nat
           /\ Cardinality(Alive) \in Nat /\ Cardinality(Alive') \in Nat
<1>1. /\ IsFiniteSet(Holding) /\ IsFiniteSet(Holding')
      /\ IsFiniteSet(Alive) /\ IsFiniteSet(Alive')
  <2>1. IsFiniteSet(Targets)
    BY FS_Interval, RunAssumption
  <2>2. /\ Holding \in SUBSET Targets /\ Holding' \in SUBSET Targets
        /\ Alive \in SUBSET Targets /\ Alive' \in SUBSET Targets
    BY DEF Holding, Alive
  <2>3. QED
    BY <2>1, <2>2, FS_Subset
<1>2. Holding' = IF next \in Slotted THEN Holding \cup {t} ELSE Holding \ {t}
  BY DEF Holding
<1>3. Alive' = IF next \notin {"unborn", "finished"} THEN Alive \cup {t} ELSE Alive \ {t}
  BY DEF Alive
<1>4. (t \in Holding <=> pc[t] \in Slotted) /\ (t \in Alive <=> pc[t] \notin {"unborn", "finished"})
  BY DEF Holding, Alive
<1>5. /\ Cardinality(Holding) \in Nat /\ Cardinality(Holding') \in Nat
      /\ Cardinality(Alive) \in Nat /\ Cardinality(Alive') \in Nat
  BY <1>1, FS_CardinalityType
<1>6. /\ Cardinality(Holding \cup {t}) = IF t \in Holding THEN Cardinality(Holding)
                                          ELSE Cardinality(Holding) + 1
      /\ Cardinality(Holding \ {t}) = IF t \in Holding THEN Cardinality(Holding) - 1
                                       ELSE Cardinality(Holding)
  BY <1>1, FS_AddElement, FS_RemoveElement
<1>7. /\ Cardinality(Alive \cup {t}) = IF t \in Alive THEN Cardinality(Alive)
                                        ELSE Cardinality(Alive) + 1
      /\ Cardinality(Alive \ {t}) = IF t \in Alive THEN Cardinality(Alive) - 1
                                     ELSE Cardinality(Alive)
  BY <1>1, FS_AddElement, FS_RemoveElement
<1>8. QED
  <2>1. Cardinality(Holding') = Cardinality(Holding) + InSlot(next) - InSlot(pc[t])
    BY <1>2, <1>4, <1>5, <1>6 DEF InSlot
  <2>2. Cardinality(Alive') = Cardinality(Alive) + IsAlive(next) - IsAlive(pc[t])
    BY <1>3, <1>4, <1>5, <1>7 DEF IsAlive
  <2>3. QED
    BY <1>5, <2>1, <2>2

\* In particular, the steps a target takes while it holds a slot change neither.
LEMMA SlottedMoveCounts ==
    ASSUME NEW t \in Targets, NEW next \in Slotted, pc[t] \in Slotted,
           pc \in [Targets -> Steps], pc' = [pc EXCEPT ![t] = next]
    PROVE  Cardinality(Holding') = Cardinality(Holding) /\ Cardinality(Alive') = Cardinality(Alive)
<1>1. next \in Steps /\ InSlot(next) = InSlot(pc[t]) /\ IsAlive(next) = IsAlive(pc[t])
  BY DEF Slotted, Steps, InSlot, IsAlive
<1>2. /\ Cardinality(Holding') = Cardinality(Holding) + InSlot(next) - InSlot(pc[t])
      /\ Cardinality(Alive') = Cardinality(Alive) + IsAlive(next) - IsAlive(pc[t])
      /\ Cardinality(Holding) \in Nat
      /\ Cardinality(Alive) \in Nat
  BY <1>1, MoveCounts, Zenon
<1>3. QED
  BY <1>1, <1>2 DEF InSlot, IsAlive

\* A step that moves no target leaves both counts alone.
LEMMA StayCounts ==
    ASSUME UNCHANGED pc
    PROVE  Holding' = Holding /\ Alive' = Alive
BY DEF Holding, Alive

LEMMA TwoChecksFinite ==
    IsFiniteSet({"intercept", "local"})
<1>1. {"intercept", "local"} = {"intercept"} \cup {"local"}
  OBVIOUS
<1>2. IsFiniteSet({"intercept"})
  BY FS_Singleton
<1>3. QED
  BY <1>1, <1>2, FS_AddElement

LEMMA PendingFinite ==
    IsFiniteSet(Pending) /\ Cardinality(Pending) \in Nat
<1>1. Pending \in SUBSET {"intercept", "local"}
  BY RunAssumption DEF Pending
<1>2. QED
  BY <1>1, TwoChecksFinite, FS_Subset, FS_CardinalityType

\* A target calling, inside or past a sync.Once holds a slot.
LEMMA OnceSlotted ==
    ASSUME NEW f \in OnceFacts
    PROVE  Calling[f] \in Slotted /\ Inside[f] \in Slotted /\ After[f] \in Slotted
BY DEF OnceFacts, Calling, Inside, After, Slotted

\* When the targets' WaitGroup is down after the loop, every target has finished.
LEMMA AllFinished ==
    ASSUME IInv, main # "spawn", wg = 0
    PROVE  \A t \in Targets : pc[t] = "finished"
<1>1. Alive = {}
  <2>1. Alive \in SUBSET Targets /\ IsFiniteSet(Targets)
    BY FS_Interval, RunAssumption DEF Alive
  <2>2. IsFiniteSet(Alive)
    BY <2>1, FS_Subset
  <2>3. QED
    BY <2>2, FS_EmptySet DEF IInv, Counted
<1>2. \A t \in Targets : pc[t] # "unborn"
  BY RunAssumption DEF IInv, TypeOK, MainInOrder
<1>3. QED
  BY <1>1, <1>2 DEF Alive

\* When the run-wide checks' WaitGroup is down, every one of them is over.
LEMMA AllMeasured ==
    ASSUME IInv, swg = 0
    PROVE  \A c \in Checks : phase[c] = "done"
<1>1. Pending = {}
  BY PendingFinite, FS_EmptySet DEF IInv, Counted
<1>2. QED
  BY <1>1, RunAssumption DEF IInv, TypeOK, SharedInOrder, Pending, Facts

-----------------------------------------------------------------------------
(* The inductive invariant: one lemma per action, one step per part of the   *)
(* invariant that the action disturbs, and one for the parts it leaves alone. *)

USE DEF Facts, OnceFacts, Goto, targetVars, mainVars, factVars

LEMMA SpawnKeeps ==
    ASSUME IInv, Spawn
    PROVE  IInv'
<1>1. Counted'
  <2> DEFINE t == spawned + 1
  <2>1. t \in Targets /\ "acquire" \in Steps
    BY RunAssumption DEF IInv, TypeOK, Spawn, Steps, Slotted
  <2>2. /\ pc' = [pc EXCEPT ![t] = "acquire"]
        /\ pc[t] = "unborn"
        /\ pc \in [Targets -> Steps]
    BY <2>1, RunAssumption DEF IInv, TypeOK, MainInOrder, Spawn
  <2> HIDE DEF t
  <2>3. /\ Cardinality(Holding') = Cardinality(Holding) + InSlot("acquire") - InSlot("unborn")
        /\ Cardinality(Alive') = Cardinality(Alive) + IsAlive("acquire") - IsAlive("unborn")
        /\ Cardinality(Holding) \in Nat /\ Cardinality(Alive) \in Nat
    BY <2>1, <2>2, MoveCounts, Zenon
  <2>4. UNCHANGED Pending
    BY DEF Spawn, Pending
  <2>5. QED
    BY <2>3, <2>4 DEF IInv, Counted, Spawn, InSlot, IsAlive, Slotted
<1>2. TypeOK'
  BY RunAssumption DEF IInv, TypeOK, Spawn, Steps, Slotted
<1>3. MainInOrder'
  BY DEF IInv, TypeOK, MainInOrder, Spawn
<1>4. SharedInOrder'
  BY DEF IInv, TypeOK, SharedInOrder, Spawn, Inside, Unmeasured
<1>5. TargetsInOrder'
  <2>1. pc[spawned + 1] = "unborn" /\ spawned + 1 \in Targets
    BY RunAssumption DEF IInv, TypeOK, MainInOrder, Spawn
  <2>2. QED
    BY <2>1 DEF IInv, TypeOK, TargetsInOrder, Spawn
<1>6. OneAnswerForAll'
  BY DEF IInv, TypeOK, OneAnswerForAll, Spawn
<1>7. (VerdictsFromFinalFacts /\ SummaryComplete /\ CutOnlyByCtrlC /\ PrintedLive)'
  BY DEF IInv, VerdictsFromFinalFacts, SummaryComplete, CutOnlyByCtrlC, PrintedLive,
     Spawn
<1>8. QED
  BY <1>1, <1>2, <1>3, <1>4, <1>5, <1>6, <1>7 DEF IInv

LEMMA LoopEndsKeeps ==
    ASSUME IInv, LoopEnds
    PROVE  IInv'
<1>1. TypeOK'
  BY DEF IInv, TypeOK, LoopEnds, Steps, Slotted, Values, Outcomes
<1>2. MainInOrder'
  BY DEF IInv, TypeOK, MainInOrder, LoopEnds
<1>3. SummaryComplete'
  BY DEF IInv, TypeOK, SummaryComplete, LoopEnds
<1>4. (Counted /\ SharedInOrder /\ TargetsInOrder /\ OneAnswerForAll
       /\ VerdictsFromFinalFacts /\ CutOnlyByCtrlC /\ PrintedLive)'
  BY DEF IInv, Counted, Holding, Alive, Pending, SharedInOrder, TargetsInOrder,
     OneAnswerForAll, VerdictsFromFinalFacts, CutOnlyByCtrlC, PrintedLive, LoopEnds
<1>5. QED
  BY <1>1, <1>2, <1>3, <1>4 DEF IInv

LEMMA ReturnKeeps ==
    ASSUME IInv, Return
    PROVE  IInv'
<1>1. TypeOK'
  BY DEF IInv, TypeOK, Return, LocalDown, Intercepted
<1>2. MainInOrder'
  BY AllFinished DEF IInv, MainInOrder, Return
<1>3. SummaryComplete'
  <2>1. \A t \in Targets : pc[t] = "finished"
    BY AllFinished DEF Return
  <2>2. ASSUME NEW t \in Targets, report[t].verdict = "LOCAL_NETWORK_DOWN"
        PROVE  LocalDown(facts)
    BY <2>1, <2>2 DEF IInv, TargetsInOrder, VerdictsFromFinalFacts, VerdictOf
  <2>3. QED
    BY <2>1, <2>2 DEF IInv, TargetsInOrder, SummaryComplete, Return
<1>4. (Counted /\ SharedInOrder /\ TargetsInOrder /\ OneAnswerForAll
       /\ VerdictsFromFinalFacts /\ CutOnlyByCtrlC /\ PrintedLive)'
  BY DEF IInv, Counted, Holding, Alive, Pending, SharedInOrder, TargetsInOrder,
     OneAnswerForAll, VerdictsFromFinalFacts, CutOnlyByCtrlC, PrintedLive, Return
<1>5. QED
  BY <1>1, <1>2, <1>3, <1>4 DEF IInv

LEMMA ExitKeeps ==
    ASSUME IInv, Exit
    PROVE  IInv'
<1>1. TypeOK'
  BY DEF IInv, TypeOK, Exit, ExitCode, Exits
<1>2. MainInOrder'
  BY DEF IInv, TypeOK, MainInOrder, Exit, ExitCode
<1>3. PrintedLive'
  BY DEF IInv, TypeOK, PrintedLive, Exit, ExitCode
<1>4. (Counted /\ SharedInOrder /\ TargetsInOrder /\ OneAnswerForAll
       /\ VerdictsFromFinalFacts /\ SummaryComplete /\ CutOnlyByCtrlC)'
  BY DEF IInv, Counted, Holding, Alive, Pending, SharedInOrder, TargetsInOrder,
     OneAnswerForAll, VerdictsFromFinalFacts, SummaryComplete, CutOnlyByCtrlC, Exit
<1>5. QED
  BY <1>1, <1>2, <1>3, <1>4 DEF IInv

LEMMA CloseKeeps ==
    ASSUME IInv, Close
    PROVE  IInv'
<1>1. TypeOK'
  BY DEF IInv, TypeOK, Close, Steps, Slotted, Values, Outcomes
<1>2. SharedInOrder'
  BY AllMeasured DEF IInv, SharedInOrder, Close
<1>3. TargetsInOrder'
  BY DEF IInv, TypeOK, TargetsInOrder, Close
<1>4. (Counted /\ MainInOrder /\ OneAnswerForAll /\ VerdictsFromFinalFacts
       /\ SummaryComplete /\ CutOnlyByCtrlC /\ PrintedLive)'
  BY DEF IInv, Counted, Holding, Alive, Pending, MainInOrder, OneAnswerForAll,
     VerdictsFromFinalFacts, SummaryComplete, CutOnlyByCtrlC, PrintedLive, Close
<1>5. QED
  BY <1>1, <1>2, <1>3, <1>4 DEF IInv

LEMMA CheckEndsKeeps ==
    ASSUME NEW c \in Checks, IInv, CheckEnds(c)
    PROVE  IInv'
<1>1. Counted'
  <2>1. /\ Pending' = Pending \ {c}
        /\ c \in Pending
    BY RunAssumption DEF IInv, TypeOK, CheckEnds, Pending
  <2>2. Cardinality(Pending') = Cardinality(Pending) - 1
    BY <2>1, PendingFinite, FS_RemoveElement
  <2>3. QED
    BY <2>2, StayCounts DEF IInv, Counted, CheckEnds
<1>2. TypeOK'
  <2>1. swg' \in Nat
    <3>1. c \in Pending
      BY DEF CheckEnds, Pending
    <3>2. Cardinality(Pending) # 0
      BY <3>1, PendingFinite, FS_EmptySet
    <3>3. QED
      BY <3>2, PendingFinite DEF IInv, Counted, CheckEnds
  <2>2. QED
    BY <2>1, RunAssumption DEF IInv, TypeOK, CheckEnds, Measured, Values
<1>3. SharedInOrder'
  BY RunAssumption DEF IInv, TypeOK, SharedInOrder, CheckEnds, Measured, Unmeasured
<1>4. OneAnswerForAll'
  BY RunAssumption DEF IInv, TypeOK, OneAnswerForAll, CheckEnds
<1>5. VerdictsFromFinalFacts'
  <2>1. ~done
    BY DEF IInv, SharedInOrder, CheckEnds
  <2>2. \A t \in Targets : report[t] = NoReport
    BY <2>1 DEF IInv, TargetsInOrder
  <2>3. QED
    BY <2>2 DEF VerdictsFromFinalFacts, CheckEnds
<1>6. CutOnlyByCtrlC'
  BY DEF IInv, TypeOK, CutOnlyByCtrlC, CheckEnds, Measured
<1>7. (MainInOrder /\ TargetsInOrder /\ SummaryComplete /\ PrintedLive)'
  BY DEF IInv, MainInOrder, TargetsInOrder, SummaryComplete, PrintedLive, CheckEnds
<1>8. QED
  BY <1>1, <1>2, <1>3, <1>4, <1>5, <1>6, <1>7 DEF IInv

LEMMA AcquireKeeps ==
    ASSUME NEW t \in Targets, IInv, Acquire(t)
    PROVE  IInv'
<1>1. Counted'
  <2>1. /\ pc' = [pc EXCEPT ![t] = "resolve"]
        /\ pc[t] = "acquire"
        /\ "resolve" \in Steps
        /\ pc \in [Targets -> Steps]
    BY DEF IInv, TypeOK, Acquire, Steps, Slotted
  <2>2. /\ Cardinality(Holding') = Cardinality(Holding) + InSlot("resolve") - InSlot("acquire")
        /\ Cardinality(Alive') = Cardinality(Alive) + IsAlive("resolve") - IsAlive("acquire")
        /\ Cardinality(Holding) \in Nat /\ Cardinality(Alive) \in Nat
    BY <2>1, MoveCounts, Zenon
  <2>3. UNCHANGED Pending
    BY DEF Acquire, Pending
  <2>4. QED
    BY <2>2, <2>3 DEF IInv, Counted, Acquire, InSlot, IsAlive, Slotted
<1>2. TypeOK'
  BY RunnerAssumption DEF IInv, TypeOK, Acquire, Steps, Slotted
<1>3. MainInOrder'
  BY DEF IInv, TypeOK, MainInOrder, Acquire
<1>4. SharedInOrder'
  BY DEF IInv, TypeOK, SharedInOrder, Acquire, Inside, Unmeasured
<1>5. TargetsInOrder'
  BY DEF IInv, TypeOK, TargetsInOrder, Acquire
<1>6. OneAnswerForAll'
  BY DEF IInv, TypeOK, OneAnswerForAll, Acquire
<1>7. (VerdictsFromFinalFacts /\ SummaryComplete /\ CutOnlyByCtrlC /\ PrintedLive)'
  BY DEF IInv, VerdictsFromFinalFacts, SummaryComplete, CutOnlyByCtrlC, PrintedLive,
     Acquire
<1>8. QED
  BY <1>1, <1>2, <1>3, <1>4, <1>5, <1>6, <1>7 DEF IInv

LEMMA ResolveHostKeeps ==
    ASSUME NEW t \in Targets, IInv, ResolveHost(t)
    PROVE  IInv'
<1>1. Counted'
  <2>1. pc[t] \in Slotted /\ \E next \in Slotted : pc' = [pc EXCEPT ![t] = next]
    BY DEF ResolveHost, Slotted, Calling
  <2>2. UNCHANGED Pending
    BY DEF ResolveHost, Pending
  <2>3. QED
    BY <2>1, <2>2, SlottedMoveCounts DEF IInv, TypeOK, Counted, ResolveHost
<1>2. TypeOK'
  <2>1. PICK silent \in BOOLEAN, cut \in MayBeCut :
            st' = [st EXCEPT ![t] = [outcome |-> IF silent THEN "silent" ELSE "unclear",
                                     cut |-> cut]]
    BY DEF ResolveHost
  <2>2. st' \in [Targets -> [outcome : Outcomes, cut : BOOLEAN]]
    BY <2>1 DEF IInv, TypeOK, MayBeCut, Outcomes
  <2>3. pc' \in [Targets -> Steps]
    BY DEF IInv, TypeOK, ResolveHost, Calling, Steps, Slotted
  <2>4. QED
    BY <2>2, <2>3 DEF IInv, TypeOK, ResolveHost
<1>3. MainInOrder'
  BY DEF IInv, TypeOK, MainInOrder, ResolveHost, Calling, MayBeCut
<1>4. SharedInOrder'
  BY DEF IInv, TypeOK, SharedInOrder, ResolveHost, Calling, MayBeCut, Inside, Unmeasured
<1>5. TargetsInOrder'
  BY DEF IInv, TypeOK, TargetsInOrder, ResolveHost, Calling, MayBeCut
<1>6. OneAnswerForAll'
  BY DEF IInv, TypeOK, OneAnswerForAll, ResolveHost, Calling, MayBeCut
<1>7. SummaryComplete'
  BY DEF IInv, MainInOrder, SummaryComplete, ResolveHost
<1>8. CutOnlyByCtrlC'
  BY DEF IInv, TypeOK, CutOnlyByCtrlC, ResolveHost, Calling, MayBeCut
<1>9. (VerdictsFromFinalFacts /\ PrintedLive)'
  BY DEF IInv, VerdictsFromFinalFacts, PrintedLive, ResolveHost
<1>10. QED
  BY <1>1, <1>2, <1>3, <1>4, <1>5, <1>6, <1>7, <1>8, <1>9 DEF IInv

LEMMA OnceBeginsKeeps ==
    ASSUME NEW t \in Targets, NEW f \in OnceFacts, IInv, OnceBegins(t, f)
    PROVE  IInv'
<1>1. Counted'
  <2>1. pc[t] \in Slotted /\ \E next \in Slotted : pc' = [pc EXCEPT ![t] = next]
    BY OnceSlotted DEF OnceBegins
  <2>2. UNCHANGED Pending
    BY RunAssumption DEF IInv, TypeOK, OnceBegins, Pending
  <2>3. QED
    BY <2>1, <2>2, SlottedMoveCounts DEF IInv, TypeOK, Counted, OnceBegins
<1>2. TypeOK'
  <2>1. TypeOK
    BY DEF IInv
  <2>2. Inside[f] \in Steps
    BY DEF Inside, Steps, Slotted
  <2>3. phase' \in [Facts -> {"idle", "running", "done"}] /\ pc' \in [Targets -> Steps]
    BY <2>1, <2>2 DEF TypeOK, OnceBegins, Goto
  <2>4. QED
    BY <2>1, <2>3 DEF TypeOK, OnceBegins, mainVars
<1>3. MainInOrder'
  BY DEF IInv, TypeOK, MainInOrder, OnceBegins, Calling, Inside
<1>4. SharedInOrder'
  BY DEF IInv, TypeOK, SharedInOrder, OnceBegins, Calling, Inside, Unmeasured
<1>5. TargetsInOrder'
  BY DEF IInv, TypeOK, TargetsInOrder, OnceBegins, Calling, Inside
<1>6. OneAnswerForAll'
  BY DEF IInv, TypeOK, OneAnswerForAll, OnceBegins, Calling, Inside
<1>7. (VerdictsFromFinalFacts /\ SummaryComplete /\ CutOnlyByCtrlC /\ PrintedLive)'
  BY DEF IInv, VerdictsFromFinalFacts, SummaryComplete, CutOnlyByCtrlC, PrintedLive,
     OnceBegins
<1>8. QED
  BY <1>1, <1>2, <1>3, <1>4, <1>5, <1>6, <1>7 DEF IInv

LEMMA OnceEndsKeeps ==
    ASSUME NEW t \in Targets, NEW f \in OnceFacts, IInv, OnceEnds(t, f)
    PROVE  IInv'
<1>1. Counted'
  <2>1. pc[t] \in Slotted /\ \E next \in Slotted : pc' = [pc EXCEPT ![t] = next]
    BY OnceSlotted DEF OnceEnds
  <2>2. UNCHANGED Pending
    BY RunAssumption DEF IInv, TypeOK, OnceEnds, Pending
  <2>3. QED
    BY <2>1, <2>2, SlottedMoveCounts DEF IInv, TypeOK, Counted, OnceEnds
<1>2. TypeOK'
  BY DEF IInv, TypeOK, OnceEnds, Inside, After, Measured, Learn, Steps, Slotted, Values,
     Outcomes
<1>3. MainInOrder'
  BY DEF IInv, TypeOK, MainInOrder, OnceEnds, Inside, After, Measured, Learn
<1>4. SharedInOrder'
  BY DEF IInv, TypeOK, SharedInOrder, OnceEnds, Inside, After, Measured, Learn,
     Unmeasured
<1>5. TargetsInOrder'
  BY DEF IInv, TypeOK, TargetsInOrder, OnceEnds, Inside, After, Measured, Learn
<1>6. OneAnswerForAll'
  <2>1. facts[f] = Unmeasured
    BY DEF IInv, TypeOK, SharedInOrder, OnceEnds, Inside
  <2>2. f = "control" => st[t].outcome = "silent"
    BY DEF IInv, TargetsInOrder, OnceEnds, Inside
  <2>3. QED
    BY <2>1, <2>2
       DEF IInv, TypeOK, OneAnswerForAll, OnceEnds, After, Inside, Measured, Learn, Unmeasured
<1>7. VerdictsFromFinalFacts'
  <2>1. /\ facts'["local"] = facts["local"]
        /\ facts'["intercept"] = facts["intercept"]
        /\ \A c \in Checks : facts'[c] = facts[c]
    BY RunAssumption DEF IInv, TypeOK, OnceEnds
  <2>2. QED
    BY <2>1 DEF IInv, VerdictsFromFinalFacts, OnceEnds, VerdictOf, LocalDown, Intercepted
<1>8. CutOnlyByCtrlC'
  BY DEF IInv, TypeOK, CutOnlyByCtrlC, OnceEnds, Inside, After, Measured, Learn
<1>9. (SummaryComplete /\ PrintedLive)'
  BY DEF IInv, SummaryComplete, PrintedLive, OnceEnds
<1>10. QED
  BY <1>1, <1>2, <1>3, <1>4, <1>5, <1>6, <1>7, <1>8, <1>9 DEF IInv

LEMMA OnceJoinsKeeps ==
    ASSUME NEW t \in Targets, NEW f \in OnceFacts, IInv, OnceJoins(t, f)
    PROVE  IInv'
<1>1. Counted'
  <2>1. pc[t] \in Slotted /\ \E next \in Slotted : pc' = [pc EXCEPT ![t] = next]
    BY OnceSlotted DEF OnceJoins
  <2>2. UNCHANGED Pending
    BY DEF OnceJoins, Pending
  <2>3. QED
    BY <2>1, <2>2, SlottedMoveCounts DEF IInv, TypeOK, Counted, OnceJoins
<1>2. TypeOK'
  BY DEF IInv, TypeOK, OnceJoins, Calling, After, Learn, Steps, Slotted, Values,
     Outcomes
<1>3. MainInOrder'
  BY DEF IInv, TypeOK, MainInOrder, OnceJoins, Calling, After, Learn
<1>4. SharedInOrder'
  BY DEF IInv, TypeOK, SharedInOrder, OnceJoins, Calling, After, Learn, Inside,
     Unmeasured
<1>5. TargetsInOrder'
  BY DEF IInv, TypeOK, TargetsInOrder, OnceJoins, Calling, After, Learn
<1>6. OneAnswerForAll'
  <2>1. facts[f] \in Values
    BY DEF IInv, TypeOK, SharedInOrder, OnceJoins
  <2>2. f = "control" => st[t].outcome = "silent"
    BY DEF IInv, TargetsInOrder, OnceJoins, Calling
  <2>3. QED
    BY <2>1, <2>2 DEF IInv, TypeOK, OneAnswerForAll, OnceJoins, After, Calling, Learn,
       Values
<1>7. CutOnlyByCtrlC'
  BY DEF IInv, TypeOK, CutOnlyByCtrlC, OnceJoins, Calling, After, Learn
<1>8. (VerdictsFromFinalFacts /\ SummaryComplete /\ PrintedLive)'
  BY DEF IInv, VerdictsFromFinalFacts, SummaryComplete, PrintedLive, OnceJoins
<1>9. QED
  BY <1>1, <1>2, <1>3, <1>4, <1>5, <1>6, <1>7, <1>8 DEF IInv

LEMMA LayersKeeps ==
    ASSUME NEW t \in Targets, IInv, Layers(t)
    PROVE  IInv'
<1>1. Counted'
  <2>1. pc[t] \in Slotted /\ \E next \in Slotted : pc' = [pc EXCEPT ![t] = next]
    BY DEF Layers, Slotted, Calling
  <2>2. UNCHANGED Pending
    BY DEF Layers, Pending
  <2>3. QED
    BY <2>1, <2>2, SlottedMoveCounts DEF IInv, TypeOK, Counted, Layers
<1>2. TypeOK'
  BY DEF IInv, TypeOK, Layers, Calling, MayBeCut, Steps, Slotted, Values, Outcomes
<1>3. MainInOrder'
  BY DEF IInv, TypeOK, MainInOrder, Layers, Calling, MayBeCut
<1>4. SharedInOrder'
  BY DEF IInv, TypeOK, SharedInOrder, Layers, Calling, MayBeCut, Inside, Unmeasured
<1>5. TargetsInOrder'
  BY DEF IInv, TypeOK, TargetsInOrder, Layers, Calling, MayBeCut
<1>6. OneAnswerForAll'
  BY DEF IInv, TypeOK, OneAnswerForAll, Layers, Calling, MayBeCut
<1>7. CutOnlyByCtrlC'
  BY DEF IInv, TypeOK, CutOnlyByCtrlC, Layers, Calling, MayBeCut
<1>8. (VerdictsFromFinalFacts /\ SummaryComplete /\ PrintedLive)'
  BY DEF IInv, VerdictsFromFinalFacts, SummaryComplete, PrintedLive, Layers
<1>9. QED
  BY <1>1, <1>2, <1>3, <1>4, <1>5, <1>6, <1>7, <1>8 DEF IInv

LEMMA CompareKeeps ==
    ASSUME NEW t \in Targets, IInv, Compare(t)
    PROVE  IInv'
<1>1. Counted'
  <2>1. pc[t] \in Slotted /\ \E next \in Slotted : pc' = [pc EXCEPT ![t] = next]
    BY DEF Compare, Slotted
  <2>2. UNCHANGED Pending
    BY DEF Compare, Pending
  <2>3. QED
    BY <2>1, <2>2, SlottedMoveCounts DEF IInv, TypeOK, Counted, Compare
<1>2. TypeOK'
  BY DEF IInv, TypeOK, Compare, MayBeCut, Steps, Slotted, Values, Outcomes
<1>3. MainInOrder'
  BY DEF IInv, TypeOK, MainInOrder, Compare, MayBeCut
<1>4. SharedInOrder'
  BY DEF IInv, TypeOK, SharedInOrder, Compare, MayBeCut, Inside, Unmeasured
<1>5. TargetsInOrder'
  BY DEF IInv, TypeOK, TargetsInOrder, Compare, MayBeCut
<1>6. OneAnswerForAll'
  <2>1. st[t].outcome \in {"works", "poisoned"}
    BY DEF IInv, TargetsInOrder, Compare
  <2>2. PICK slow \in BOOLEAN, cut \in MayBeCut :
            st' = [st EXCEPT ![t] =
                    [outcome |-> IF slow /\ facts["baseline"] = "good" THEN "throttled"
                                 ELSE st[t].outcome,
                     cut |-> st[t].cut \/ cut]]
    BY DEF Compare
  <2>3. QED
    BY <2>1, <2>2 DEF IInv, TypeOK, OneAnswerForAll, Compare
<1>7. CutOnlyByCtrlC'
  BY DEF IInv, TypeOK, CutOnlyByCtrlC, Compare, MayBeCut
<1>8. (VerdictsFromFinalFacts /\ SummaryComplete /\ PrintedLive)'
  BY DEF IInv, VerdictsFromFinalFacts, SummaryComplete, PrintedLive, Compare
<1>9. QED
  BY <1>1, <1>2, <1>3, <1>4, <1>5, <1>6, <1>7, <1>8 DEF IInv

LEMMA ReleaseKeeps ==
    ASSUME NEW t \in Targets, IInv, Release(t)
    PROVE  IInv'
<1>1. Counted'
  <2>1. /\ pc' = [pc EXCEPT ![t] = "await"]
        /\ pc[t] = "checked"
        /\ "await" \in Steps
        /\ pc \in [Targets -> Steps]
    BY DEF IInv, TypeOK, Release, Steps, Slotted
  <2>2. /\ Cardinality(Holding') = Cardinality(Holding) + InSlot("await") - InSlot("checked")
        /\ Cardinality(Alive') = Cardinality(Alive) + IsAlive("await") - IsAlive("checked")
        /\ Cardinality(Holding) \in Nat /\ Cardinality(Alive) \in Nat
    BY <2>1, MoveCounts, Zenon
  <2>3. UNCHANGED Pending
    BY DEF Release, Pending
  <2>4. QED
    BY <2>2, <2>3 DEF IInv, Counted, Release, InSlot, IsAlive, Slotted
<1>2. TypeOK'
  <2>1. Cardinality(Holding') \in Nat
    BY MoveCounts DEF IInv, TypeOK, Release, Steps
  <2>2. sem' = Cardinality(Holding')
    BY <1>1 DEF Counted
  <2>3. sem' \in 0..Concurrency
    BY <2>1, <2>2, RunnerAssumption DEF IInv, TypeOK, Release
  <2>4. QED
    BY <2>3 DEF IInv, TypeOK, Release, NoteDoH, Steps
<1>3. MainInOrder'
  BY DEF IInv, TypeOK, MainInOrder, Release
<1>4. SharedInOrder'
  BY DEF IInv, TypeOK, SharedInOrder, Release, Inside, Unmeasured
<1>5. TargetsInOrder'
  BY DEF IInv, TypeOK, TargetsInOrder, Release
<1>6. OneAnswerForAll'
  BY DEF IInv, TypeOK, OneAnswerForAll, Release
<1>7. (VerdictsFromFinalFacts /\ CutOnlyByCtrlC /\ PrintedLive)'
  BY DEF IInv, VerdictsFromFinalFacts, CutOnlyByCtrlC, PrintedLive, Release
<1>8. SummaryComplete'
  BY DEF IInv, MainInOrder, SummaryComplete, Release
<1>9. QED
  BY <1>1, <1>2, <1>3, <1>4, <1>5, <1>6, <1>7, <1>8 DEF IInv

LEMMA DecideKeeps ==
    ASSUME NEW t \in Targets, IInv, Decide(t)
    PROVE  IInv'
<1>1. Counted'
  <2>1. /\ pc' = [pc EXCEPT ![t] = "finished"]
        /\ pc[t] = "await"
        /\ "finished" \in Steps
        /\ pc \in [Targets -> Steps]
    BY DEF IInv, TypeOK, Decide, Steps, Slotted
  <2>2. /\ Cardinality(Holding') = Cardinality(Holding) + InSlot("finished") - InSlot("await")
        /\ Cardinality(Alive') = Cardinality(Alive) + IsAlive("finished") - IsAlive("await")
        /\ Cardinality(Holding) \in Nat /\ Cardinality(Alive) \in Nat
    BY <2>1, MoveCounts, Zenon
  <2>3. UNCHANGED Pending
    BY DEF Decide, Pending
  <2>4. QED
    BY <2>2, <2>3 DEF IInv, Counted, Decide, InSlot, IsAlive, Slotted
<1>2. TypeOK'
  <2>1. wg' \in Nat
    <3>1. Cardinality(Alive') \in Nat
      BY MoveCounts DEF IInv, TypeOK, Decide, Steps
    <3>2. QED
      BY <1>1, <3>1 DEF Counted
  <2>2. report' \in [Targets -> Reports \cup {NoReport}]
    BY DEF IInv, TypeOK, Decide, Reports, Outcomes, Verdicts, VerdictOf
  <2>3. QED
    BY <2>1, <2>2 DEF IInv, TypeOK, Decide, Steps
<1>3. MainInOrder'
  BY DEF IInv, TypeOK, MainInOrder, Decide
<1>4. SharedInOrder'
  BY DEF IInv, TypeOK, SharedInOrder, Decide, Inside, Unmeasured
<1>5. TargetsInOrder'
  <2>1. report'[t] # NoReport
    BY DEF IInv, TypeOK, Decide, NoReport, Outcomes
  <2>2. QED
    BY <2>1 DEF IInv, TypeOK, TargetsInOrder, Decide
<1>6. OneAnswerForAll'
  BY DEF IInv, TypeOK, OneAnswerForAll, Decide
<1>7. VerdictsFromFinalFacts'
  <2>1. \A c \in Checks : facts[c] # Unmeasured
    BY RunAssumption DEF IInv, SharedInOrder, Decide
  <2>2. QED
    BY <2>1 DEF IInv, TypeOK, VerdictsFromFinalFacts, Decide, VerdictOf, LocalDown,
       Intercepted
<1>8. SummaryComplete'
  BY DEF IInv, MainInOrder, SummaryComplete, Decide
<1>9. (CutOnlyByCtrlC /\ PrintedLive)'
  BY DEF IInv, CutOnlyByCtrlC, PrintedLive, Decide
<1>10. QED
  BY <1>1, <1>2, <1>3, <1>4, <1>5, <1>6, <1>7, <1>8, <1>9 DEF IInv

LEMMA InterruptKeeps ==
    ASSUME IInv, Interrupt
    PROVE  IInv'
<1>1. TypeOK'
  BY DEF IInv, TypeOK, Interrupt, Steps, Slotted, Values, Outcomes
<1>2. CutOnlyByCtrlC'
  BY DEF IInv, TypeOK, CutOnlyByCtrlC, Interrupt
<1>3. PrintedLive'
  BY DEF IInv, TypeOK, PrintedLive, Interrupt
<1>4. (Counted /\ MainInOrder /\ SharedInOrder /\ TargetsInOrder
       /\ OneAnswerForAll /\ VerdictsFromFinalFacts /\ SummaryComplete)'
  BY DEF IInv, Counted, Holding, Alive, Pending, MainInOrder, SharedInOrder,
     TargetsInOrder, OneAnswerForAll, VerdictsFromFinalFacts, SummaryComplete,
     Interrupt
<1>5. QED
  BY <1>1, <1>2, <1>3, <1>4 DEF IInv

LEMMA InitIInv ==
    ASSUME Init
    PROVE  IInv
<1>1. TypeOK
  <2>1. swg \in Nat
    <3>1. IsFiniteSet(Checks)
      BY TwoChecksFinite, RunAssumption, FS_Subset
    <3>2. QED
      BY <3>1, FS_CardinalityType DEF Init
  <2>2. /\ phase \in [Facts -> {"idle", "running", "done"}]
        /\ facts \in [Facts -> Values \cup {Unmeasured}]
    BY DEF Init
  <2>3. /\ pc \in [Targets -> Steps]
        /\ st \in [Targets -> [outcome : Outcomes, cut : BOOLEAN]]
        /\ report \in [Targets -> Reports \cup {NoReport}]
        /\ dohDown \in [Targets -> BOOLEAN]
    BY DEF Init, Steps, Outcomes
  <2>4. spawned \in 0..NumTargets /\ sem \in 0..Concurrency /\ wg \in Nat
    BY RunAssumption, RunnerAssumption DEF Init
  <2>5. /\ main \in {"spawn", "wait", "returned"} /\ done \in BOOLEAN
        /\ summary \in [up : BOOLEAN, intercepted : BOOLEAN, dohUnreachable : BOOLEAN]
        /\ ctx \in {"live", "cancelled"} /\ exit \in Exits
    BY DEF Init, NoSummary, Exits
  <2>6. QED
    BY <2>1, <2>2, <2>3, <2>4, <2>5 DEF TypeOK
<1>2. Counted
  <2>1. Holding = {} /\ Alive = {} /\ Pending = Checks
    BY RunAssumption DEF Init, Holding, Alive, Pending, Slotted
  <2>2. QED
    BY <2>1, FS_EmptySet DEF Init, Counted
<1>3. MainInOrder /\ OneAnswerForAll /\ VerdictsFromFinalFacts /\ SummaryComplete /\ PrintedLive
  BY RunAssumption
     DEF Init, MainInOrder, OneAnswerForAll, VerdictsFromFinalFacts, SummaryComplete, PrintedLive
<1>4. SharedInOrder /\ TargetsInOrder /\ CutOnlyByCtrlC
  BY RunAssumption DEF Init, SharedInOrder, TargetsInOrder, CutOnlyByCtrlC, Inside, Unmeasured
<1>5. QED
  BY <1>1, <1>2, <1>3, <1>4 DEF IInv

LEMMA StutterKeeps ==
    ASSUME IInv, UNCHANGED vars
    PROVE  IInv'
BY DEF IInv, vars, TypeOK, Counted, Holding, Alive, Pending, MainInOrder, SharedInOrder,
       TargetsInOrder, OneAnswerForAll, VerdictsFromFinalFacts, SummaryComplete,
       CutOnlyByCtrlC, PrintedLive

LEMMA NextKeeps ==
    ASSUME IInv, [Next]_vars
    PROVE  IInv'
<1>1. CASE MainStep
  BY <1>1, SpawnKeeps, LoopEndsKeeps, ReturnKeeps, ExitKeeps DEF MainStep
<1>2. CASE SharedStep
  BY <1>2, CloseKeeps, CheckEndsKeeps DEF SharedStep
<1>3. ASSUME NEW t \in Targets, TargetStep(t)
      PROVE  IInv'
  <2>1. CASE \E f \in OnceFacts : OnceBegins(t, f) \/ OnceEnds(t, f) \/ OnceJoins(t, f)
    BY <2>1, OnceBeginsKeeps, OnceEndsKeeps, OnceJoinsKeeps
  <2>2. CASE Acquire(t) \/ ResolveHost(t) \/ Layers(t) \/ Compare(t) \/ Release(t) \/ Decide(t)
    BY <2>2, AcquireKeeps, ResolveHostKeeps, LayersKeeps, CompareKeeps, ReleaseKeeps, DecideKeeps
  <2>3. QED
    BY <1>3, <2>1, <2>2 DEF TargetStep
<1>4. CASE Interrupt
  BY <1>4, InterruptKeeps
<1>5. CASE Ended \/ UNCHANGED vars
  BY <1>5, StutterKeeps DEF Ended
<1>6. QED
  BY <1>1, <1>2, <1>3, <1>4, <1>5 DEF Next

-----------------------------------------------------------------------------
(* Safety, for every number of targets and slots. *)

\* The inductive invariant holds throughout every run.
THEOREM InductiveInvariant == Spec => []IInv
<1>1. Init => IInv
  BY InitIInv
<1>2. IInv /\ [Next]_vars => IInv'
  BY NextKeeps
<1>3. QED
  BY <1>1, <1>2, PTL DEF Spec

\* Every variable keeps its type; in particular no WaitGroup goes below zero and
\* the semaphore never holds more than its capacity.
THEOREM TypeCorrect == Spec => []TypeOK
<1>1. IInv => TypeOK
  BY DEF IInv
<1>2. QED
  BY <1>1, InductiveInvariant, PTL

\* At most Concurrency targets work on the network at a time.
THEOREM BoundedConcurrency == Spec => []ConcurrencyBound
<1>1. IInv => ConcurrencyBound
  BY RunnerAssumption DEF IInv, TypeOK, Counted, ConcurrencyBound
<1>2. QED
  BY <1>1, InductiveInvariant, PTL

\* All verdicts of a run rest on the same, final run-wide results.
THEOREM FinalFacts == Spec => [](VerdictsFromFinalFacts /\ OneAnswerForAll)
<1>1. IInv => VerdictsFromFinalFacts /\ OneAnswerForAll
  BY DEF IInv
<1>2. QED
  BY <1>1, InductiveInvariant, PTL

\* The report Run returns is complete and agrees with its summary.
THEOREM CompleteReport == Spec => []SummaryComplete
<1>1. IInv => SummaryComplete
  BY DEF IInv
<1>2. QED
  BY <1>1, InductiveInvariant, PTL

\* No report that was printed rests on anything Ctrl-C cut short.
THEOREM NoCutReport == Spec => []PrintedUncut
<1>1. IInv => PrintedUncut
  <2>1. ASSUME IInv, exit \in {"ok", "problems"}, NEW t \in Targets
        PROVE  ~report[t].cut
    BY <2>1 DEF IInv, PrintedLive, CutOnlyByCtrlC, MainInOrder, TargetsInOrder
  <2>2. ASSUME IInv, exit \in {"ok", "problems"}, NEW f \in Facts
        PROVE  facts[f] # "cut"
    BY <2>2 DEF IInv, PrintedLive, CutOnlyByCtrlC
  <2>3. QED
    BY <2>1, <2>2 DEF PrintedUncut
<1>2. QED
  BY <1>1, InductiveInvariant, PTL

\* A run-wide result, once there, is never replaced.
LEMMA StepsKeepFacts ==
    ASSUME IInv, [Next]_vars, NEW f \in Facts, facts[f] # Unmeasured
    PROVE  facts'[f] = facts[f]
<1>1. phase[f] = "done"
  BY DEF IInv, SharedInOrder
<1>2. ASSUME NEW c \in Checks, CheckEnds(c)
      PROVE  facts'[f] = facts[f]
  BY <1>1, <1>2 DEF CheckEnds, IInv, TypeOK
<1>3. ASSUME NEW t \in Targets, NEW g \in OnceFacts, OnceEnds(t, g)
      PROVE  facts'[f] = facts[f]
  <2>1. phase[g] = "running"
    BY <1>3 DEF IInv, SharedInOrder, OnceEnds
  <2>2. QED
    BY <1>1, <1>3, <2>1 DEF OnceEnds, IInv, TypeOK
<1>4. CASE UNCHANGED facts
  BY <1>4
<1>5. QED
  BY <1>2, <1>3, <1>4
     DEF Next, MainStep, SharedStep, TargetStep, Ended, vars, Spawn, LoopEnds, Return, Exit,
         Close, Interrupt, Acquire, ResolveHost, OnceBegins, OnceJoins, Layers, Compare,
         Release, Decide

THEOREM MeasuredOnce == Spec => OncePerRun
<1>1. IInv /\ [Next]_vars => [\A f \in Facts : facts[f] # Unmeasured => facts'[f] = facts[f]]_facts
  BY StepsKeepFacts
<1>2. QED
  BY <1>1, InductiveInvariant, PTL DEF Spec, OncePerRun

-----------------------------------------------------------------------------
(* Refinement: the run implements RunPromise. *)

USE DEF Promise!Targets, Promise!Facts, Promise!OnceFacts

LEMMA PromiseInit ==
    ASSUME Init
    PROVE  Promise!Init
BY DEF Init, Promise!Init, Unmeasured, NoReport, Promise!Unmeasured, Promise!NoReport

\* The end of a run-wide check or of a lookup behind a sync.Once is a Measure.
LEMMA MeasureStep ==
    ASSUME IInv, NEW f \in Facts, phase[f] # "done",
           \E v \in Measured : facts' = [facts EXCEPT ![f] = v],
           UNCHANGED <<report, exit>>
    PROVE  Promise!Next
<1>1. PICK v \in Measured : facts' = [facts EXCEPT ![f] = v]
  OBVIOUS
<1>2. v \in Promise!Values /\ facts[f] = Promise!Unmeasured
  BY DEF IInv, SharedInOrder, TypeOK, Measured, Unmeasured, Promise!Values, Promise!Unmeasured
<1>3. Promise!Measure(f, v)
  BY <1>1, <1>2 DEF Promise!Measure
<1>4. QED
  BY <1>2, <1>3 DEF Promise!Next

\* A target's decision is a Judge.
LEMMA JudgeStep ==
    ASSUME IInv, NEW t \in Targets, Decide(t)
    PROVE  Promise!Next
<1>1. /\ report[t] = Promise!NoReport
      /\ st[t].outcome \in Promise!Outcomes
      /\ st[t].cut \in BOOLEAN
  BY DEF IInv, TypeOK, TargetsInOrder, Decide, NoReport, Outcomes, Promise!NoReport,
         Promise!Outcomes
<1>2. \A c \in Checks : facts[c] # Promise!Unmeasured
  BY RunAssumption DEF IInv, SharedInOrder, Decide, Unmeasured, Promise!Unmeasured
<1>3. Promise!Grounded(st[t].outcome)
  BY DEF IInv, OneAnswerForAll, Decide, Promise!Grounded
<1>4. Promise!VerdictOf(st[t].outcome, facts) = VerdictOf(st[t].outcome, facts)
  BY DEF VerdictOf, NoConnection, LocalDown, Intercepted, Promise!VerdictOf,
         Promise!NoConnection, Promise!LocalDown, Promise!Intercepted
<1>5. Promise!Judge(t, st[t].outcome, st[t].cut)
  BY <1>1, <1>2, <1>3, <1>4 DEF Decide, Promise!Judge
<1>6. QED
  BY <1>1, <1>5 DEF Promise!Next

\* The end of the process is an End.
LEMMA EndStep ==
    ASSUME IInv, Exit
    PROVE  Promise!Next
<1>1. \A t \in Targets : report[t] # Promise!NoReport
  BY DEF IInv, MainInOrder, TargetsInOrder, Exit, NoReport, Promise!NoReport
<1>2. ExitCode # "interrupted" => Promise!Uncut
  BY DEF IInv, ExitCode, CutOnlyByCtrlC, MainInOrder, TargetsInOrder, Exit, TypeOK, Promise!Uncut
<1>3. Promise!End(ExitCode)
  BY <1>1, <1>2 DEF Exit, ExitCode, Promise!End
<1>4. ExitCode \in Promise!Exits \ {"running"}
  BY DEF ExitCode, Promise!Exits
<1>5. QED
  BY <1>3, <1>4 DEF Promise!Next

LEMMA PromiseStep ==
    ASSUME IInv, [Next]_vars
    PROVE  [Promise!Next]_(Promise!vars)
<1>1. ASSUME NEW c \in Checks, CheckEnds(c)
      PROVE  Promise!Next
  BY <1>1, MeasureStep, RunAssumption DEF CheckEnds
<1>2. ASSUME NEW t \in Targets, NEW f \in OnceFacts, OnceEnds(t, f)
      PROVE  Promise!Next
  BY <1>2, MeasureStep DEF OnceEnds, IInv, SharedInOrder
<1>3. ASSUME NEW t \in Targets, Decide(t)
      PROVE  Promise!Next
  BY <1>3, JudgeStep
<1>4. CASE Exit
  BY <1>4, EndStep
<1>5. CASE UNCHANGED <<facts, report, exit>>
  BY <1>5 DEF Promise!vars
<1>6. QED
  BY <1>1, <1>2, <1>3, <1>4, <1>5
     DEF Next, MainStep, SharedStep, TargetStep, Ended, vars, Spawn, LoopEnds, Return, Close,
         Interrupt, Acquire, ResolveHost, OnceBegins, OnceJoins, Layers, Compare, Release

\* Goroutines, slots, WaitGroups and sync.Once together keep the promise that
\* every target is judged once, from final run-wide results, and that the exit
\* code is the one the verdicts call for.
THEOREM Implements == Spec => KeepsPromise
<1>1. Init => Promise!Init
  BY PromiseInit
<1>2. IInv /\ [Next]_vars => [Promise!Next]_(Promise!vars)
  BY PromiseStep
<1>3. QED
  BY <1>1, <1>2, InductiveInvariant, PTL DEF Spec, KeepsPromise, Promise!Spec

-----------------------------------------------------------------------------
(* That Run ends: nobody waits for ever, and nobody has more than so much to do. *)

\* What TargetStep(t) waits for is there: a slot, the end of a sync.Once that somebody
\* else is in, the run-wide results.
CanGoOn(t) ==
    \/ pc[t] = "acquire" /\ sem < Concurrency
    \/ pc[t] \in {"resolve", "layers", "compare", "checked"}
    \/ \E f \in OnceFacts : pc[t] = Calling[f] /\ phase[f] # "running"
    \/ \E f \in OnceFacts : pc[t] = Inside[f]
    \/ pc[t] = "await" /\ done

\* The targets that have begun and are not through their layers.
Underway == {t \in Targets : pc[t] \notin {"unborn", "await", "finished"}}

\* Whatever the run-wide checks do, some target that is under way can go on; and before
\* the process has ended, somebody can: Run's goroutine, a check, the closer or a target.
NobodyStuck ==
    /\ Underway # {} => \E t \in Underway : CanGoOn(t)
    /\ exit = "running" =>
        \/ main \in {"spawn", "returned"}
        \/ main = "wait" /\ wg = 0 /\ done
        \/ \E c \in Checks : phase[c] = "running"
        \/ swg = 0 /\ ~done
        \/ \E t \in Targets : CanGoOn(t)

\* A lookup behind a sync.Once that is not over has somebody in it.
OnceAttended == \A f \in OnceFacts : phase[f] = "running" => \E t \in Targets : pc[t] = Inside[f]

\* A target that moves, and is inside neither sync.Once, leaves them attended.
LEMMA AttendedElsewhere ==
    ASSUME IInv, OnceAttended, UNCHANGED phase,
           NEW t \in Targets, NEW next, pc' = [pc EXCEPT ![t] = next],
           \A f \in OnceFacts : pc[t] # Inside[f]
    PROVE  OnceAttended'
<1>1. ASSUME NEW f \in OnceFacts, phase[f] = "running"
      PROVE  \E u \in Targets : pc'[u] = Inside[f]
  <2>1. PICK u \in Targets : pc[u] = Inside[f]
    BY <1>1 DEF OnceAttended
  <2>2. u # t /\ pc'[u] = pc[u]
    BY <2>1 DEF IInv, TypeOK
  <2>3. QED
    BY <2>1, <2>2
<1>2. QED
  BY <1>1 DEF OnceAttended

LEMMA AttendedStep ==
    ASSUME IInv, OnceAttended, [Next]_vars
    PROVE  OnceAttended'
<1>1. ASSUME UNCHANGED <<pc, phase>> PROVE OnceAttended'
  BY <1>1 DEF OnceAttended
<1>2. CASE Spawn
  <2>1. spawned + 1 \in Targets /\ pc[spawned + 1] = "unborn"
    BY <1>2, RunAssumption DEF Spawn, IInv, TypeOK, MainInOrder
  <2>2. \A f \in OnceFacts : pc[spawned + 1] # Inside[f]
    BY <2>1 DEF Inside
  <2>3. pc' = [pc EXCEPT ![spawned + 1] = "acquire"] /\ UNCHANGED phase
    BY <1>2 DEF Spawn
  <2>4. QED
    BY <2>1, <2>2, <2>3, AttendedElsewhere
<1>3. ASSUME NEW c \in Checks, CheckEnds(c) PROVE OnceAttended'
  <2>1. pc' = pc /\ \A f \in OnceFacts : phase'[f] = phase[f]
    BY <1>3, RunAssumption DEF CheckEnds, IInv, TypeOK
  <2>2. QED
    BY <2>1 DEF OnceAttended
<1>4. ASSUME NEW t \in Targets,
             Acquire(t) \/ ResolveHost(t) \/ Layers(t) \/ Compare(t) \/ Release(t) \/ Decide(t)
                \/ \E f \in OnceFacts : OnceJoins(t, f)
      PROVE  OnceAttended'
  <2>1. UNCHANGED phase
    BY <1>4 DEF Acquire, ResolveHost, Layers, Compare, Release, Decide, OnceJoins
  <2>2. \E next : pc' = [pc EXCEPT ![t] = next]
    BY <1>4 DEF Acquire, ResolveHost, Layers, Compare, Release, Decide, OnceJoins
  <2>3. \A f \in OnceFacts : pc[t] # Inside[f]
    BY <1>4 DEF Acquire, ResolveHost, Layers, Compare, Release, Decide, OnceJoins, Inside, Calling
  <2>4. QED
    BY <2>1, <2>2, <2>3, AttendedElsewhere
<1>5. ASSUME NEW t \in Targets, NEW f \in OnceFacts, OnceBegins(t, f) PROVE OnceAttended'
  <2>1. /\ pc' = [pc EXCEPT ![t] = Inside[f]] /\ pc[t] = Calling[f]
        /\ phase' = [phase EXCEPT ![f] = "running"]
    BY <1>5 DEF OnceBegins
  <2>2. ASSUME NEW g \in OnceFacts, phase'[g] = "running"
        PROVE  \E u \in Targets : pc'[u] = Inside[g]
    <3>1. CASE g = f
      BY <2>1, <3>1 DEF IInv, TypeOK
    <3>2. CASE g # f
      <4>1. PICK u \in Targets : pc[u] = Inside[g]
        BY <2>1, <2>2, <3>2 DEF OnceAttended, IInv, TypeOK
      <4>2. u # t
        BY <2>1, <4>1 DEF Inside, Calling
      <4>3. QED
        BY <2>1, <4>1, <4>2 DEF IInv, TypeOK
    <3>3. QED
      BY <3>1, <3>2
  <2>3. QED
    BY <2>2 DEF OnceAttended
<1>6. ASSUME NEW t \in Targets, NEW f \in OnceFacts, OnceEnds(t, f) PROVE OnceAttended'
  <2>1. /\ pc' = [pc EXCEPT ![t] = After[f]] /\ pc[t] = Inside[f]
        /\ phase' = [phase EXCEPT ![f] = "done"]
    BY <1>6 DEF OnceEnds
  <2>2. ASSUME NEW g \in OnceFacts, phase'[g] = "running"
        PROVE  \E u \in Targets : pc'[u] = Inside[g]
    <3>1. g # f /\ phase[g] = "running"
      BY <2>1, <2>2 DEF IInv, TypeOK
    <3>2. PICK u \in Targets : pc[u] = Inside[g]
      BY <3>1 DEF OnceAttended
    <3>3. u # t
      BY <2>1, <3>1, <3>2 DEF Inside
    <3>4. QED
      BY <2>1, <3>2, <3>3 DEF IInv, TypeOK
  <2>3. QED
    BY <2>2 DEF OnceAttended
<1>7. CASE LoopEnds \/ Return \/ Exit \/ Close \/ Interrupt \/ UNCHANGED vars
  BY <1>1, <1>7 DEF LoopEnds, Return, Exit, Close, Interrupt, vars
<1>8. QED
  BY <1>2, <1>3, <1>4, <1>5, <1>6, <1>7
     DEF Next, MainStep, SharedStep, TargetStep, Ended

\* A slot is held by a target that is under way.
LEMMA HolderUnderway ==
    ASSUME IInv, sem = Concurrency
    PROVE  \E t \in Targets : pc[t] \in Slotted
<1>1. Cardinality(Holding) # 0
  BY RunnerAssumption DEF IInv, Counted
<1>2. Holding # {}
  BY <1>1, FS_EmptySet
<1>3. QED
  BY <1>2 DEF Holding

\* Who holds a slot can go on, or waits for somebody inside a sync.Once, who can.
LEMMA HolderGoesOn ==
    ASSUME IInv, OnceAttended, NEW t \in Targets, pc[t] \in Slotted
    PROVE  \E u \in Underway : CanGoOn(u)
<1>1. t \in Underway
  BY DEF Underway, Slotted
<1>2. CASE CanGoOn(t)
  BY <1>1, <1>2
<1>3. CASE ~CanGoOn(t)
  <2>1. PICK f \in OnceFacts : pc[t] = Calling[f] /\ phase[f] = "running"
    BY <1>3 DEF CanGoOn, Slotted, Calling, Inside
  <2>2. PICK u \in Targets : pc[u] = Inside[f]
    BY <2>1 DEF OnceAttended
  <2>3. u \in Underway /\ CanGoOn(u)
    BY <2>2 DEF Underway, CanGoOn, Inside
  <2>4. QED
    BY <2>3
<1>4. QED
  BY <1>2, <1>3

LEMMA SomebodyGoesOn ==
    ASSUME IInv, OnceAttended
    PROVE  NobodyStuck
<1>1. ASSUME NEW t \in Underway PROVE \E u \in Underway : CanGoOn(u)
  <2>1. t \in Targets /\ (pc[t] = "acquire" \/ pc[t] \in Slotted)
    BY DEF Underway, IInv, TypeOK, Steps
  <2>2. CASE pc[t] \in Slotted
    BY <2>1, <2>2, HolderGoesOn
  <2>3. CASE pc[t] = "acquire" /\ sem = Concurrency
    BY <2>3, HolderUnderway, HolderGoesOn
  <2>4. CASE pc[t] = "acquire" /\ sem # Concurrency
    <3>1. sem < Concurrency
      BY <2>4, RunnerAssumption DEF IInv, TypeOK
    <3>2. CanGoOn(t)
      BY <2>4, <3>1 DEF CanGoOn
    <3>3. QED
      BY <3>2
  <2>5. QED
    BY <2>1, <2>2, <2>3, <2>4
<1>2. ASSUME exit = "running", main = "wait", \A c \in Checks : phase[c] # "running", ~(swg = 0 /\ ~done),
             \A t \in Targets : ~CanGoOn(t)
      PROVE  wg = 0 /\ done
  <2>1. Pending = {}
    BY <1>2 DEF Pending
  <2>2. done
    BY <1>2, <2>1, FS_EmptySet DEF IInv, Counted, TypeOK
  <2>3. Underway = {}
    BY <1>1, <1>2 DEF Underway
  <2>4. \A t \in Targets : pc[t] # "unborn"
    BY <1>2, RunAssumption DEF IInv, TypeOK, MainInOrder
  <2>5. \A t \in Targets : pc[t] = "finished"
    BY <1>2, <2>2, <2>3, <2>4 DEF Underway, CanGoOn
  <2>6. Alive = {}
    BY <2>5 DEF Alive
  <2>7. QED
    BY <2>2, <2>6, FS_EmptySet DEF IInv, Counted
<1>3. main \in {"spawn", "wait", "returned"}
  BY DEF IInv, TypeOK
<1>4. QED
  BY <1>1, <1>2, <1>3 DEF NobodyStuck

\* Slots, the sync.Once and the wait for the run-wide results never block each other
\* (probe.go:196-214): a target waits only for one that can go on, or, once it has given
\* its slot back, for the checks. This is what makes LayersDontWait and Terminates true.
THEOREM DeadlockFree == Spec => []NobodyStuck
<1>1. Init => OnceAttended
  BY RunAssumption DEF Init, OnceAttended
<1>2. IInv /\ OnceAttended /\ [Next]_vars => OnceAttended'
  BY AttendedStep
<1>3. IInv /\ OnceAttended => NobodyStuck
  BY SomebodyGoesOn
<1>4. QED
  BY <1>1, <1>2, <1>3, InductiveInvariant, PTL DEF Spec

\* The steps a target has before it, at most.
Ahead(p) ==
    CASE p = "unborn" -> 9
      [] p = "acquire" -> 8
      [] p = "resolve" -> 7
      [] p \in {"callControl", "layers"} -> 6
      [] p \in {"inControl", "callBaseline"} -> 5
      [] p = "inBaseline" -> 4
      [] p = "compare" -> 3
      [] p = "checked" -> 2
      [] p = "await" -> 1
      [] OTHER -> 0

TargetsLeft == {x \in Targets \X (1..9) : x[2] <= Ahead(pc[x[1]])}

Flag(b) == IF b THEN 1 ELSE 0
MainLeft == CASE main = "spawn" -> 2 [] main = "wait" -> 1 [] OTHER -> 0

\* The steps a run has before it, at most: its targets', its checks', the closer's, those
\* of Run's goroutine, the process's end and the user's interrupt.
RunLeft ==
    Cardinality(TargetsLeft) + Cardinality(Pending) + Flag(~done) + MainLeft
        + Flag(exit = "running") + Flag(ctx = "live")

LEMMA TargetsLeftFinite ==
    IsFiniteSet(TargetsLeft) /\ Cardinality(TargetsLeft) \in Nat
<1>1. IsFiniteSet(Targets) /\ IsFiniteSet(1..9)
  <2>1. NumTargets \in Int /\ 1 \in Int /\ 9 \in Int
    BY RunAssumption
  <2>2. QED
    BY <2>1, FS_Interval
<1>2. IsFiniteSet(Targets \X (1..9))
  BY <1>1, FS_Product
<1>3. TargetsLeft \in SUBSET (Targets \X (1..9))
  BY DEF TargetsLeft
<1>4. QED
  BY <1>2, <1>3, FS_Subset, FS_CardinalityType

\* A target that takes a step has fewer before it.
LEMMA AheadFalls ==
    ASSUME pc \in [Targets -> Steps], NEW t \in Targets, NEW next \in Steps,
           pc' = [pc EXCEPT ![t] = next], Ahead(next) < Ahead(pc[t])
    PROVE  Cardinality(TargetsLeft') < Cardinality(TargetsLeft) /\ Cardinality(TargetsLeft') \in Nat
<1> DEFINE x == <<t, Ahead(pc[t])>>
<1>1. Ahead(pc[t]) \in 1..9 /\ Ahead(next) \in Nat
  BY DEF Ahead
<1>2. x \in TargetsLeft
  BY <1>1 DEF TargetsLeft
<1>3. TargetsLeft' \subseteq TargetsLeft \ {x}
  <2>1. ASSUME NEW y \in Targets \X (1..9), y[2] <= Ahead(pc'[y[1]])
        PROVE  y[2] <= Ahead(pc[y[1]]) /\ y # x
    <3>1. CASE y[1] = t
      <4>1. pc'[y[1]] = next
        BY <3>1
      <4>2. y[2] \in Int /\ y[2] <= Ahead(next)
        BY <2>1, <4>1
      <4>3. QED
        BY <1>1, <3>1, <4>2
    <3>2. CASE y[1] # t
      BY <2>1, <3>2
    <3>3. QED
      BY <3>1, <3>2
  <2>2. QED
    BY <2>1 DEF TargetsLeft
<1>4. IsFiniteSet(TargetsLeft) /\ Cardinality(TargetsLeft) \in Nat
  BY TargetsLeftFinite
<1> HIDE DEF x
<1>5. IsFiniteSet(TargetsLeft \ {x}) /\ Cardinality(TargetsLeft \ {x}) = Cardinality(TargetsLeft) - 1
  BY <1>2, <1>4, FS_RemoveElement
<1>6. Cardinality(TargetsLeft') <= Cardinality(TargetsLeft \ {x}) /\ IsFiniteSet(TargetsLeft')
  BY <1>3, <1>5, FS_Subset
<1>7. Cardinality(TargetsLeft') \in Nat
  BY <1>6, FS_CardinalityType
<1>8. QED
  BY <1>4, <1>5, <1>6, <1>7

LEMMA RunLeftIs ==
    RunLeft \in Nat
<1>1. Cardinality(TargetsLeft) \in Nat /\ Cardinality(Pending) \in Nat
  BY TargetsLeftFinite, PendingFinite
<1>2. MainLeft \in Nat /\ \A b \in BOOLEAN : Flag(b) \in Nat
  BY DEF MainLeft, Flag
<1>3. Flag(~done) \in Nat /\ Flag(exit = "running") \in Nat /\ Flag(ctx = "live") \in Nat
  BY DEF Flag
<1>4. QED
  BY <1>1, <1>2, <1>3 DEF RunLeft

LEMMA TargetsFall ==
    ASSUME IInv, NEW t \in Targets, NEW next \in Steps,
           pc' = [pc EXCEPT ![t] = next], Ahead(next) < Ahead(pc[t]),
           UNCHANGED <<main, done, exit, ctx>>, UNCHANGED Pending
    PROVE  RunLeft' < RunLeft
<1>1. Cardinality(TargetsLeft') < Cardinality(TargetsLeft) /\ Cardinality(TargetsLeft') \in Nat
  BY AheadFalls DEF IInv, TypeOK
<1>2. Cardinality(TargetsLeft) \in Nat /\ Cardinality(Pending) \in Nat
  BY TargetsLeftFinite, PendingFinite
<1>3. MainLeft \in Nat /\ Flag(~done) \in Nat /\ Flag(exit = "running") \in Nat /\ Flag(ctx = "live") \in Nat
  BY DEF MainLeft, Flag
<1> DEFINE rest == Cardinality(Pending) + Flag(~done) + MainLeft + Flag(exit = "running") + Flag(ctx = "live")
<1>4. RunLeft = Cardinality(TargetsLeft) + rest /\ RunLeft' = Cardinality(TargetsLeft') + rest /\ rest \in Nat
  BY <1>1, <1>2, <1>3 DEF RunLeft, MainLeft
<1> HIDE DEF rest
<1>5. \A m, n, k \in Nat : m < n => m + k < n + k
  OBVIOUS
<1>6. QED
  BY <1>1, <1>2, <1>4, <1>5, Zenon

\* A step of somebody else leaves the targets alone.
LEMMA OthersFall ==
    ASSUME UNCHANGED pc,
           Cardinality(Pending)' + Flag(~done)' + MainLeft' + Flag(exit = "running")' + Flag(ctx = "live")'
             < Cardinality(Pending) + Flag(~done) + MainLeft + Flag(exit = "running") + Flag(ctx = "live")
    PROVE  RunLeft' < RunLeft
<1>1. TargetsLeft' = TargetsLeft
  BY DEF TargetsLeft
<1>2. Cardinality(TargetsLeft) \in Nat /\ Cardinality(Pending) \in Nat /\ Cardinality(Pending') \in Nat
  <2>1. IsFiniteSet(Pending')
    <3>1. Pending' \in SUBSET {"intercept", "local"}
      BY RunAssumption DEF Pending
    <3>2. QED
      BY <3>1, TwoChecksFinite, FS_Subset
  <2>2. QED
    BY <2>1, TargetsLeftFinite, PendingFinite, FS_CardinalityType
<1>3. /\ MainLeft \in Nat /\ Flag(~done) \in Nat /\ Flag(exit = "running") \in Nat /\ Flag(ctx = "live") \in Nat
      /\ MainLeft' \in Nat /\ Flag(~done)' \in Nat /\ Flag(exit = "running")' \in Nat /\ Flag(ctx = "live")' \in Nat
  BY DEF MainLeft, Flag
<1> DEFINE n == Cardinality(TargetsLeft)
           rest == Cardinality(Pending) + Flag(~done) + MainLeft + Flag(exit = "running") + Flag(ctx = "live")
<1>4. rest \in Nat /\ rest' \in Nat /\ rest' < rest
  BY <1>2, <1>3
<1>5. RunLeft = n + rest
  BY <1>2, <1>3 DEF RunLeft
<1>6. RunLeft' = n + rest'
  BY <1>1, <1>2, <1>3 DEF RunLeft
<1>7. n \in Nat
  BY <1>2
<1> HIDE DEF n, rest
<1>8. \A i, j, k \in Nat : j < k => i + j < i + k
  OBVIOUS
<1>9. n + rest' < n + rest
  BY <1>4, <1>7, <1>8, Zenon
<1>10. QED
  BY <1>5, <1>6, <1>9, Zenon

LEMMA RunFalls ==
    ASSUME IInv, Next, vars' # vars
    PROVE  RunLeft' < RunLeft
<1>1. ASSUME NEW t \in Targets, TargetStep(t) PROVE RunLeft' < RunLeft
  <2>1. pc[t] \in Steps /\ UNCHANGED <<main, done, exit, ctx>>
    BY <1>1 DEF IInv, TypeOK, TargetStep, Acquire, ResolveHost, Layers, Compare, Release, Decide,
                OnceBegins, OnceEnds, OnceJoins
  <2>2. \E next \in Steps : pc' = [pc EXCEPT ![t] = next] /\ Ahead(next) < Ahead(pc[t])
    <3>1. CASE Acquire(t) \/ ResolveHost(t) \/ Layers(t) \/ Compare(t)
      BY <3>1 DEF Acquire, ResolveHost, Layers, Compare, Steps, Slotted, Ahead, Calling
    <3>2. CASE Release(t) \/ Decide(t)
      BY <3>2 DEF Release, Decide, Steps, Slotted, Ahead
    <3>3. CASE \E f \in OnceFacts : OnceBegins(t, f) \/ OnceEnds(t, f) \/ OnceJoins(t, f)
      BY <3>3 DEF OnceBegins, OnceEnds, OnceJoins, Steps, Slotted, Ahead, Calling, Inside, After
    <3>4. QED
      BY <1>1, <3>1, <3>2, <3>3 DEF TargetStep
  <2>3. UNCHANGED Pending
    <3>1. \A c \in Checks : phase'[c] = phase[c]
      BY <1>1, RunAssumption
         DEF IInv, TypeOK, TargetStep, Acquire, ResolveHost, Layers, Compare, Release, Decide,
             OnceBegins, OnceEnds, OnceJoins
    <3>2. QED
      BY <3>1 DEF Pending
  <2>4. QED
    BY <2>1, <2>2, <2>3, TargetsFall
<1>2. CASE Spawn
  <2>1. /\ spawned + 1 \in Targets /\ pc[spawned + 1] = "unborn"
        /\ pc' = [pc EXCEPT ![spawned + 1] = "acquire"]
        /\ UNCHANGED <<main, done, exit, ctx, phase>>
    BY <1>2, RunAssumption DEF Spawn, IInv, TypeOK, MainInOrder
  <2>2. "acquire" \in Steps /\ Ahead("acquire") < Ahead("unborn") /\ UNCHANGED Pending
    BY <2>1 DEF Steps, Slotted, Ahead, Pending
  <2>3. QED
    BY <2>1, <2>2, TargetsFall
<1>3. ASSUME NEW c \in Checks, CheckEnds(c) PROVE RunLeft' < RunLeft
  <2>1. Pending' = Pending \ {c} /\ c \in Pending /\ UNCHANGED <<pc, done, main, exit, ctx>>
    BY <1>3, RunAssumption DEF IInv, TypeOK, CheckEnds, Pending
  <2>2. Cardinality(Pending') = Cardinality(Pending) - 1 /\ Cardinality(Pending) \in Nat
    BY <2>1, PendingFinite, FS_RemoveElement
  <2>3. QED
    BY <2>1, <2>2, OthersFall DEF MainLeft, Flag
<1>4. CASE LoopEnds \/ Return
  <2>1. UNCHANGED <<pc, Pending, done, exit, ctx>>
    BY <1>4 DEF LoopEnds, Return, Pending
  <2>2. MainLeft' = MainLeft - 1 /\ MainLeft \in Nat
    BY <1>4 DEF LoopEnds, Return, MainLeft
  <2>3. Cardinality(Pending) \in Nat
    BY PendingFinite
  <2>4. QED
    BY <2>1, <2>2, <2>3, OthersFall DEF Flag
<1>5. CASE Exit \/ Close \/ Interrupt
  <2>1. UNCHANGED <<pc, Pending, main>>
    BY <1>5 DEF Exit, Close, Interrupt, Pending
  <2>2. MainLeft' = MainLeft /\ MainLeft \in Nat /\ Cardinality(Pending) \in Nat
    BY <2>1, PendingFinite DEF MainLeft
  <2>3. CASE Exit
    <3>1. exit = "running" /\ exit' # "running" /\ UNCHANGED <<done, ctx>>
      BY <2>3 DEF Exit, ExitCode
    <3>2. QED
      BY <2>1, <2>2, <3>1, OthersFall DEF Flag
  <2>4. CASE Close
    <3>1. ~done /\ done' /\ UNCHANGED <<exit, ctx>>
      BY <2>4 DEF Close
    <3>2. QED
      BY <2>1, <2>2, <3>1, OthersFall DEF Flag
  <2>5. CASE Interrupt
    <3>1. ctx = "live" /\ ctx' # "live" /\ UNCHANGED <<done, exit>>
      BY <2>5 DEF Interrupt
    <3>2. QED
      BY <2>1, <2>2, <3>1, OthersFall DEF Flag
  <2>6. QED
    BY <1>5, <2>3, <2>4, <2>5
<1>6. ~Ended
  BY DEF Ended
<1>7. QED
  BY <1>1, <1>2, <1>3, <1>4, <1>5, <1>6 DEF Next, MainStep, SharedStep

\* A run is over after a number of steps that is known when it begins, whatever its
\* targets find: no goroutine goes back, and no lookup is done twice. With DeadlockFree
\* and a scheduler that is fair, this is Terminates.
THEOREM StepsAreBounded ==
    Spec => [](RunLeft \in Nat) /\ [][RunLeft' < RunLeft]_vars
<1>1. IInv /\ [Next]_vars => [RunLeft' < RunLeft]_vars
  BY RunFalls
<1>2. QED
  BY <1>1, RunLeftIs, InductiveInvariant, PTL DEF Spec
=============================================================================
