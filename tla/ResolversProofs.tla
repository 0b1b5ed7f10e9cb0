-------------------------- MODULE ResolversProofs ---------------------------
(***************************************************************************)
(* Proofs about the lookups and the resolvers under them, for every set of *)
(* addresses and signatures and every number of resolvers: what module Dns *)
(* keeps, and, whatever the network does to datagrams, that the lookups of *)
(* module Resolvers implement those of Dns and take no answer from a       *)
(* response to another query.                                              *)
(***************************************************************************)
EXTENDS Resolvers, Dns, AnalysisProofs, FiniteSetTheorems

-----------------------------------------------------------------------------
(* The lookups. *)

LEMMA SlotCases ==
    ASSUME NEW slot \in Slots
    PROVE  \/ HasSystem /\ slot = System
           \/ \E i \in Public : slot = <<"public", i>>
           \/ \E i \in DoH : slot = <<"doh", i>>
BY SystemAssumption DEF Slots

LEMMA AnswerIsPresent ==
    ASSUME NEW a \in Answer
    PROVE  a # Absent
<1>1. CASE \E as \in (SUBSET Addr) \ {{}} : a = Found(as)
  <2>1. PICK as \in (SUBSET Addr) \ {{}} : a = Found(as)
    BY <1>1
  <2>2. a.addrs # Absent.addrs
    BY <2>1 DEF Found, Absent
  <2>3. QED
    BY <2>2
<1>2. CASE \E e \in Failures : a = Failed(e)
  <2>1. PICK e \in Failures : a = Failed(e)
    BY <1>2
  <2>2. a.err # Absent.err
    BY <2>1 DEF Failed, Absent, Failures
  <2>3. QED
    BY <2>2
<1>3. QED
  BY <1>1, <1>2 DEF Answer

LEMMA InitKeeps == Init => DnsInv
<1> SUFFICES ASSUME Init PROVE DnsInv
  OBVIOUS
<1>1. res \in Result
  BY DEF Init, NoAnswers, Result, MaybeAnswer
<1>2. TypeOK
  BY <1>1 DEF Init, TypeOK
<1>3. Arrived
  BY SystemAssumption DEF Init, Arrived, Slots
<1>4. QED
  BY <1>2, <1>3 DEF Init, DnsInv, ComparedWhenAllIn, Analyzed, ControlOnSilence

LEMMA LookupKeeps ==
    ASSUME DnsInv, NEW slot \in Slots, Lookup(slot)
    PROVE  DnsInv'
<1>1. PICK a \in Answer : res' = Put(slot, a)
  BY DEF Lookup
<1>2. a \in Answer /\ a \in MaybeAnswer /\ a # Absent
  BY AnswerIsPresent DEF MaybeAnswer
<1>3. res \in Result
  BY DEF DnsInv, TypeOK
<1>4. res' \in Result /\ Arrived'
  <2>1. CASE HasSystem /\ slot = System
    <3>1. res' = [res EXCEPT !.system = a]
      BY <1>1, <2>1 DEF Put, System
    <3>2. waiting' = waiting \ {System}
      BY <2>1 DEF Lookup
    <3>3. QED
      BY <1>2, <1>3, <3>1, <3>2 DEF Result, DnsInv, Arrived, System
  <2>2. CASE \E i \in Public : slot = <<"public", i>>
    <3>1. PICK i \in Public : slot = <<"public", i>>
      BY <2>2
    <3>2. res' = [res EXCEPT !.public[i] = a]
      BY <1>1, <3>1 DEF Put
    <3>3. waiting' = waiting \ {<<"public", i>>}
      BY <3>1 DEF Lookup
    <3>4. QED
      BY <1>2, <1>3, <3>2, <3>3 DEF Result, DnsInv, Arrived, System
  <2>3. CASE \E i \in DoH : slot = <<"doh", i>>
    <3>1. PICK i \in DoH : slot = <<"doh", i>>
      BY <2>3
    <3>2. res' = [res EXCEPT !.doh[i] = a]
      BY <1>1, <3>1 DEF Put
    <3>3. waiting' = waiting \ {<<"doh", i>>}
      BY <3>1 DEF Lookup
    <3>4. QED
      BY <1>2, <1>3, <3>2, <3>3 DEF Result, DnsInv, Arrived, System
  <2>4. QED
    BY SlotCases, <2>1, <2>2, <2>3
<1>5. TypeOK'
  BY <1>4 DEF DnsInv, TypeOK, Lookup
<1>6. ComparedWhenAllIn' /\ ControlOnSilence'
  BY DEF Lookup, DnsInv, ComparedWhenAllIn, Analyzed, ControlOnSilence
<1>7. QED
  BY <1>4, <1>5, <1>6 DEF DnsInv

LEMMA CompareKeeps ==
    ASSUME DnsInv, Compare
    PROVE  DnsInv'
<1>1. TypeOK'
  BY DEF DnsInv, TypeOK, Compare
<1>2. Arrived'
  BY DEF DnsInv, Arrived, Compare
<1>3. analysis' = Analyze(res')
  BY DEF Compare
<1>4. ComparedWhenAllIn' /\ ControlOnSilence'
  BY <1>3 DEF Compare, DnsInv, ComparedWhenAllIn, Analyzed, ControlOnSilence
<1>5. QED
  BY <1>1, <1>2, <1>4 DEF DnsInv

LEMMA ControlLookupKeeps ==
    ASSUME DnsInv, ControlLookup
    PROVE  DnsInv'
<1>1. PICK ok \in SUBSET ControlSlots : control' = ok /\ dropped' = (ok # {})
  BY DEF ControlLookup
<1>2. TypeOK'
  BY <1>1 DEF DnsInv, TypeOK, ControlLookup, ControlSlots
<1>3. Arrived' /\ ComparedWhenAllIn'
  BY DEF DnsInv, Arrived, ComparedWhenAllIn, Analyzed, ControlLookup
<1>4. ControlOnSilence'
  BY <1>1 DEF DnsInv, ControlOnSilence, ControlLookup, ControlSlots
<1>5. QED
  BY <1>2, <1>3, <1>4 DEF DnsInv

LEMMA NextKeeps == DnsInv /\ [Next]_vars => DnsInv'
<1> SUFFICES ASSUME DnsInv, [Next]_vars PROVE DnsInv'
  OBVIOUS
<1>1. CASE \E slot \in Slots : Lookup(slot)
  BY <1>1, LookupKeeps
<1>2. CASE Compare
  BY <1>2, CompareKeeps
<1>3. CASE ControlLookup
  BY <1>3, ControlLookupKeeps
<1>4. CASE UNCHANGED vars
  BY <1>4 DEF vars, DnsInv, TypeOK, Arrived, ComparedWhenAllIn, Analyzed, ControlOnSilence
<1>5. QED
  BY <1>1, <1>2, <1>3, <1>4 DEF Next, Finished

\* Every resolver has had its say before the comparison, which is made once and of
\* the answers as they stay (Resolve and Analyze, check.go:68-209).
THEOREM LookupsInOrder == Spec => []DnsInv
BY InitKeeps, NextKeeps, PTL DEF Spec

\* An analysis is that of well-formed answers.
LEMMA AnalyzedIsAnalyze ==
    ASSUME DnsInv, Analyzed
    PROVE  /\ res \in Result
           /\ analysis = Analyze(res)
BY DEF DnsInv, TypeOK, ComparedWhenAllIn

\* A name is unresolvable only when no resolver gave an address: no answer is ever
\* forgotten between the resolvers and the verdict (check.go:118).
THEOREM NoAnswerForgotten == Spec => []UnresolvableMeansNoAddress
<1>1. DnsInv => UnresolvableMeansNoAddress
  BY AnalyzedIsAnalyze, AnalyzeUnresolvable DEF UnresolvableMeansNoAddress, Plain
<1>2. QED
  BY <1>1, LookupsInOrder, PTL

\* The system resolver's answer is suspected only on another resolver's word.
THEOREM SecondOpinion == Spec => []SuspectsNeedASecondOpinion
<1>1. DnsInv => SuspectsNeedASecondOpinion
  BY AnalyzedIsAnalyze, AnalyzeSuspects DEF SuspectsNeedASecondOpinion
<1>2. QED
  BY <1>1, LookupsInOrder, PTL

LEMMA ReferenceOf ==
    ASSUME NEW r
    PROVE  /\ Analyze(r).reference = Reference(r).addrs
           /\ Analyze(r).referenceKind = Reference(r).kind
BY DEF Analyze

\* Without DoH no known block-page address is taken for the real one, and public
\* resolvers are trusted over the system one (check.go:149).
THEOREM CleanReference == Spec => []PlainReferenceIsClean
<1>1. DnsInv => PlainReferenceIsClean
  BY AnalyzedIsAnalyze, ReferenceOf, AnalyzePlainReference DEF PlainReferenceIsClean
<1>2. QED
  BY <1>1, LookupsInOrder, PTL

\* No block-page or private address of a plain answer goes unnoticed when the
\* reference has a public address.
THEOREM NothingUnnoticed == Spec => []BadAnswersAreNoticed
<1>1. DnsInv => BadAnswersAreNoticed
  BY AnalyzedIsAnalyze, ReferenceOf, AnalyzeNotices DEF BadAnswersAreNoticed
<1>2. QED
  BY <1>1, LookupsInOrder, PTL

\* "Queries for this name are dropped" is said only of a name every plain resolver
\* was silent about, while one of them answered for the control name.
THEOREM DroppedIsSilenced == Spec => []DroppedMeansSilenced
<1>1. DnsInv => DroppedMeansSilenced
  <2> SUFFICES ASSUME DnsInv, dropped PROVE DroppedMeansSilenced
    BY DEF DroppedMeansSilenced
  <2>1. Analyzed /\ analysis.unresolvable /\ analysis.allPlainTimeout
    BY DEF DnsInv, ControlOnSilence, Analyzed
  <2>2. res \in Result /\ analysis = Analyze(res) /\ waiting = {}
    BY <2>1 DEF DnsInv, TypeOK, ComparedWhenAllIn
  <2>3. /\ analysis.reference = {}
        /\ ~Poisoned(analysis)
        /\ analysis.systemFailure = ""
    BY <2>1, <2>2 DEF Analyze, Poisoned, SystemFailure
  <2>4. \A a \in Plain(res) : a # Absent => a.err = "timeout"
    BY <2>1, <2>2 DEF Analyze, AllPlainTimeout, FailureKind
  <2>5. /\ \A i \in Public : res.public[i].err = "timeout"
        /\ HasSystem => res.system.err = "timeout"
    BY <2>2, <2>4 DEF DnsInv, Arrived, Plain
  <2>6. QED
    BY <2>3, <2>5 DEF DnsInv, ControlOnSilence, DroppedMeansSilenced
<1>2. QED
  BY <1>1, LookupsInOrder, PTL

\* A network whose resolvers agree on public addresses is never accused, however many
\* of them failed to answer.
THEOREM HonestNetworkCleared == Spec => []HonestNetworkNotAccused
<1>1. DnsInv => HonestNetworkNotAccused
  BY AnalyzedIsAnalyze, AnalyzeHonest DEF HonestNetworkNotAccused, Consistent
<1>2. QED
  BY <1>1, LookupsInOrder, PTL


-----------------------------------------------------------------------------
(* What a lookup can return. *)

LEMMA FailedIsAnswer ==
    ASSUME NEW e \in Failures
    PROVE  Failed(e) \in Answer
BY Zenon DEF Answer

LEMMA FoundIsAnswer ==
    ASSUME NEW found \in (SUBSET Addr) \ {{}}
    PROVE  Found(found) \in Answer
BY Zenon DEF Answer

\* Whatever a response says, addresses or one reason why not.
LEMMA ResponseIsAnswer ==
    ASSUME NEW m \in Messages
    PROVE  AddrsFrom(m) \in Answer
<1>1. /\ "noanswer" \in Failures /\ "servfail" \in Failures
      /\ "nxdomain" \in Failures /\ "rcode_refused" \in Failures
  BY DEF Failures
<1>2. CASE m.rcode = "success" /\ m.addrs \subseteq IPv6
  BY <1>1, <1>2, FailedIsAnswer DEF AddrsFrom
<1>3. CASE m.rcode = "success" /\ ~(m.addrs \subseteq IPv6)
  <2>1. m.addrs \ IPv6 \in (SUBSET Addr) \ {{}}
    BY <1>3, ResolversAssumption
  <2>2. AddrsFrom(m) = Found(m.addrs \ IPv6)
    BY <1>3 DEF AddrsFrom
  <2>3. QED
    BY <2>1, <2>2, FoundIsAnswer
<1>4. CASE m.rcode # "success" /\ m.rcode \in {"nxdomain", "rcode_refused"}
  BY <1>1, <1>4, FailedIsAnswer DEF AddrsFrom
<1>5. CASE m.rcode # "success" /\ m.rcode \notin {"nxdomain", "rcode_refused"}
  BY <1>1, <1>5, FailedIsAnswer DEF AddrsFrom
<1>6. QED
  BY <1>2, <1>3, <1>4, <1>5

LEMMA CallIsAnswer ==
    /\ OsAnswers \subseteq Answer
    /\ DohAnswers \subseteq Answer
<1>1. {"nxdomain", "noanswer", "timeout", "refused", "error"} \subseteq Failures
  BY DEF Failures
<1>2. OsAnswers \subseteq Answer
  BY <1>1, FailedIsAnswer, FoundIsAnswer DEF OsAnswers
<1>3. DohAnswers \subseteq Answer
  BY <1>1, FailedIsAnswer, ResponseIsAnswer DEF DohAnswers
<1>4. QED
  BY <1>2, <1>3

-----------------------------------------------------------------------------
(* The steps: each lookup that returns does so once, with an answer. *)

Unfinished(s) == s \in Asked /\ ask[s] # Over

\* Every step of a slot sends its query, skips a datagram, or returns its lookup.
LEMMA Returning ==
    ASSUME ExTypeOK, NEW s \in Slots, SlotStep(s)
    PROVE  \/ SendQuery(s)
           \/ UNCHANGED <<vars, ask, queries, reply, heard>> /\ \E d \in wire : wire' \in {wire, wire \ {d}}
           \/ /\ Unfinished(s)
              /\ \E a \in Answer : LookupReturns(s, a)
              /\ UNCHANGED <<wire, reply>>
           \/ /\ Reading(s)
              /\ \E d \in wire :
                    /\ d.slot = s /\ d.port = ask[s].port /\ Matches(s, d)
                    /\ wire' \in {wire, wire \ {d}}
                    /\ LookupReturns(s, AddrsFrom(d.message))
                    /\ AddrsFrom(d.message) \in Answer
                    /\ reply' = [reply EXCEPT ![s] = d]
<1>1. Idle # Over
  BY DEF Idle, Over
<1>2. Reading(s) => Unfinished(s)
  <2>1. Over.at # "reading"
    BY DEF Over, Idle
  <2>2. QED
    BY <2>1 DEF Reading, Unfinished
<1>3. {"timeout", "refused", "error"} \subseteq Failures
  BY DEF Failures
<1>4. CASE AskSystem(s)
  BY <1>1, <1>4, CallIsAnswer DEF AskSystem, Unfinished
<1>5. CASE AskDoH(s)
  BY <1>1, <1>5, CallIsAnswer DEF AskDoH, Unfinished
<1>6. CASE SendQuery(s)
  BY <1>6
<1>7. CASE CannotSend(s)
  <2>1. Failed("error") \in Answer
    BY <1>3, FailedIsAnswer
  <2>2. Unfinished(s)
    BY <1>1, <1>7 DEF CannotSend, Unfinished
  <2>3. QED
    BY <1>7, <2>1, <2>2 DEF CannotSend
<1>8. CASE ReadFails(s)
  <2>1. \A e \in {"timeout", "refused"} : Failed(e) \in Answer
    BY <1>3, FailedIsAnswer
  <2>2. QED
    BY <1>2, <1>8, <2>1 DEF ReadFails
<1>9. CASE Receive(s)
  <2>1. PICK d \in wire :
            /\ d.slot = s /\ d.port = ask[s].port
            /\ wire' \in {wire, wire \ {d}}
            /\ IF Matches(s, d)
                 THEN /\ LookupReturns(s, AddrsFrom(d.message))
                      /\ reply' = [reply EXCEPT ![s] = d]
                 ELSE UNCHANGED <<vars, ask, queries, reply, heard>>
    BY <1>9, Zenon DEF Receive
  <2>2. CASE Matches(s, d)
    <3>1. d.message \in Messages
      BY <2>2 DEF ExTypeOK, ExchangeTypes, Datagrams, Matches
    <3>2. AddrsFrom(d.message) \in Answer
      BY <3>1, ResponseIsAnswer
    <3>3. Reading(s)
      BY <1>9 DEF Receive
    <3>4. QED
      BY <2>1, <2>2, <3>2, <3>3, Zenon
  <2>3. CASE ~Matches(s, d)
    BY <2>1, <2>3, Zenon
  <2>4. QED
    BY <2>2, <2>3
<1>10. QED
  BY <1>4, <1>5, <1>6, <1>7, <1>8, <1>9 DEF SlotStep

\* A lookup that returns is Dns's Lookup in the first round, and nothing in the second.
LEMMA ReturnImplements ==
    ASSUME ExTypeOK, NEW s \in Slots, Unfinished(s), NEW a \in Answer, LookupReturns(s, a)
    PROVE  Lookup(s) \/ UNCHANGED vars
<1>1. CASE stage = "resolve"
  <2>1. s \in waiting
    BY <1>1 DEF ExTypeOK, OneSocketEach, Unfinished
  <2>2. Round = "host"
    BY <1>1 DEF Round
  <2>3. /\ res' = Put(s, a) /\ waiting' = waiting \ {s}
        /\ UNCHANGED <<stage, analysis, asked, control, dropped>>
    BY <2>2, Zenon DEF LookupReturns
  <2>4. QED
    BY <1>1, <2>1, <2>3 DEF Lookup
<1>2. CASE stage # "resolve"
  <2>1. Round = "control"
    BY <1>2 DEF Round
  <2>2. UNCHANGED <<res, waiting, stage, analysis, asked, control, dropped>>
    BY <2>1 DEF LookupReturns
  <2>3. QED
    BY <2>2 DEF vars
<1>3. QED
  BY <1>1, <1>2

LEMMA StepImplements ==
    ASSUME ExTypeOK, [ExNext]_allVars
    PROVE  [Next]_vars
<1>1. ASSUME NEW s \in Slots, SlotStep(s)
      PROVE  [Next]_vars
  <2>1. CASE SendQuery(s)
    BY <2>1 DEF SendQuery
  <2>2. ASSUME NEW a \in Answer, Unfinished(s), LookupReturns(s, a)
        PROVE  [Next]_vars
    BY <2>2, ReturnImplements DEF Next
  <2>3. Reading(s) => Unfinished(s)
    BY DEF Reading, Unfinished, Over, Idle
  <2>4. QED
    BY <1>1, <2>1, <2>2, <2>3, Returning
<1>2. CASE Analysed
  BY <1>2 DEF Analysed, Next
<1>3. CASE ControlEnds
  <2>1. heard \in SUBSET ControlSlots
    BY DEF ExTypeOK, ExchangeTypes
  <2>2. ControlLookup
    BY <1>3, <2>1 DEF ControlEnds, ControlLookup
  <2>3. QED
    BY <2>2 DEF Next
<1>4. CASE Respond \/ Lose
  BY <1>4 DEF Respond, Lose
<1>5. CASE UNCHANGED allVars
  BY <1>5 DEF allVars
<1>6. QED
  BY <1>1, <1>2, <1>3, <1>4, <1>5 DEF ExNext

-----------------------------------------------------------------------------
(* Sockets, datagrams and votes stay in order. *)

LEMMA FewerDatagrams ==
    ASSUME ExTypeOK, wire' \subseteq wire, queries \subseteq queries'
    PROVE  /\ wire' \subseteq Datagrams /\ IsFiniteSet(wire') /\ Cardinality(wire') <= MaxDatagrams
           /\ NothingUnasked'
<1>1. /\ wire \subseteq Datagrams /\ IsFiniteSet(wire) /\ Cardinality(wire) <= MaxDatagrams
      /\ MaxDatagrams \in Nat
  BY ResolversAssumption DEF ExTypeOK, ExchangeTypes
<1>2. IsFiniteSet(wire') /\ Cardinality(wire') <= Cardinality(wire)
  BY <1>1, FS_Subset
<1>3. Cardinality(wire') \in Nat /\ Cardinality(wire) \in Nat
  BY <1>1, <1>2, FS_CardinalityType
<1>4. Cardinality(wire') <= MaxDatagrams
  BY <1>1, <1>2, <1>3
<1>5. NothingUnasked'
  BY DEF ExTypeOK, NothingUnasked
<1>6. QED
  BY <1>1, <1>2, <1>4, <1>5

LEMMA OverFacts ==
    /\ Over # Idle /\ Over.at = "over" /\ Over.port = 0 /\ Over.id = 0
    /\ Idle.at = "idle" /\ Idle.port = 0 /\ Idle.id = 0
    /\ Over \in [at : {"idle", "reading", "over"}, port : Ports \cup {0}, id : IDs \cup {0}]
    /\ Idle \in [at : {"idle", "reading", "over"}, port : Ports \cup {0}, id : IDs \cup {0}]
BY DEF Over, Idle

\* A lookup that returns leaves the rest of the exchange in order.
LEMMA ReturnKeeps ==
    ASSUME ExTypeOK, NEW s \in Slots, Unfinished(s), NEW a, LookupReturns(s, a),
           wire' \subseteq wire, reply' \in [Slots -> {NoReply} \cup Datagrams]
    PROVE  ExchangeTypes' /\ OneSocketEach' /\ NothingUnasked'
<1>1. ask' = [ask EXCEPT ![s] = Over] /\ UNCHANGED <<stage, queries>>
  BY DEF LookupReturns
<1>2. ask \in [Slots -> [at : {"idle", "reading", "over"}, port : Ports \cup {0}, id : IDs \cup {0}]]
  BY DEF ExTypeOK, ExchangeTypes
<1>3. /\ ask' \in [Slots -> [at : {"idle", "reading", "over"}, port : Ports \cup {0}, id : IDs \cup {0}]]
      /\ ask'[s] = Over /\ \A u \in Slots : u # s => ask'[u] = ask[u]
  BY <1>1, <1>2, OverFacts
<1>4. Asked' = Asked
  BY <1>1 DEF Asked
<1>5. \/ stage = "resolve" /\ waiting' = waiting \ {s} /\ heard' = heard
      \/ stage # "resolve" /\ waiting' = waiting /\ heard' \in {heard, heard \cup {s}}
  BY DEF LookupReturns, Round
<1>6. stage # "resolve" => s \in ControlSlots
  BY DEF Unfinished, Asked
<1>7. heard' \subseteq ControlSlots
  BY <1>5, <1>6 DEF ExTypeOK, ExchangeTypes
<1>8. ExchangeTypes'
  BY <1>1, <1>3, <1>7, FewerDatagrams DEF ExTypeOK, ExchangeTypes
<1>9. ASSUME NEW u \in Slots, ask'[u].at = "reading"
      PROVE  /\ u \in Asked'
             /\ ask'[u].port \in Ports
             /\ \A v \in Slots : ask'[v].port = ask'[u].port => v = u
  <2>1. u # s /\ ask'[u] = ask[u]
    BY <1>3, <1>9, OverFacts
  <2>2. /\ u \in Asked /\ ask[u].port \in Ports
        /\ \A v \in Slots : ask[v].port = ask[u].port => v = u
    BY <1>9, <2>1 DEF ExTypeOK, OneSocketEach
  <2>3. ASSUME NEW v \in Slots, ask'[v].port = ask[u].port PROVE v = u
    <3>1. v # s
      BY <1>3, <2>2, <2>3, OverFacts, ResolversAssumption
    <3>2. QED
      BY <1>3, <2>2, <2>3, <3>1
  <2>4. QED
    BY <1>4, <2>1, <2>2, <2>3
<1>10. stage' = "resolve" => waiting' = {u \in Slots : ask'[u] # Over} /\ heard' = {}
  BY <1>1, <1>3, <1>5 DEF ExTypeOK, OneSocketEach
<1>11. \A u \in heard' : ask'[u] = Over
  BY <1>3, <1>5, <1>7 DEF ExTypeOK, OneSocketEach, ControlSlots
<1>12. QED
  BY <1>1, <1>8, <1>9, <1>10, <1>11, FewerDatagrams DEF OneSocketEach

LEMMA SendKeeps ==
    ASSUME ExTypeOK, NEW s \in Slots, SendQuery(s)
    PROVE  ExchangeTypes' /\ OneSocketEach' /\ NothingUnasked'
<1>1. PICK p \in Ports, id \in IDs :
        /\ \A u \in Slots : ask[u].port # p
        /\ ask' = [ask EXCEPT ![s] = [at |-> "reading", port |-> p, id |-> id]]
        /\ queries' = queries \cup {[slot |-> s, port |-> p, id |-> id, name |-> Round]}
  BY Zenon DEF SendQuery
<1>2. /\ ask[s] = Idle /\ s \in UdpSlots /\ s \in Asked
      /\ UNCHANGED <<stage, waiting, wire, reply, heard>>
  BY DEF SendQuery, vars
<1>3. ask \in [Slots -> [at : {"idle", "reading", "over"}, port : Ports \cup {0}, id : IDs \cup {0}]]
  BY DEF ExTypeOK, ExchangeTypes
<1> DEFINE new == [at |-> "reading", port |-> p, id |-> id]
<1>4. /\ new \in [at : {"idle", "reading", "over"}, port : Ports \cup {0}, id : IDs \cup {0}]
      /\ new.at = "reading" /\ new.port = p
  OBVIOUS
<1>5. ask' = [ask EXCEPT ![s] = new]
  BY <1>1
<1> HIDE DEF new
<1>6. /\ ask' \in [Slots -> [at : {"idle", "reading", "over"}, port : Ports \cup {0}, id : IDs \cup {0}]]
      /\ ask'[s] = new /\ \A u \in Slots : u # s => ask'[u] = ask[u]
  BY <1>3, <1>4, <1>5
<1>7. queries' \subseteq Queries
  <2>1. Round \in {"host", "control"}
    BY DEF Round
  <2>2. [slot |-> s, port |-> p, id |-> id, name |-> Round] \in Queries
    BY <1>2, <2>1 DEF Queries
  <2>3. QED
    BY <1>1, <2>2 DEF ExTypeOK, ExchangeTypes
<1>8. NothingUnasked'
  BY <1>1, <1>2 DEF ExTypeOK, NothingUnasked
<1>9. ExchangeTypes'
  BY <1>2, <1>6, <1>7 DEF ExTypeOK, ExchangeTypes
<1>10. new # Over /\ Idle # Over
  BY <1>4, OverFacts
<1>11. Asked' = Asked
  BY <1>2 DEF Asked
<1>12. ASSUME NEW u \in Slots, ask'[u].at = "reading"
       PROVE  /\ u \in Asked'
              /\ ask'[u].port \in Ports
              /\ \A v \in Slots : ask'[v].port = ask'[u].port => v = u
  <2>1. CASE u = s
    BY <1>1, <1>2, <1>4, <1>6, <1>11, <2>1
  <2>2. CASE u # s
    <3>1. /\ ask'[u] = ask[u] /\ u \in Asked /\ ask[u].port \in Ports
          /\ \A v \in Slots : ask[v].port = ask[u].port => v = u
      BY <1>6, <1>12, <2>2 DEF ExTypeOK, OneSocketEach
    <3>2. ask'[s].port # ask[u].port
      BY <1>1, <1>4, <1>6
    <3>3. QED
      BY <1>6, <1>11, <3>1, <3>2
  <2>3. QED
    BY <2>1, <2>2
<1>13. stage' = "resolve" => waiting' = {u \in Slots : ask'[u] # Over} /\ heard' = {}
  BY <1>2, <1>6, <1>10 DEF ExTypeOK, OneSocketEach
<1>14. \A u \in heard' : ask'[u] = Over
  <2>1. \A u \in heard : u \in Slots /\ ask[u] = Over
    BY DEF ExTypeOK, ExchangeTypes, OneSocketEach, ControlSlots
  <2>2. QED
    BY <1>2, <1>6, <1>10, <2>1
<1>15. QED
  BY <1>8, <1>9, <1>12, <1>13, <1>14 DEF OneSocketEach

\* The network invents no query.
LEMMA RespondKeeps ==
    ASSUME ExTypeOK, Respond
    PROVE  ExchangeTypes' /\ OneSocketEach' /\ NothingUnasked'
<1>1. PICK q \in queries, m \in Messages \cup {Garbage} :
        wire' = wire \cup {[slot |-> q.slot, port |-> q.port, id |-> q.id, name |-> q.name,
                            message |-> m]}
  BY DEF Respond
<1> DEFINE new == [slot |-> q.slot, port |-> q.port, id |-> q.id, name |-> q.name, message |-> m]
<1>2. Cardinality(wire) < MaxDatagrams /\ UNCHANGED <<stage, waiting, ask, queries, reply, heard>>
  BY DEF Respond, vars
<1>3. /\ wire \subseteq Datagrams /\ IsFiniteSet(wire) /\ Cardinality(wire) \in Nat
      /\ MaxDatagrams \in Nat /\ q \in Queries
  BY FS_CardinalityType, ResolversAssumption DEF ExTypeOK, ExchangeTypes
<1>4. /\ new \in Datagrams
      /\ q.slot = new.slot /\ q.port = new.port /\ q.id = new.id /\ q.name = new.name
  BY <1>3 DEF Datagrams, Queries
<1>5. wire' = wire \cup {new}
  BY <1>1
<1> HIDE DEF new
<1>6. /\ IsFiniteSet(wire')
      /\ Cardinality(wire') = Cardinality(wire) \/ Cardinality(wire') = Cardinality(wire) + 1
  BY <1>3, <1>5, FS_AddElement
<1>7. ExchangeTypes'
  BY <1>2, <1>3, <1>4, <1>5, <1>6 DEF ExTypeOK, ExchangeTypes
<1>8. NothingUnasked'
  BY <1>2, <1>4, <1>5 DEF ExTypeOK, NothingUnasked
<1>9. OneSocketEach'
  BY <1>2 DEF ExTypeOK, OneSocketEach, Asked
<1>10. QED
  BY <1>7, <1>8, <1>9

LEMMA LoseKeeps ==
    ASSUME ExTypeOK, wire' \subseteq wire, UNCHANGED <<vars, ask, queries, reply, heard>>
    PROVE  ExchangeTypes' /\ OneSocketEach' /\ NothingUnasked'
<1>1. UNCHANGED <<stage, waiting>>
  BY DEF vars
<1>2. ExchangeTypes'
  BY FewerDatagrams DEF ExTypeOK, ExchangeTypes
<1>3. OneSocketEach'
  BY <1>1 DEF ExTypeOK, OneSocketEach, Asked
<1>4. QED
  BY <1>2, <1>3, FewerDatagrams

LEMMA AnalysedKeeps ==
    ASSUME ExTypeOK, Analysed
    PROVE  ExchangeTypes' /\ OneSocketEach' /\ NothingUnasked'
<1>1. /\ stage = "resolve" /\ stage' # "resolve"
      /\ ask' = [s \in Slots |-> Idle] /\ reply' = [s \in Slots |-> NoReply]
      /\ UNCHANGED <<queries, wire, heard>>
  BY DEF Analysed, Compare
<1>2. heard' = {}
  BY <1>1 DEF ExTypeOK, OneSocketEach
<1>3. \A s \in Slots : ask'[s] = Idle
  BY <1>1
<1>4. ExchangeTypes'
  BY <1>1, <1>2, OverFacts DEF ExTypeOK, ExchangeTypes
<1>5. OneSocketEach'
  BY <1>1, <1>2, <1>3, OverFacts DEF OneSocketEach
<1>6. QED
  BY <1>1, <1>4, <1>5 DEF ExTypeOK, NothingUnasked

LEMMA ControlEndsKeeps ==
    ASSUME ExTypeOK, ControlEnds
    PROVE  ExchangeTypes' /\ OneSocketEach' /\ NothingUnasked'
<1>1. /\ stage = "control" /\ stage' = "done"
      /\ \A s \in ControlSlots : ask[s] = Over
      /\ UNCHANGED <<waiting, ask, queries, wire, reply, heard>>
  BY DEF ControlEnds, exchangeVars
<1>2. \A s \in Slots : ask[s].at # "reading"
  BY <1>1, OverFacts DEF ExTypeOK, OneSocketEach, Asked
<1>3. OneSocketEach'
  BY <1>1, <1>2 DEF ExTypeOK, OneSocketEach
<1>4. QED
  BY <1>1, <1>3 DEF ExTypeOK, ExchangeTypes, NothingUnasked

LEMMA ExchangeKept ==
    ASSUME ExTypeOK, [ExNext]_allVars
    PROVE  ExchangeTypes' /\ OneSocketEach' /\ NothingUnasked'
<1>1. ASSUME NEW s \in Slots, SlotStep(s)
      PROVE  ExchangeTypes' /\ OneSocketEach' /\ NothingUnasked'
  <2>1. reply \in [Slots -> {NoReply} \cup Datagrams] /\ wire \subseteq Datagrams
    BY DEF ExTypeOK, ExchangeTypes
  <2>2. CASE SendQuery(s)
    BY <2>2, SendKeeps
  <2>3. CASE UNCHANGED <<vars, ask, queries, reply, heard>> /\ \E d \in wire : wire' \in {wire, wire \ {d}}
    <3>1. wire' \subseteq wire
      BY <2>3
    <3>2. QED
      BY <2>3, <3>1, LoseKeeps
  <2>4. CASE Unfinished(s) /\ (\E a \in Answer : LookupReturns(s, a)) /\ UNCHANGED <<wire, reply>>
    BY <2>1, <2>4, ReturnKeeps
  <2>5. ASSUME Reading(s), NEW d \in wire, wire' \in {wire, wire \ {d}},
               LookupReturns(s, AddrsFrom(d.message)), reply' = [reply EXCEPT ![s] = d]
        PROVE  ExchangeTypes' /\ OneSocketEach' /\ NothingUnasked'
    <3>1. Unfinished(s)
      BY <2>5, OverFacts DEF Reading, Unfinished
    <3>2. reply' \in [Slots -> {NoReply} \cup Datagrams]
      BY <2>1, <2>5
    <3>3. wire' \subseteq wire
      BY <2>5
    <3>4. QED
      BY <2>5, <3>1, <3>2, <3>3, ReturnKeeps
  <2>6. QED
    BY <1>1, <2>2, <2>3, <2>4, <2>5, Returning
<1>2. CASE Respond
  BY <1>2, RespondKeeps
<1>3. CASE Lose
  <2>1. wire' \subseteq wire /\ UNCHANGED <<vars, ask, queries, reply, heard>>
    BY <1>3 DEF Lose
  <2>2. QED
    BY <2>1, LoseKeeps
<1>4. CASE UNCHANGED allVars
  BY <1>4, LoseKeeps DEF allVars, exchangeVars
<1>5. CASE Analysed
  BY <1>5, AnalysedKeeps
<1>6. CASE ControlEnds
  BY <1>6, ControlEndsKeeps
<1>7. QED
  BY <1>1, <1>2, <1>3, <1>4, <1>5, <1>6 DEF ExNext

ExInv == DnsInv /\ ExTypeOK

LEMMA ExAtFirst == ExInit => ExInv
<1> SUFFICES ASSUME ExInit PROVE ExInv
  OBVIOUS
<1>1. DnsInv
  BY InitKeeps DEF ExInit
<1>2. ask = [s \in Slots |-> Idle] /\ \A s \in Slots : ask[s] = Idle
  BY DEF ExInit
<1>3. IsFiniteSet({}) /\ Cardinality({}) = 0
  BY FS_EmptySet
<1>4. ExchangeTypes
  BY <1>2, <1>3, OverFacts, ResolversAssumption DEF ExInit, ExchangeTypes
<1>5. OneSocketEach
  BY <1>2, OverFacts DEF ExInit, Init, OneSocketEach
<1>6. NothingUnasked
  BY DEF ExInit, NothingUnasked
<1>7. QED
  BY <1>1, <1>4, <1>5, <1>6 DEF ExInv, ExTypeOK, DnsInv

LEMMA ExStep == ExInv /\ [ExNext]_allVars => ExInv'
<1> SUFFICES ASSUME ExInv, [ExNext]_allVars PROVE ExInv'
  OBVIOUS
<1>1. DnsInv'
  BY StepImplements, NextKeeps DEF ExInv
<1>2. ExchangeTypes' /\ OneSocketEach' /\ NothingUnasked'
  BY ExchangeKept DEF ExInv
<1>3. QED
  BY <1>1, <1>2 DEF ExInv, ExTypeOK, DnsInv

\* However datagrams are lost, delayed, reordered and duplicated, a lookup is over when
\* its answer is in, a socket reads only in a round that is not over, no two sockets
\* have one port, and what arrives was asked for.
THEOREM ExchangeInOrder == ExSpec => []ExTypeOK
<1>1. ExInv => ExTypeOK
  BY DEF ExInv
<1>2. QED
  BY <1>1, ExAtFirst, ExStep, PTL DEF ExSpec

\* The lookups of resolvers.go implement module Dns: every resolver's goroutine ends
\* once, with addresses or one reason why not, and the control name is asked for in the
\* one case that calls for it, its votes those of the plain resolvers.
THEOREM LookupsImplementDns == ExSpec => ImplementsDns
<1>1. ExInit => Init
  BY DEF ExInit
<1>2. ExInv /\ [ExNext]_allVars => [Next]_vars
  BY StepImplements DEF ExInv
<1>3. QED
  BY <1>1, <1>2, ExAtFirst, ExStep, PTL DEF ExSpec, ImplementsDns, Spec

-----------------------------------------------------------------------------
(* Own answers. *)

\* What the results r hold for a resolver, and r with a in its place.
AnswerOf(r, slot) ==
    CASE slot[1] = "system" -> r.system
      [] slot[1] = "public" -> r.public[slot[2]]
      [] slot[1] = "doh" -> r.doh[slot[2]]

PutInto(r, slot, a) ==
    CASE slot[1] = "system" -> [r EXCEPT !.system = a]
      [] slot[1] = "public" -> [r EXCEPT !.public[slot[2]] = a]
      [] slot[1] = "doh" -> [r EXCEPT !.doh[slot[2]] = a]

LEMMA PutIsInto ==
    ASSUME NEW slot, NEW a
    PROVE  Put(slot, a) = PutInto(res, slot, a)
BY DEF Put, PutInto

LEMMA AnswerAfterPut ==
    ASSUME NEW r \in Result, NEW s \in Slots, NEW u \in Slots, NEW a
    PROVE  AnswerOf(PutInto(r, s, a), u) = IF u = s THEN a ELSE AnswerOf(r, u)
<1>1. CASE HasSystem /\ s = System
  <2>1. PutInto(r, s, a) = [r EXCEPT !.system = a]
    BY <1>1 DEF PutInto, System
  <2>2. QED
    BY <1>1, <2>1, SlotCases DEF AnswerOf, System, Result
<1>2. CASE \E i \in Public : s = <<"public", i>>
  <2>1. PICK i \in Public : s = <<"public", i>>
    BY <1>2
  <2>2. PutInto(r, s, a) = [r EXCEPT !.public[i] = a]
    BY <2>1 DEF PutInto
  <2>3. QED
    BY <2>1, <2>2, SlotCases DEF AnswerOf, System, Result
<1>3. CASE \E i \in DoH : s = <<"doh", i>>
  <2>1. PICK i \in DoH : s = <<"doh", i>>
    BY <1>3
  <2>2. PutInto(r, s, a) = [r EXCEPT !.doh[i] = a]
    BY <2>1 DEF PutInto
  <2>3. QED
    BY <2>1, <2>2, SlotCases DEF AnswerOf, System, Result
<1>4. QED
  BY <1>1, <1>2, <1>3, SlotCases

LEMMA PutItself ==
    ASSUME NEW r \in Result, NEW s \in Slots, NEW a, AnswerOf(r, s) = a
    PROVE  PutInto(r, s, a) = r
<1>1. CASE HasSystem /\ s = System
  BY <1>1 DEF PutInto, AnswerOf, System, Result
<1>2. CASE \E i \in Public : s = <<"public", i>>
  BY <1>2 DEF PutInto, AnswerOf, Result
<1>3. CASE \E i \in DoH : s = <<"doh", i>>
  BY <1>3 DEF PutInto, AnswerOf, Result
<1>4. QED
  BY <1>1, <1>2, <1>3, SlotCases

\* OwnAnswers for one resolver, its answer read off the results.
Own(s) ==
    reply[s] # NoReply =>
        /\ ask[s] = Over
        /\ reply[s].name = Round
        /\ \E q \in queries : q.slot = s /\ q.port = reply[s].port /\ q.name = Round
        /\ stage = "resolve" => AnswerOf(res, s) = AddrsFrom(reply[s].message)
        /\ stage = "control" => (s \in heard <=> OK(AddrsFrom(reply[s].message)))

AllOwn == \A s \in UdpSlots : Own(s)

LEMMA UdpAreSlots == UdpSlots \subseteq Slots
BY DEF UdpSlots

LEMMA AllOwnMeansOwn == ExInv /\ AllOwn => OwnAnswers
<1> SUFFICES ASSUME ExInv, AllOwn, NEW s \in UdpSlots, reply[s] # NoReply
             PROVE  /\ ask[s] = Over
                    /\ reply[s].name = Round
                    /\ \E q \in queries : q.slot = s /\ q.port = reply[s].port /\ q.name = Round
                    /\ stage = "resolve" => Put(s, AddrsFrom(reply[s].message)) = res
                    /\ stage = "control" => (s \in heard <=> OK(AddrsFrom(reply[s].message)))
  BY DEF OwnAnswers
<1>1. Own(s)
  BY DEF AllOwn
<1>2. res \in Result /\ s \in Slots
  BY UdpAreSlots DEF ExInv, DnsInv, TypeOK
<1>3. stage = "resolve" => Put(s, AddrsFrom(reply[s].message)) = res
  BY <1>1, <1>2, PutItself, PutIsInto DEF Own
<1>4. QED
  BY <1>1, <1>3 DEF Own

\* What another resolver does leaves a resolver's own answer alone.
LEMMA OwnStays ==
    ASSUME NEW t, Own(t), reply'[t] = reply[t], stage' = stage,
           ask[t] = Over => ask'[t] = Over, queries \subseteq queries',
           AnswerOf(res', t) = AnswerOf(res, t), (t \in heard') <=> (t \in heard)
    PROVE  Own(t)'
BY DEF Own, Round

\* A lookup that returns changes its own answer and its own vote only.
LEMMA ReturnChanges ==
    ASSUME ExInv, NEW s \in Slots, Unfinished(s), NEW a, LookupReturns(s, a)
    PROVE  /\ stage' = stage /\ queries' = queries
           /\ ask'[s] = Over
           /\ stage = "resolve" => AnswerOf(res', s) = a
           /\ stage = "control" => ((s \in heard') <=> OK(a))
           /\ \A t \in Slots : t # s =>
                /\ ask'[t] = ask[t]
                /\ AnswerOf(res', t) = AnswerOf(res, t)
                /\ ((t \in heard') <=> (t \in heard))
<1>1. /\ ask' = [ask EXCEPT ![s] = Over] /\ stage' = stage /\ queries' = queries
      /\ ask \in [Slots -> [at : {"idle", "reading", "over"}, port : Ports \cup {0}, id : IDs \cup {0}]]
      /\ res \in Result
  BY DEF LookupReturns, ExInv, DnsInv, TypeOK, ExTypeOK, ExchangeTypes
<1>2. s \notin heard
  BY DEF Unfinished, ExInv, ExTypeOK, OneSocketEach
<1>3. CASE stage = "resolve"
  <2>1. res' = PutInto(res, s, a) /\ heard' = heard
    BY <1>3, PutIsInto DEF LookupReturns, Round
  <2>2. \A t \in Slots : AnswerOf(res', t) = IF t = s THEN a ELSE AnswerOf(res, t)
    BY <1>1, <2>1, AnswerAfterPut
  <2>3. QED
    BY <1>1, <1>3, <2>1, <2>2
<1>4. CASE stage # "resolve"
  <2>1. res' = res /\ heard' = IF OK(a) THEN heard \cup {s} ELSE heard
    BY <1>4 DEF LookupReturns, Round
  <2>2. QED
    BY <1>1, <1>2, <1>4, <2>1
<1>5. QED
  BY <1>3, <1>4

LEMMA OwnReceived ==
    ASSUME ExInv, AllOwn, NEW s \in Slots, Reading(s), NEW d \in wire,
           d.slot = s, d.port = ask[s].port, Matches(s, d),
           LookupReturns(s, AddrsFrom(d.message)), reply' = [reply EXCEPT ![s] = d]
    PROVE  AllOwn'
<1>1. Unfinished(s)
  BY OverFacts DEF Reading, Unfinished
<1>2. /\ reply'[s] = d /\ \A t \in Slots : t # s => reply'[t] = reply[t]
  BY DEF ExInv, ExTypeOK, ExchangeTypes
<1>3. \E q \in queries : q.slot = s /\ q.port = d.port /\ q.name = d.name
  BY DEF ExInv, ExTypeOK, NothingUnasked
<1>4. d.name = Round
  BY DEF Matches
<1> DEFINE a == AddrsFrom(d.message)
<1>5. LookupReturns(s, a)
  OBVIOUS
<1>6. Own(s)'
  <2> HIDE DEF a
  <2>1. /\ stage' = stage /\ queries' = queries /\ ask'[s] = Over
        /\ stage = "resolve" => AnswerOf(res', s) = a
        /\ stage = "control" => ((s \in heard') <=> OK(a))
    BY <1>1, <1>5, ReturnChanges
  <2>2. Round' = Round
    BY <2>1 DEF Round
  <2>3. a = AddrsFrom(d.message)
    BY DEF a
  <2>4. QED
    BY <1>2, <1>3, <1>4, <2>1, <2>2, <2>3 DEF Own
<1>7. ASSUME NEW t \in UdpSlots, t # s PROVE Own(t)'
  <2>1. Own(t) /\ t \in Slots
    BY UdpAreSlots DEF AllOwn
  <2>2. QED
    BY <1>1, <1>2, <1>7, <2>1, ReturnChanges, OwnStays
<1>8. QED
  BY <1>6, <1>7 DEF AllOwn

LEMMA OwnKept ==
    ASSUME ExInv, AllOwn, [ExNext]_allVars
    PROVE  AllOwn'
<1>1. ASSUME NEW s \in Slots, SlotStep(s)
      PROVE  AllOwn'
  <2>1. CASE SendQuery(s)
    <3>1. /\ UNCHANGED <<stage, res, reply, heard>> /\ queries \subseteq queries' /\ ask[s] = Idle
          /\ \A t \in Slots : t # s => ask'[t] = ask[t]
      BY <2>1 DEF SendQuery, vars, ExInv, ExTypeOK, ExchangeTypes
    <3>2. ASSUME NEW t \in UdpSlots PROVE Own(t)'
      BY <3>1, OwnStays, OverFacts, UdpAreSlots DEF AllOwn
    <3>3. QED
      BY <3>2 DEF AllOwn
  <2>2. CASE UNCHANGED <<vars, ask, queries, reply, heard>>
    BY <2>2, OwnStays DEF AllOwn, vars
  <2>3. ASSUME Unfinished(s), NEW a \in Answer, LookupReturns(s, a), UNCHANGED <<wire, reply>>
        PROVE  AllOwn'
    <3>1. ASSUME NEW t \in UdpSlots PROVE Own(t)'
      <4>1. Own(t) /\ t \in Slots
        BY UdpAreSlots DEF AllOwn
      <4>2. CASE t # s
        BY <2>3, <4>1, <4>2, ReturnChanges, OwnStays
      <4>3. CASE t = s
        BY <2>3, <4>1, <4>3 DEF Own, Unfinished
      <4>4. QED
        BY <4>2, <4>3
    <3>2. QED
      BY <3>1 DEF AllOwn
  <2>4. ASSUME Reading(s), NEW d \in wire, d.slot = s, d.port = ask[s].port, Matches(s, d),
               LookupReturns(s, AddrsFrom(d.message)), reply' = [reply EXCEPT ![s] = d]
        PROVE  AllOwn'
    BY <2>4, OwnReceived
  <2>5. QED
    BY <1>1, <2>1, <2>2, <2>3, <2>4, Returning DEF ExInv
<1>2. CASE Analysed
  <2>1. \A s \in Slots : reply'[s] = NoReply
    BY <1>2 DEF Analysed
  <2>2. QED
    BY <2>1, UdpAreSlots DEF AllOwn, Own
<1>3. CASE ControlEnds
  <2>1. stage = "control" /\ stage' = "done" /\ UNCHANGED <<ask, queries, reply>>
    BY <1>3 DEF ControlEnds, exchangeVars
  <2>2. Round' = Round
    BY <2>1 DEF Round
  <2>3. QED
    BY <2>1, <2>2 DEF AllOwn, Own
<1>4. CASE Respond \/ Lose \/ UNCHANGED allVars
  <2>1. UNCHANGED <<stage, res, ask, queries, reply, heard>>
    BY <1>4 DEF Respond, Lose, allVars, exchangeVars, vars
  <2>2. QED
    BY <2>1, OwnStays DEF AllOwn
<1>5. QED
  BY <1>1, <1>2, <1>3, <1>4 DEF ExNext

\* "The first response that matches its ID and question" (resolvers.go:128): for every
\* supply of ports and IDs and every network, no lookup takes a response to a query of
\* another round, and what it takes is its resolver's answer or vote.
THEOREM AnswersAreOwn == ExSpec => []OwnAnswers
<1>1. ExInit => AllOwn
  BY UdpAreSlots DEF ExInit, AllOwn, Own
<1>2. ExInv /\ AllOwn /\ [ExNext]_allVars => (ExInv /\ AllOwn)'
  BY ExStep, OwnKept
<1>3. QED
  BY <1>1, <1>2, ExAtFirst, AllOwnMeansOwn, PTL DEF ExSpec

-----------------------------------------------------------------------------
(* That the lookups end. *)

Rounds == {"host", "control"}
Askings == Rounds \X Slots

\* The steps a lookup has before it, at most, in the round it is in, and those of the
\* resolvers that may be asked for the control name when that round comes.
Before(at) == CASE at = Over -> 0 [] at = Idle -> 2 [] OTHER -> 1

Due(round, s) ==
    CASE round = Round /\ s \in Asked -> Before(ask[s])
      [] round = "control" /\ stage = "resolve" /\ s \in ControlSlots -> 2
      [] OTHER -> 0

TurnsLeft == {x \in Askings \X (1..2) : x[2] <= Due(x[1][1], x[1][2])}

StagesLeft == CASE stage = "resolve" -> 2 [] stage = "control" -> 1 [] OTHER -> 0

\* The steps the DNS layer has before it, at most; the network's are not counted.
LookupsLeft == Cardinality(TurnsLeft) + StagesLeft

LEMMA SlotsFinite == IsFiniteSet(Slots)
<1>1. IsFiniteSet(Public) /\ IsFiniteSet(DoH)
  <2>1. 1 \in Int /\ NumPublic \in Int /\ NumDoH \in Int
    BY DnsAssumption
  <2>2. QED
    BY <2>1, FS_Interval DEF Public, DoH
<1>2. IsFiniteSet({"public"} \X Public) /\ IsFiniteSet({"doh"} \X DoH)
  BY <1>1, FS_Product, FS_Singleton
<1>3. IsFiniteSet(IF HasSystem THEN {System} ELSE {})
  BY FS_Singleton, FS_EmptySet
<1>4. QED
  BY <1>2, <1>3, FS_Union DEF Slots

LEMMA TurnsLeftFinite ==
    IsFiniteSet(TurnsLeft) /\ Cardinality(TurnsLeft) \in Nat
<1>1. IsFiniteSet(Rounds)
  <2>1. IsFiniteSet({"host"}) /\ IsFiniteSet({"control"}) /\ Rounds = {"host"} \cup {"control"}
    BY FS_Singleton DEF Rounds
  <2>2. QED
    BY <2>1, FS_Union
<1>2. IsFiniteSet(1..2)
  <2>1. 1 \in Int /\ 2 \in Int
    OBVIOUS
  <2>2. QED
    BY <2>1, FS_Interval
<1>3. IsFiniteSet(Askings)
  BY <1>1, SlotsFinite, FS_Product DEF Askings
<1>4. IsFiniteSet(Askings \X (1..2))
  BY <1>2, <1>3, FS_Product
<1>5. TurnsLeft \in SUBSET (Askings \X (1..2))
  BY DEF TurnsLeft
<1>6. QED
  BY <1>4, <1>5, FS_Subset, FS_CardinalityType

LEMMA DueIs ==
    \A round \in Rounds, s \in Slots : Due(round, s) \in 0..2 /\ Due(round, s)' \in 0..2
<1>1. 0 \in 0..2 /\ 1 \in 0..2 /\ 2 \in 0..2
  OBVIOUS
<1>2. \A at : Before(at) \in 0..2
  BY <1>1, Zenon DEF Before
<1>3. ASSUME NEW round \in Rounds, NEW s \in Slots
      PROVE  Due(round, s) \in 0..2 /\ Due(round, s)' \in 0..2
  <2>1. Due(round, s) \in {Before(ask[s]), 2, 0}
    BY Zenon DEF Due
  <2>2. Due(round, s)' \in {Before(ask'[s]), 2, 0}
    BY Zenon DEF Due
  <2>3. QED
    BY <1>1, <1>2, <2>1, <2>2, Zenon
<1>4. QED
  BY <1>3

\* Nobody has more before him: no turn is added.
LEMMA TurnsStay ==
    ASSUME \A round \in Rounds, s \in Slots : Due(round, s)' <= Due(round, s)
    PROVE  TurnsLeft' \subseteq TurnsLeft
<1>1. \A m \in 1..2, n, o \in 0..2 : m <= n /\ n <= o => m <= o
  OBVIOUS
<1>2. ASSUME NEW x \in Askings \X (1..2), x[2] <= Due(x[1][1], x[1][2])'
      PROVE  x[2] <= Due(x[1][1], x[1][2])
  <2>1. x[1][1] \in Rounds /\ x[1][2] \in Slots /\ x[2] \in 1..2
    BY DEF Askings
  <2>2. QED
    BY <1>1, <1>2, <2>1, DueIs, Zenon
<1>3. QED
  BY <1>2, Zenon DEF TurnsLeft

LEMMA TurnsFall ==
    ASSUME \A round \in Rounds, s \in Slots : Due(round, s)' <= Due(round, s)
    PROVE  /\ Cardinality(TurnsLeft') \in Nat
           /\ Cardinality(TurnsLeft') <= Cardinality(TurnsLeft)
           /\ \A round \in Rounds, s \in Slots :
                Due(round, s)' < Due(round, s) => Cardinality(TurnsLeft') < Cardinality(TurnsLeft)
<1>1. TurnsLeft' \subseteq TurnsLeft
  BY TurnsStay
<1>2. /\ IsFiniteSet(TurnsLeft') /\ Cardinality(TurnsLeft') \in Nat
      /\ Cardinality(TurnsLeft') <= Cardinality(TurnsLeft)
  BY <1>1, TurnsLeftFinite, FS_Subset, FS_CardinalityType
<1>3. ASSUME NEW round \in Rounds, NEW s \in Slots, Due(round, s)' < Due(round, s)
      PROVE  Cardinality(TurnsLeft') < Cardinality(TurnsLeft)
  <2> DEFINE x == <<<<round, s>>, Due(round, s)>>
  <2>1. Due(round, s) \in 1..2 /\ Due(round, s) <= Due(round, s) /\ ~(Due(round, s) <= Due(round, s)')
    BY <1>3, DueIs
  <2>2. x \in Askings \X (1..2)
    BY <2>1, Zenon DEF Askings
  <2>3. x[2] = Due(round, s) /\ x[1][1] = round /\ x[1][2] = s
    OBVIOUS
  <2> HIDE DEF x
  <2>4. x \in TurnsLeft
    BY <2>1, <2>2, <2>3, Zenon DEF TurnsLeft
  <2>5. x \notin TurnsLeft'
    BY <2>1, <2>3, Zenon DEF TurnsLeft
  <2>6. TurnsLeft' # TurnsLeft
    BY <2>4, <2>5
  <2>7. Cardinality(TurnsLeft') # Cardinality(TurnsLeft)
    BY <1>1, <2>6, TurnsLeftFinite, FS_Subset
  <2>8. \A m, n \in Nat : m <= n /\ m # n => m < n
    OBVIOUS
  <2>9. QED
    BY <1>2, <2>7, <2>8, TurnsLeftFinite, Zenon
<1>4. QED
  BY <1>2, <1>3

\* A turn taken in the round: the one whose lookup it is has less before him.
LEMMA TurnTaken ==
    ASSUME ExTypeOK, NEW s \in Slots, s \in Asked, NEW at,
           ask' = [ask EXCEPT ![s] = at], stage' = stage, Before(at) < Before(ask[s])
    PROVE  LookupsLeft' < LookupsLeft
<1>1. /\ ask' = [u \in Slots |-> IF u = s THEN at ELSE ask[u]]
      /\ Round' = Round /\ Asked' = Asked /\ StagesLeft' = StagesLeft /\ StagesLeft \in Nat
  BY DEF ExTypeOK, ExchangeTypes, Round, Asked, StagesLeft
<1>2. PICK r \in Rounds : r = Round
  BY DEF Round, Rounds
<1>3. Due(r, s) = Before(ask[s]) /\ Due(r, s)' = Before(at)
  <2>1. r = Round' /\ s \in Asked' /\ ask'[s] = at
    BY <1>1, <1>2, Zenon
  <2>2. Due(r, s) = Before(ask[s])
    BY <1>2 DEF Due, Round
  <2>3. Due(r, s)' = Before(ask'[s])
    BY <2>1 DEF Due, Round
  <2>4. QED
    BY <2>1, <2>2, <2>3, Zenon
<1>4. ASSUME NEW round \in Rounds, NEW u \in Slots
      PROVE  Due(round, u)' <= Due(round, u)
  <2>1. CASE round = r /\ u = s
    <3>1. Due(round, u) \in 0..2 /\ Due(round, u)' \in 0..2 /\ Due(round, u)' < Due(round, u)
      BY <1>3, <2>1, DueIs, Zenon
    <3>2. QED
      BY <3>1
  <2>2. CASE ~(round = r /\ u = s)
    <3>1. Due(round, u)' = Due(round, u)
      <4>1. (round = Round' <=> round = Round) /\ Asked' = Asked /\ stage' = stage
        BY <1>1, Zenon
      <4>2. round = Round => ask'[u] = ask[u]
        BY <1>1, <1>2, <2>2, Zenon
      <4>3. QED
        BY <4>1, <4>2, Zenon DEF Due
    <3>2. QED
      BY <3>1, DueIs
  <2>3. QED
    BY <2>1, <2>2
<1>5. Due(r, s)' < Due(r, s)
  BY <1>3, Zenon
<1>6. Cardinality(TurnsLeft') < Cardinality(TurnsLeft) /\ Cardinality(TurnsLeft') \in Nat
  BY <1>2, <1>4, <1>5, TurnsFall
<1>7. \A m, n, k \in Nat : m < n => m + k < n + k
  OBVIOUS
<1>8. LookupsLeft' = Cardinality(TurnsLeft') + StagesLeft /\ LookupsLeft = Cardinality(TurnsLeft) + StagesLeft
  BY <1>1, Zenon DEF LookupsLeft
<1>9. QED
  BY <1>1, <1>6, <1>7, <1>8, TurnsLeftFinite, Zenon

\* A stage that is over: the next round holds no turn that was not counted.
LEMMA StageOver ==
    ASSUME Analysed \/ ControlEnds
    PROVE  LookupsLeft' < LookupsLeft
<1>1. \/ /\ stage = "resolve" /\ stage' \in {"control", "done"}
         /\ ask' = [s \in Slots |-> Idle]
      \/ stage = "control" /\ stage' = "done"
  BY DEF Analysed, Compare, ControlEnds
<1>2. StagesLeft \in Nat /\ StagesLeft' \in Nat /\ StagesLeft' < StagesLeft
  BY <1>1 DEF StagesLeft
<1>3. Round' = "control" /\ Asked' \subseteq ControlSlots /\ stage' # "resolve"
      /\ (stage' = "done" => Asked' = {})
  BY <1>1 DEF Round, Asked
<1>4. ASSUME NEW round \in Rounds, NEW s \in Slots
      PROVE  Due(round, s)' <= Due(round, s)
  <2>1. CASE round = "control" /\ s \in Asked'
    <3>1. stage = "resolve" /\ Round = "host" /\ s \in ControlSlots
      BY <1>1, <1>3, <2>1 DEF Round
    <3>2. Due(round, s) = 2
      BY <2>1, <3>1 DEF Due
    <3>3. QED
      BY <3>2, DueIs
  <2>2. CASE ~(round = "control" /\ s \in Asked')
    <3>1. Due(round, s)' = 0
      BY <1>3, <2>2, Zenon DEF Due
    <3>2. QED
      BY <3>1, DueIs
  <2>3. QED
    BY <2>1, <2>2
<1>5. Cardinality(TurnsLeft') <= Cardinality(TurnsLeft) /\ Cardinality(TurnsLeft') \in Nat
  BY <1>4, TurnsFall
<1>6. \A m, n, k, l \in Nat : m <= n /\ k < l => m + k < n + l
  OBVIOUS
<1>7. LookupsLeft' = Cardinality(TurnsLeft') + StagesLeft'
  BY Zenon DEF LookupsLeft
<1>8. QED
  BY <1>2, <1>5, <1>6, <1>7, TurnsLeftFinite, Zenon DEF LookupsLeft

LEMMA LookupsFall ==
    ASSUME ExTypeOK, ExNext
    PROVE  LookupsLeft' < LookupsLeft \/ UNCHANGED <<vars, ask, queries, reply, heard>>
<1>1. ASSUME NEW s \in Slots, SlotStep(s)
      PROVE  LookupsLeft' < LookupsLeft \/ UNCHANGED <<vars, ask, queries, reply, heard>>
  <2>1. Before(Over) = 0 /\ Before(Idle) = 2 /\ \A at : at # Over => Before(at) \in {1, 2}
    BY OverFacts, Zenon DEF Before
  <2>2. CASE SendQuery(s)
    <3>1. PICK p \in Ports, id \in IDs : ask' = [ask EXCEPT ![s] = [at |-> "reading", port |-> p, id |-> id]]
      BY <2>2 DEF SendQuery
    <3>2. s \in Asked /\ ask[s] = Idle /\ stage' = stage
      BY <2>2 DEF SendQuery, vars
    <3>3. Before([at |-> "reading", port |-> p, id |-> id]) = 1
      <4>1. [at |-> "reading", port |-> p, id |-> id].at = "reading"
        OBVIOUS
      <4>2. /\ [at |-> "reading", port |-> p, id |-> id] # Over
            /\ [at |-> "reading", port |-> p, id |-> id] # Idle
        BY <4>1, OverFacts
      <4>3. QED
        BY <4>2, Zenon DEF Before
    <3>4. Before([at |-> "reading", port |-> p, id |-> id]) < Before(ask[s])
      BY <2>1, <3>2, <3>3
    <3>5. QED
      BY <3>1, <3>2, <3>4, TurnTaken
  <2>3. ASSUME NEW a, Unfinished(s), LookupReturns(s, a)
        PROVE  LookupsLeft' < LookupsLeft
    <3>1. s \in Asked /\ ask[s] # Over /\ ask' = [ask EXCEPT ![s] = Over] /\ stage' = stage
      BY <2>3, Zenon DEF Unfinished, LookupReturns
    <3>2. Before(Over) < Before(ask[s])
      <4>1. Before(ask[s]) \in {1, 2} /\ Before(Over) = 0
        BY <2>1, <3>1, Zenon
      <4>2. QED
        BY <4>1
    <3>3. QED
      BY <3>1, <3>2, TurnTaken
  <2>4. Reading(s) => Unfinished(s)
    BY OverFacts DEF Reading, Unfinished
  <2>5. QED
    BY <1>1, <2>2, <2>3, <2>4, Returning
<1>2. CASE Respond \/ Lose
  BY <1>2 DEF Respond, Lose
<1>3. CASE Analysed \/ ControlEnds
  BY <1>3, StageOver
<1>4. CASE stage = "done" /\ UNCHANGED allVars
  BY <1>4 DEF allVars, exchangeVars
<1>5. QED
  BY <1>1, <1>2, <1>3, <1>4 DEF ExNext

LEMMA LookupsLeftIs == LookupsLeft \in Nat
<1>1. StagesLeft \in Nat
  BY DEF StagesLeft
<1>2. QED
  BY <1>1, TurnsLeftFinite DEF LookupsLeft

\* resolvers.go:128: whatever the network loses, delays, repeats or makes up, the DNS
\* layer has boundedly many steps of its own, two for each lookup and one for each
\* round: an exchange that skips a foreign datagram is where it was, and nothing sends
\* it back. This is what LookupsEnd rests on; that the deadline comes is fairness.
THEOREM LookupsAreBounded ==
    ExSpec => /\ [](LookupsLeft \in Nat)
              /\ [][LookupsLeft' < LookupsLeft \/ UNCHANGED <<vars, ask, queries, reply, heard>>]_allVars
<1>1. ExInv /\ [ExNext]_allVars
        => [LookupsLeft' < LookupsLeft \/ UNCHANGED <<vars, ask, queries, reply, heard>>]_allVars
  BY LookupsFall DEF ExInv
<1>2. ExInv => LookupsLeft \in Nat
  BY LookupsLeftIs
<1>3. QED
  BY <1>1, <1>2, ExAtFirst, ExStep, PTL DEF ExSpec
=============================================================================
